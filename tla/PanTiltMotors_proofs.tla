------------------------- MODULE PanTiltMotors_proofs -----------------------
(***************************************************************************)
(* Proofs about PanTiltMotors: however far the motors turn, however late   *)
(* the alert thread is and wherever the steps of both threads interleave,  *)
(* the variables keep their types, and as long as the main thread lets a   *)
(* motion end before it starts another (Careful), both motors end up doing *)
(* what was asked of them last and never turn a way nobody asked for; but  *)
(* a motor that is sent to where it is already always runs away from there.*)
(*                                                                         *)
(* The argument: what the main thread has still to write to a motor ends   *)
(* with its duty (MainInv), and leads to what was asked (Heading); the     *)
(* alert thread writes only to the motor whose callback it is in, and to   *)
(* stop it (AlertInv); and a motor sent to a position has, from the write  *)
(* of its duty on, a callback in front of it, or is being stopped, or was, *)
(* or has left it behind, if it was sent to where it was (GotoInv).        *)
(***************************************************************************)
EXTENDS PanTiltMotors, FiniteSetTheorems, SequenceTheorems, TLAPS

(* The values written are levels, and the duties are 0 or 1. *)
Proper(w) == w.do \in Pins => w.value \in {0, 1}

StepsProper == \A thread \in {"main", "alert"} :
                 \A i \in DOMAIN todo[thread] : Proper(todo[thread][i])

-----------------------------------------------------------------------------
(* What the main thread has still to do to a motor. *)

Does(w, m, dos) == w.motor = m /\ w.do \in dos

Coming(m, dos) ==
  \E i \in DOMAIN todo["main"] : Does(todo["main"][i], m, dos)

Valued(m, do, v) ==
  \A i \in DOMAIN todo["main"] :
    Does(todo["main"][i], m, {do}) => todo["main"][i].value = v

(* The duty comes last; counters are reset at rest, and nothing else is.   *)
MainInv(m) ==
  LET s == todo["main"] IN
  \A i \in DOMAIN s :
    /\ Does(s[i], m, {"in1", "in2", "callback"}) =>
         \E j \in DOMAIN s : j > i /\ Does(s[j], m, {"pwm"})
    /\ Does(s[i], m, {"pwm"}) =>
         \A j \in DOMAIN s :
           j > i => ~Does(s[j], m, {"in1", "in2", "pwm", "callback"})
    /\ Does(s[i], m, {"counter"}) =>
         duty[m] = 0 /\ \A j \in DOMAIN s : s[j].do = "counter"

(* The inputs of the motor are what direction d takes, or will be. *)
Heading(m, d) ==
  /\ Valued(m, "in1", d)
  /\ Valued(m, "in2", (d + 1) % 2)
  /\ in1[m] = d \/ Coming(m, {"in1"})
  /\ in2[m] = (d + 1) % 2 \/ Coming(m, {"in2"})

(* The duty of the motor is v, or will be. *)
Powered(m, v) ==
  /\ Valued(m, "pwm", v)
  /\ duty[m] = v \/ Coming(m, {"pwm"})

DirectionOf(way) == IF way < 0 THEN CCW ELSE CW
WayOf(d)         == IF d = CW THEN 1 ELSE -1

(* pan or tilt: what is to come stops the motor, or turns it; in the second*)
(* case no callback is installed and none is running.                      *)
TurnInv(m) ==
  commanded[m].is = "turn" =>
    /\ commanded[m].arg \in {-1, 0, 1} /\ commanded[m].from = 0
    /\ ~Coming(m, {"callback"})
    /\ commanded[m].arg = 0 => Powered(m, 0)
    /\ commanded[m].arg # 0 =>
         /\ Powered(m, 1)
         /\ Heading(m, DirectionOf(commanded[m].arg))
         /\ callback[m] = {}
         /\ m \notin calling

(* gotoPosition(goal), in direction d. *)
Starts(m, goal, d) ==
  /\ Coming(m, {"pwm"})
  /\ Heading(m, d) /\ Powered(m, 1)
  /\ callback[m] = {goal} \/ Coming(m, {"callback"})
  /\ Valued(m, "callback", goal)
  /\ duty[m] = 0 /\ lag[m] = <<>> /\ m \notin calling
  /\ IF commanded[m].from = goal THEN d = CW /\ counter[m] = goal
     ELSE IF d = CW THEN counter[m] < goal ELSE counter[m] > goal

(* The goal is ahead, and so is every count that is to be reported; unless *)
(* it is where the motor was, which then has it behind.                    *)
Goes(m, goal, d) ==
  /\ ~Coming(m, {"pwm"})
  /\ Heading(m, d)
  /\ callback[m] = {goal}
  /\ duty[m] = 1
  /\ \A i \in DOMAIN lag[m] : lag[m][i] = WayOf(d)
  /\ IF commanded[m].from = goal
     THEN d = CW /\ counter[m] >= goal /\ (counter[m] = goal => m \notin calling)
     ELSE /\ IF d = CW THEN counter[m] <= goal ELSE counter[m] >= goal
          /\ counter[m] = goal => calling = {m}
  /\ todo["alert"] # <<>> => m \notin calling

Stops(m) ==
  /\ ~IsSentNowhere(m)
  /\ ~Coming(m, {"pwm"})
  /\ callback[m] = {}
  /\ duty[m] = 0 \/ (calling = {m} /\ todo["alert"] # <<>>)

GotoInv(m) ==
  commanded[m].is = "goto" =>
    \/ \E d \in Directions : Starts(m, commanded[m].arg, d)
    \/ \E d \in Directions : Goes(m, commanded[m].arg, d)
    \/ Stops(m)

MotorInv(m) == MainInv(m) /\ TurnInv(m) /\ GotoInv(m)

(* The alert thread is in one callback at a time, which was removed before *)
(* the motor is stopped; the duty comes last.                              *)
AlertInv ==
  LET s == todo["alert"] IN
  /\ calling = {} \/ \E m \in Motors : calling = {m}
  /\ \A i \in DOMAIN s :
       /\ s[i].do \in {"in1", "in2", "pwm"}
       /\ calling = {s[i].motor}
       /\ callback[s[i].motor] = {}
       /\ s[i].do = "pwm" => s[i].value = 0
  /\ s # <<>> => s[Len(s)].do = "pwm"

IInv ==
  /\ TypeOK /\ StepsProper
  /\ alive => AlertInv /\ \A m \in Motors : MotorInv(m)

-----------------------------------------------------------------------------
(* Sequences of steps. *)

LEMMA FirstAndRest ==
  ASSUME NEW s \in Seq(Steps), s # <<>>
  PROVE  /\ Head(s) \in Steps /\ Head(s) = s[1] /\ 1 \in DOMAIN s
         /\ Tail(s) \in Seq(Steps)
         /\ Len(Tail(s)) = Len(s) - 1
         /\ \A i \in DOMAIN Tail(s) :
              i \in Nat /\ i + 1 \in DOMAIN s /\ Tail(s)[i] = s[i + 1]
         /\ \A i \in DOMAIN s :
              i # 1 => i \in Nat /\ i - 1 \in DOMAIN Tail(s) /\ Tail(s)[i - 1] = s[i]
OBVIOUS

LEMMA LastOfRest ==
  ASSUME NEW s \in Seq(Steps), s # <<>>, Len(s) # 1
  PROVE  /\ Tail(s) # <<>>
         /\ Len(Tail(s)) \in DOMAIN Tail(s)
         /\ Len(Tail(s)) + 1 = Len(s)
<1>1. Len(s) \in Nat /\ Len(s) # 0
  OBVIOUS
<1>2. Len(Tail(s)) = Len(s) - 1 /\ DOMAIN Tail(s) = 1..Len(Tail(s))
  OBVIOUS
<1>3. Len(Tail(s)) \in Nat /\ Len(Tail(s)) # 0 /\ Len(Tail(s)) + 1 = Len(s)
  BY <1>1, <1>2
<1>4. Tail(s) # <<>>
  <2>1. Len(<<>>) = 0
    OBVIOUS
  <2>2. Tail(s) = <<>> => Len(Tail(s)) = 0
    BY <2>1, Zenon
  <2> QED
    BY <1>3, <2>2
<1> QED
  BY <1>2, <1>3, <1>4

LEMMA StepTypes ==
  /\ \A w \in Steps : w.motor \in Motors /\ w.do \in Pins \union {"callback", "counter"}
                      /\ w.value \in Int
  /\ \A do \in Pins \union {"callback", "counter"}, m \in Motors, v \in Int :
       /\ Write(do, m, v) \in Steps
       /\ Write(do, m, v).do = do
       /\ Write(do, m, v).motor = m
       /\ Write(do, m, v).value = v
BY DEF Steps, Write

LEMMA TurningSteps ==
  ASSUME NEW m \in Motors, NEW d \in Directions, NEW v \in Int
  PROVE  /\ Turning(m, d, v) \in Seq(Steps)
         /\ Len(Turning(m, d, v)) = 3
         /\ Turning(m, d, v)[1] = Write("in1", m, d)
         /\ Turning(m, d, v)[2] = Write("in2", m, (d + 1) % 2)
         /\ Turning(m, d, v)[3] = Write("pwm", m, v)
<1>1. /\ d \in Int /\ (d + 1) % 2 \in Int
      /\ {"in1", "in2", "pwm"} \subseteq Pins \union {"callback", "counter"}
  BY DEF Directions, CW, CCW, Pins
<1>2. /\ Write("in1", m, d) \in Steps
      /\ Write("in2", m, (d + 1) % 2) \in Steps
      /\ Write("pwm", m, v) \in Steps
  BY <1>1, StepTypes
<1> QED
  BY <1>2 DEF Turning, SetDirection, SetDuty

LEMMA Joined ==
  ASSUME NEW s \in Seq(Steps), NEW t \in Seq(Steps)
  PROVE  /\ s \o t \in Seq(Steps)
         /\ Len(s \o t) = Len(s) + Len(t)
         /\ \A i \in 1..Len(s) : (s \o t)[i] = s[i]
         /\ \A i \in 1..Len(t) : (s \o t)[Len(s) + i] = t[i]
OBVIOUS

LEMMA GotoStepsAre ==
  ASSUME NEW pan \in Int, NEW tilt \in Int, NEW p, NEW t,
         p = DirectionTo(PAN, pan), t = DirectionTo(TILT, tilt)
  PROVE  LET s == GotoSteps(pan, tilt) IN
         /\ s \in Seq(Steps) /\ Len(s) = 8
         /\ s[1] = Write("callback", PAN, pan)
         /\ s[2] = Write("callback", TILT, tilt)
         /\ s[3] = Write("in1", PAN, p)
         /\ s[4] = Write("in2", PAN, (p + 1) % 2)
         /\ s[5] = Write("pwm", PAN, 1)
         /\ s[6] = Write("in1", TILT, t)
         /\ s[7] = Write("in2", TILT, (t + 1) % 2)
         /\ s[8] = Write("pwm", TILT, 1)
<1> DEFINE a == << Write("callback", PAN, pan), Write("callback", TILT, tilt) >>
           b == Turning(PAN, p, 1)
           c == Turning(TILT, t, 1)
<1>1. PAN \in Motors /\ TILT \in Motors /\ p \in Directions /\ t \in Directions
  BY DEF Motors, DirectionTo, Directions
<1>2. a \in Seq(Steps) /\ Len(a) = 2
  <2>1. /\ Write("callback", PAN, pan) \in Steps
        /\ Write("callback", TILT, tilt) \in Steps
    BY <1>1, StepTypes
  <2> QED
    BY <2>1
<1>3. /\ a[1] = Write("callback", PAN, pan)
      /\ a[2] = Write("callback", TILT, tilt)
  OBVIOUS
<1>4. /\ b \in Seq(Steps) /\ Len(b) = 3
      /\ b[1] = Write("in1", PAN, p)
      /\ b[2] = Write("in2", PAN, (p + 1) % 2)
      /\ b[3] = Write("pwm", PAN, 1)
  BY <1>1, TurningSteps
<1>5. /\ c \in Seq(Steps) /\ Len(c) = 3
      /\ c[1] = Write("in1", TILT, t)
      /\ c[2] = Write("in2", TILT, (t + 1) % 2)
      /\ c[3] = Write("pwm", TILT, 1)
  BY <1>1, TurningSteps
<1>6. GotoSteps(pan, tilt) = (a \o b) \o c
  BY DEF GotoSteps
<1> HIDE DEF a, b, c
<1> DEFINE ab == a \o b
<1>7. /\ ab \in Seq(Steps) /\ Len(ab) = 5
      /\ ab[1] = a[1] /\ ab[2] = a[2]
      /\ ab[3] = b[1] /\ ab[4] = b[2] /\ ab[5] = b[3]
  <2>1. /\ ab \in Seq(Steps)
        /\ Len(ab) = Len(a) + Len(b)
        /\ \A i \in 1..Len(a) : ab[i] = a[i]
        /\ \A i \in 1..Len(b) : ab[Len(a) + i] = b[i]
    <3>1. a \in Seq(Steps) /\ b \in Seq(Steps)
      BY <1>2, <1>4
    <3> QED
      BY <3>1, Joined
  <2> HIDE DEF ab
  <2>2. ab[2 + 1] = b[1] /\ ab[2 + 2] = b[2] /\ ab[2 + 3] = b[3]
    BY <1>2, <1>4, <2>1
  <2>3. ab[1] = a[1] /\ ab[2] = a[2]
    BY <1>2, <2>1
  <2> QED
    BY <1>2, <1>4, <2>1, <2>2, <2>3
<1> HIDE DEF ab
<1>8. /\ ab \o c \in Seq(Steps) /\ Len(ab \o c) = 8
      /\ \A i \in 1..5 : (ab \o c)[i] = ab[i]
      /\ (ab \o c)[6] = c[1] /\ (ab \o c)[7] = c[2] /\ (ab \o c)[8] = c[3]
  <2> DEFINE abc == ab \o c
  <2>1. /\ abc \in Seq(Steps)
        /\ Len(abc) = Len(ab) + Len(c)
        /\ \A i \in 1..Len(ab) : abc[i] = ab[i]
        /\ \A i \in 1..Len(c) : abc[Len(ab) + i] = c[i]
    <3>1. ab \in Seq(Steps) /\ c \in Seq(Steps)
      BY <1>5, <1>7
    <3> QED
      BY <3>1, Joined
  <2> HIDE DEF abc
  <2>2. abc[5 + 1] = c[1] /\ abc[5 + 2] = c[2] /\ abc[5 + 3] = c[3]
    BY <1>5, <1>7, <2>1
  <2>3. abc[6] = c[1] /\ abc[7] = c[2] /\ abc[8] = c[3] /\ Len(abc) = 8
    BY <1>5, <1>7, <2>1, <2>2
  <2>4. \A i \in 1..5 : abc[i] = ab[i]
    BY <1>7, <2>1
  <2> QED
    BY <2>1, <2>3, <2>4 DEF abc
<1>9. GotoSteps(pan, tilt) = ab \o c
  BY <1>6 DEF ab
<1> DEFINE s == GotoSteps(pan, tilt)
<1>10. s \in Seq(Steps) /\ Len(s) = 8
  BY <1>8, <1>9
<1>11. /\ s[1] = a[1] /\ s[2] = a[2]
       /\ s[3] = b[1] /\ s[4] = b[2] /\ s[5] = b[3]
       /\ s[6] = c[1] /\ s[7] = c[2] /\ s[8] = c[3]
  <2>1. \A i \in 1..5 : s[i] = ab[i]
    BY <1>8, <1>9
  <2>2. s[1] = ab[1] /\ s[2] = ab[2] /\ s[3] = ab[3] /\ s[4] = ab[4] /\ s[5] = ab[5]
    BY <2>1
  <2> QED
    BY <1>7, <1>8, <1>9, <2>2
<1> QED
  BY <1>3, <1>4, <1>5, <1>10, <1>11

-----------------------------------------------------------------------------
(* Types, whether the main thread is careful or not. *)

Types == TypeOK /\ StepsProper

LEMMA Singletons ==
  /\ Cardinality({}) <= 1
  /\ \A x : Cardinality({x}) <= 1
BY FS_EmptySet, FS_Singleton

(* The steps of an operation are proper. *)
LEMMA OperationSteps ==
  ASSUME Types, Operation
  PROVE  \E s \in Seq(Steps) : Call(s) /\ \A i \in DOMAIN s : Proper(s[i])
<1>0. PAN \in Motors /\ TILT \in Motors
  BY DEF Motors
<1>1. ASSUME NEW m \in Motors, NEW d \in Directions, NEW v \in {0, 1}
      PROVE  \A i \in DOMAIN Turning(m, d, v) : Proper(Turning(m, d, v)[i])
  <2>1. (d + 1) % 2 \in {0, 1} /\ d \in {0, 1}
    BY DEF Directions, CW, CCW
  <2>2. \A i \in DOMAIN Turning(m, d, v) : i \in 1..3
    BY TurningSteps
  <2>3. /\ Proper(Write("in1", m, d)) /\ Proper(Write("in2", m, (d + 1) % 2))
        /\ Proper(Write("pwm", m, v))
    BY <2>1 DEF Proper, Write
  <2>4. /\ Proper(Turning(m, d, v)[1]) /\ Proper(Turning(m, d, v)[2])
        /\ Proper(Turning(m, d, v)[3])
    BY <2>3, TurningSteps
  <2> QED
    BY <2>2, <2>4
<1>2. ASSUME NEW m \in Motors, NEW d \in {-1, 0, 1}, Turn(m, d)
      PROVE  \E s \in Seq(Steps) : Call(s) /\ \A i \in DOMAIN s : Proper(s[i])
  <2> DEFINE dir  == IF d < 0 THEN CCW ELSE CW
             duty_ == IF d = 0 THEN 0 ELSE 1
  <2>1. dir \in Directions /\ duty_ \in {0, 1}
    BY DEF Directions
  <2>2. Call(Turning(m, dir, duty_))
    BY <1>2 DEF Turn
  <2> HIDE DEF dir, duty_
  <2> QED
    BY <1>1, <2>1, <2>2, TurningSteps
<1>3. ASSUME NEW pan \in Positions, NEW tilt \in Positions, gotoPosition(pan, tilt)
      PROVE  \E s \in Seq(Steps) : Call(s) /\ \A i \in DOMAIN s : Proper(s[i])
  <2>1. pan \in Int /\ tilt \in Int
    BY MaxPositionAssumption DEF Positions
  <2>2. PICK p, t : p = DirectionTo(PAN, pan) /\ t = DirectionTo(TILT, tilt)
    OBVIOUS
  <2>3. /\ p \in {0, 1} /\ (p + 1) % 2 \in {0, 1}
        /\ t \in {0, 1} /\ (t + 1) % 2 \in {0, 1}
    BY <2>2 DEF DirectionTo, CW, CCW
  <2> DEFINE s == GotoSteps(pan, tilt)
  <2>4. /\ s \in Seq(Steps) /\ Len(s) = 8
        /\ s[1] = Write("callback", PAN, pan)
        /\ s[2] = Write("callback", TILT, tilt)
        /\ s[3] = Write("in1", PAN, p)
        /\ s[4] = Write("in2", PAN, (p + 1) % 2)
        /\ s[5] = Write("pwm", PAN, 1)
        /\ s[6] = Write("in1", TILT, t)
        /\ s[7] = Write("in2", TILT, (t + 1) % 2)
        /\ s[8] = Write("pwm", TILT, 1)
    BY <2>1, <2>2, GotoStepsAre
  <2>5. Call(s)
    BY <1>3 DEF gotoPosition
  <2> HIDE DEF s
  <2>6. \A i \in DOMAIN s : i \in 1..8
    BY <2>4
  <2>7. /\ Proper(s[1]) /\ Proper(s[2]) /\ Proper(s[3]) /\ Proper(s[4])
        /\ Proper(s[5]) /\ Proper(s[6]) /\ Proper(s[7]) /\ Proper(s[8])
    BY <2>3, <2>4 DEF Proper, Write, Pins
  <2>8. \A i \in DOMAIN s : Proper(s[i])
    BY <2>6, <2>7
  <2> QED
    BY <2>4, <2>5, <2>8
<1>4. ASSUME setZero \/ drive \/ standby
      PROVE  \E s \in Seq(Steps) : Call(s) /\ \A i \in DOMAIN s : Proper(s[i])
  <2>1. /\ Write("counter", PAN, 0) \in Steps /\ Write("counter", TILT, 0) \in Steps
        /\ Write("stby", PAN, 1) \in Steps /\ Write("stby", PAN, 0) \in Steps
    BY <1>0, StepTypes DEF Pins
  <2>2. /\ Proper(Write("counter", PAN, 0)) /\ Proper(Write("counter", TILT, 0))
        /\ Proper(Write("stby", PAN, 1)) /\ Proper(Write("stby", PAN, 0))
    BY DEF Proper, Write, Pins
  <2>3. ASSUME NEW a \in Steps, Proper(a)
        PROVE  <<a>> \in Seq(Steps) /\ \A i \in DOMAIN <<a>> : Proper(<<a>>[i])
    BY <2>3
  <2>4. ASSUME NEW a \in Steps, NEW b \in Steps, Proper(a), Proper(b)
        PROVE  <<a, b>> \in Seq(Steps) /\ \A i \in DOMAIN <<a, b>> : Proper(<<a, b>>[i])
    BY <2>4
  <2> QED
    BY <1>4, <2>1, <2>2, <2>3, <2>4 DEF setZero, drive, standby
<1> QED
  BY <1>2, <1>3, <1>4 DEF Operation

LEMMA TypesKept == Types /\ [Next]_vars => Types'
<1> SUFFICES ASSUME Types, [Next]_vars PROVE Types'
  OBVIOUS
<1>0. todo["main"] \in Seq(Steps) /\ todo["alert"] \in Seq(Steps)
  BY DEF Types, TypeOK
<1>1. CASE Operation
  <2>1. PICK s \in Seq(Steps) : Call(s) /\ \A i \in DOMAIN s : Proper(s[i])
    BY <1>1, OperationSteps
  <2>2. commanded' \in [Motors -> [is : {"turn", "goto"}, arg : Int, from : Int]]
    <3>1. \A x, y \in Int :
            /\ ToTurn(x) \in [is : {"turn", "goto"}, arg : Int, from : Int]
            /\ ToGo(x, y) \in [is : {"turn", "goto"}, arg : Int, from : Int]
      BY DEF ToTurn, ToGo
    <3>2. commanded \in [Motors -> [is : {"turn", "goto"}, arg : Int, from : Int]]
      BY DEF Types, TypeOK
    <3>3. Positions \subseteq Int
      BY MaxPositionAssumption DEF Positions
    <3>4. \/ \E m \in Motors, x \in Int :
               commanded' = [commanded EXCEPT ![m] = ToTurn(x)]
          \/ \E x, y, v, w \in Int :
               commanded' = [commanded EXCEPT ![PAN] = ToGo(x, v),
                                              ![TILT] = ToGo(y, w)]
          \/ UNCHANGED commanded
      <4>1. {-1, 0, 1} \subseteq Int
        OBVIOUS
      <4>2. counter[PAN] \in Int /\ counter[TILT] \in Int
        BY DEF Types, TypeOK, Motors
      <4> QED
        BY <1>1, <3>3, <4>1, <4>2
        DEF Operation, Turn, gotoPosition, setZero, drive, standby
    <3>5. CASE \E m \in Motors, x \in Int :
                 commanded' = [commanded EXCEPT ![m] = ToTurn(x)]
      BY <3>1, <3>2, <3>5
    <3>6. CASE \E x, y, v, w \in Int :
                 commanded' = [commanded EXCEPT ![PAN] = ToGo(x, v),
                                                ![TILT] = ToGo(y, w)]
      <4>1. PICK x \in Int, y \in Int, v \in Int, w \in Int :
              commanded' = [commanded EXCEPT ![PAN] = ToGo(x, v),
                                             ![TILT] = ToGo(y, w)]
        BY <3>6
      <4>2. PICK a, b : a = ToGo(x, v) /\ b = ToGo(y, w)
        OBVIOUS
      <4>3. /\ a \in [is : {"turn", "goto"}, arg : Int, from : Int]
            /\ b \in [is : {"turn", "goto"}, arg : Int, from : Int]
        BY <3>1, <4>2
      <4> QED
        BY <3>2, <4>1, <4>2, <4>3
    <3> QED
      BY <3>2, <3>4, <3>5, <3>6
  <2>3. todo' \in [{"main", "alert"} -> Seq(Steps)] /\ StepsProper'
    BY <2>1 DEF Types, TypeOK, StepsProper, Call
  <2> QED
    BY <2>1, <2>2, <2>3 DEF Types, TypeOK, BridgeTypeOK, Call, bridgeVars
<1>2. ASSUME NEW thread \in {"main", "alert"}, todo[thread] # <<>>, Pop(thread)
      PROVE  /\ todo' \in [{"main", "alert"} -> Seq(Steps)] /\ StepsProper'
             /\ Head(todo[thread]) \in Steps /\ Proper(Head(todo[thread]))
  <2>1. todo[thread] \in Seq(Steps)
    BY <1>0
  <2>2. /\ Head(todo[thread]) \in Steps
        /\ Head(todo[thread]) = todo[thread][1] /\ 1 \in DOMAIN todo[thread]
        /\ Tail(todo[thread]) \in Seq(Steps)
        /\ \A i \in DOMAIN Tail(todo[thread]) :
             /\ i + 1 \in DOMAIN todo[thread]
             /\ Tail(todo[thread])[i] = todo[thread][i + 1]
    BY <1>2, <2>1, FirstAndRest
  <2>3. todo' = [todo EXCEPT ![thread] = Tail(todo[thread])]
    BY <1>2 DEF Pop
  <2>4. todo' \in [{"main", "alert"} -> Seq(Steps)]
    BY <2>2, <2>3 DEF Types, TypeOK
  <2>5. Proper(Head(todo[thread]))
    BY <2>2 DEF Types, StepsProper
  <2>6. StepsProper'
    BY <2>2, <2>3 DEF Types, TypeOK, StepsProper, Proper
  <2> QED
    BY <2>2, <2>4, <2>5, <2>6
<1>3. ASSUME NEW thread \in {"main", "alert"}, WriteStep(thread)
      PROVE  Types'
  <2> DEFINE w == Head(todo[thread])
  <2>1. /\ todo' \in [{"main", "alert"} -> Seq(Steps)] /\ StepsProper'
        /\ w.motor \in Motors /\ w.value \in {0, 1}
    BY <1>2, <1>3, StepTypes DEF WriteStep, Proper
  <2>2. BridgeTypeOK'
    <3>1. WriteDone(w)
      BY <1>3 DEF WriteStep
    <3>2. w.value \in {0, 1} /\ w.value \in 0..100
      BY <2>1
    <3>3. BridgeTypeOK
      BY DEF Types, TypeOK
    <3> HIDE DEF w
    <3>4. /\ in1' \in [Motors -> {0, 1}] /\ in2' \in [Motors -> {0, 1}]
          /\ stby' \in {0, 1}
      BY <3>1, <3>2, <3>3 DEF WriteDone, BridgeTypeOK
    <3>5. duty' \in [Motors -> 0..100]
      BY <3>1, <3>2, <3>3 DEF WriteDone, BridgeTypeOK
    <3> QED
      BY <3>4, <3>5 DEF BridgeTypeOK
  <2>3. calling' \subseteq Motors /\ Cardinality(calling') <= 1
    BY <1>3, Singletons DEF WriteStep, Types, TypeOK
  <2> QED
    BY <1>3, <2>1, <2>2, <2>3 DEF WriteStep, Types, TypeOK
<1>4. CASE InstallStep
  <2> DEFINE w == Head(todo["main"])
  <2>1. /\ todo' \in [{"main", "alert"} -> Seq(Steps)] /\ StepsProper'
        /\ w.motor \in Motors /\ w.value \in Int
    BY <1>2, <1>4, StepTypes DEF InstallStep
  <2>2. callback' = [callback EXCEPT ![w.motor] = {w.value}]
    BY <1>4 DEF InstallStep
  <2> HIDE DEF w
  <2>3. /\ callback' \in [Motors -> SUBSET Int]
        /\ \A m \in Motors : Cardinality(callback'[m]) <= 1
    BY <2>1, <2>2, Singletons DEF Types, TypeOK
  <2> QED
    BY <1>4, <2>1, <2>3
    DEF InstallStep, Types, TypeOK, BridgeTypeOK, bridgeVars
<1>5. CASE ResetStep
  <2>1. /\ todo' \in [{"main", "alert"} -> Seq(Steps)] /\ StepsProper'
    BY <1>2, <1>5 DEF ResetStep
  <2>2. counter' \in [Motors -> Int]
    <3>1. PICK m \in Motors : counter' = [counter EXCEPT ![m] = 0]
      BY <1>2, <1>5, StepTypes DEF ResetStep
    <3>2. counter \in [Motors -> Int]
      BY DEF Types, TypeOK
    <3> QED
      BY <3>1, <3>2
  <2> QED
    BY <1>5, <2>1, <2>2 DEF ResetStep, Types, TypeOK, BridgeTypeOK, bridgeVars
<1>6. CASE Ends
  <2>1. /\ todo' \in [{"main", "alert"} -> Seq(Steps)] /\ StepsProper'
        /\ counter' \in [Motors -> Int]
        /\ lag' \in [Motors -> Seq({1, -1})]
    BY <1>6 DEF Ends, Types, TypeOK, StepsProper
  <2>2. /\ callback' \in [Motors -> SUBSET Int]
        /\ \A m \in Motors : Cardinality(callback'[m]) <= 1
        /\ calling' \subseteq Motors /\ Cardinality(calling') <= 1
    BY <1>6, Singletons DEF Ends
  <2> QED
    BY <1>6, <2>1, <2>2 DEF Ends, Types, TypeOK, BridgeTypeOK, bridgeVars
<1>7. ASSUME NEW m \in Motors, Moves(m) PROVE Types'
  <2>1. lag' \in [Motors -> Seq({1, -1})]
    <3>1. Way(m) \in {1, -1} /\ lag[m] \in Seq({1, -1})
      BY DEF Way, Types, TypeOK
    <3>2. Append(lag[m], Way(m)) \in Seq({1, -1})
      BY <3>1
    <3> QED
      BY <1>7, <3>2 DEF Moves, Types, TypeOK
  <2> QED
    BY <1>7, <2>1 DEF Moves, Types, TypeOK, StepsProper, BridgeTypeOK, bridgeVars
<1>8. ASSUME NEW m \in Motors, Interrupt(m) PROVE Types'
  <2>1. lag[m] \in Seq({1, -1}) /\ lag[m] # <<>>
    BY <1>8 DEF Interrupt, Types, TypeOK
  <2>2. Head(lag[m]) \in Int /\ Tail(lag[m]) \in Seq({1, -1})
    BY <2>1
  <2>3. lag' \in [Motors -> Seq({1, -1})] /\ counter' \in [Motors -> Int]
    BY <1>8, <2>2 DEF Interrupt, Types, TypeOK
  <2>4. calling' \subseteq Motors /\ Cardinality(calling') <= 1
    BY <1>8, Singletons DEF Interrupt
  <2> QED
    BY <1>8, <2>3, <2>4
    DEF Interrupt, Types, TypeOK, StepsProper, BridgeTypeOK, bridgeVars
<1>9. ASSUME NEW m \in Motors, PassesBy(m) PROVE Types'
  <2>1. calling' \subseteq Motors /\ Cardinality(calling') <= 1
    BY <1>9, Singletons DEF PassesBy
  <2> QED
    BY <1>9, <2>1
    DEF PassesBy, Types, TypeOK, StepsProper, BridgeTypeOK, bridgeVars
<1>10. ASSUME NEW m \in Motors, Arrives(m) PROVE Types'
  <2> DEFINE s == Turning(m, CW, 0)
  <2>1. /\ s \in Seq(Steps) /\ Len(s) = 3
        /\ s[1] = Write("in1", m, CW)
        /\ s[2] = Write("in2", m, (CW + 1) % 2)
        /\ s[3] = Write("pwm", m, 0)
    BY TurningSteps DEF Directions
  <2>2. todo' = [todo EXCEPT !["alert"] = s]
    BY <1>10 DEF Arrives
  <2> HIDE DEF s
  <2>3. \A i \in DOMAIN s : Proper(s[i])
    <3>1. Proper(s[1]) /\ Proper(s[2]) /\ Proper(s[3])
      BY <2>1 DEF Proper, Write, CW
    <3> QED
      BY <2>1, <3>1
  <2>4. todo' \in [{"main", "alert"} -> Seq(Steps)] /\ StepsProper'
    BY <2>1, <2>2, <2>3 DEF Types, TypeOK, StepsProper
  <2>5. /\ callback' \in [Motors -> SUBSET Int]
        /\ \A n \in Motors : Cardinality(callback'[n]) <= 1
    BY <1>10, Singletons DEF Arrives, Types, TypeOK
  <2> QED
    BY <1>10, <2>4, <2>5
    DEF Arrives, Types, TypeOK, BridgeTypeOK, bridgeVars
<1>11. CASE UNCHANGED vars
  BY <1>11 DEF vars, bridgeVars, Types, TypeOK, StepsProper, BridgeTypeOK
<1> QED
  BY <1>1, <1>3, <1>4, <1>5, <1>6, <1>7, <1>8, <1>9, <1>10, <1>11
  DEF Next, MainStep, AlertStep

LEMMA TypesFirst == Init => Types
<1> SUFFICES ASSUME Init PROVE Types
  OBVIOUS
<1>1. BridgeTypeOK
  BY DEF Init, BridgeInit, BridgeTypeOK
<1>2. /\ counter \in [Motors -> Int] /\ lag \in [Motors -> Seq({1, -1})]
      /\ todo \in [{"main", "alert"} -> Seq(Steps)] /\ StepsProper
      /\ alive \in BOOLEAN
      /\ commanded \in [Motors -> [is : {"turn", "goto"}, arg : Int, from : Int]]
  BY DEF Init, StepsProper, ToTurn
<1>3. /\ callback \in [Motors -> SUBSET Int]
      /\ \A m \in Motors : Cardinality(callback[m]) <= 1
      /\ calling \subseteq Motors /\ Cardinality(calling) <= 1
  BY Singletons DEF Init
<1> QED
  BY <1>1, <1>2, <1>3 DEF Types, TypeOK

(* The variables of both threads keep their types, wherever they are when  *)
(* the other writes: what is written to a GPIO is a level or a duty, and at*)
(* most one callback is installed for an encoder and one is running.       *)
THEOREM TypeCorrect == Spec => []TypeOK
<1>1. Types => TypeOK
  BY DEF Types
<1> QED
  BY <1>1, TypesFirst, TypesKept, PTL DEF Spec

-----------------------------------------------------------------------------
(* What comes after the first step of the main thread. *)

LEMMA MainPops ==
  ASSUME Types, todo["main"] # <<>>, Pop("main"), NEW m
  PROVE  LET h == Head(todo["main"]) IN
         /\ \A dos : Coming(m, dos) <=> Does(h, m, dos) \/ Coming(m, dos)'
         /\ \A do, v : Valued(m, do, v) =>
                         (Does(h, m, {do}) => h.value = v) /\ Valued(m, do, v)'
<1> DEFINE s == todo["main"]
           h == Head(s)
<1>1. s \in Seq(Steps) /\ todo'["main"] = Tail(s)
  BY DEF Types, TypeOK, Pop
<1>2. /\ h = s[1] /\ 1 \in DOMAIN s
      /\ \A i \in DOMAIN Tail(s) :
           i + 1 \in DOMAIN s /\ Tail(s)[i] = s[i + 1]
      /\ \A i \in DOMAIN s :
           i # 1 => i - 1 \in DOMAIN Tail(s) /\ Tail(s)[i - 1] = s[i]
  BY <1>1, FirstAndRest
<1>3. ASSUME NEW dos PROVE Coming(m, dos) <=> Does(h, m, dos) \/ Coming(m, dos)'
  <2>1. Coming(m, dos) => Does(h, m, dos) \/ \E i \in DOMAIN Tail(s) : Does(Tail(s)[i], m, dos)
    BY <1>2 DEF Coming
  <2>2. Does(h, m, dos) => Coming(m, dos)
    BY <1>2 DEF Coming
  <2>3. (\E i \in DOMAIN Tail(s) : Does(Tail(s)[i], m, dos)) => Coming(m, dos)
    BY <1>2 DEF Coming
  <2>4. Coming(m, dos)' <=> \E i \in DOMAIN Tail(s) : Does(Tail(s)[i], m, dos)
    BY <1>1 DEF Coming, Does
  <2> QED
    BY <2>1, <2>2, <2>3, <2>4
<1>4. ASSUME NEW do, NEW v, Valued(m, do, v)
      PROVE  (Does(h, m, {do}) => h.value = v) /\ Valued(m, do, v)'
  <2>1. Does(h, m, {do}) => h.value = v
    BY <1>2, <1>4 DEF Valued
  <2>2. \A i \in DOMAIN Tail(s) : Does(Tail(s)[i], m, {do}) => Tail(s)[i].value = v
    BY <1>2, <1>4 DEF Valued
  <2> QED
    BY <1>1, <2>1, <2>2 DEF Valued, Does
<1> QED
  BY <1>3, <1>4

LEMMA MainOrder ==
  ASSUME Types, todo["main"] # <<>>, Pop("main"), NEW m, MainInv(m)
  PROVE  LET h == Head(todo["main"]) IN
         /\ Does(h, m, {"in1", "in2", "callback"}) => Coming(m, {"pwm"})'
         /\ Does(h, m, {"pwm"}) => ~Coming(m, {"in1", "in2", "pwm", "callback"})'
         /\ Does(h, m, {"counter"}) =>
              duty[m] = 0 /\ ~Coming(m, {"in1", "in2", "pwm", "callback"})
         /\ (h.do = "counter" => duty'[m] = duty[m]) => MainInv(m)'
<1> DEFINE s == todo["main"]
           h == Head(s)
<1>1. s \in Seq(Steps) /\ todo'["main"] = Tail(s)
  BY DEF Types, TypeOK, Pop
<1>2. /\ h = s[1] /\ 1 \in DOMAIN s
      /\ \A i \in DOMAIN Tail(s) :
           i \in Nat /\ i + 1 \in DOMAIN s /\ Tail(s)[i] = s[i + 1]
      /\ \A i \in DOMAIN s :
           i # 1 => i \in Nat /\ i - 1 \in DOMAIN Tail(s) /\ Tail(s)[i - 1] = s[i]
  BY <1>1, FirstAndRest
<1>3. \A dos : Coming(m, dos)' <=> \E i \in DOMAIN Tail(s) : Does(Tail(s)[i], m, dos)
  BY <1>1 DEF Coming, Does
<1>4. ASSUME Does(h, m, {"in1", "in2", "callback"}) PROVE Coming(m, {"pwm"})'
  <2>1. PICK j \in DOMAIN s : j > 1 /\ Does(s[j], m, {"pwm"})
    BY <1>2, <1>4 DEF MainInv
  <2>2. j # 1
    BY <2>1
  <2> QED
    BY <1>2, <1>3, <2>1, <2>2
<1>5. ASSUME Does(h, m, {"pwm"})
      PROVE  ~Coming(m, {"in1", "in2", "pwm", "callback"})'
  <2>1. \A j \in DOMAIN s : j > 1 => ~Does(s[j], m, {"in1", "in2", "pwm", "callback"})
    BY <1>2, <1>5 DEF MainInv
  <2>2. \A i \in DOMAIN Tail(s) : i \in Nat /\ i # 0 /\ i + 1 > 1
    BY <1>1
  <2> QED
    BY <1>2, <1>3, <2>1, <2>2
<1>6. ASSUME Does(h, m, {"counter"})
      PROVE  duty[m] = 0 /\ ~Coming(m, {"in1", "in2", "pwm", "callback"})
  <2>1. duty[m] = 0 /\ \A j \in DOMAIN s : s[j].do = "counter"
    BY <1>2, <1>6 DEF MainInv
  <2> QED
    BY <2>1 DEF Coming, Does
<1>7. ASSUME h.do = "counter" => duty'[m] = duty[m] PROVE MainInv(m)'
  <2> SUFFICES ASSUME NEW i \in DOMAIN Tail(s)
               PROVE  LET t == Tail(s) IN
                      /\ Does(t[i], m, {"in1", "in2", "callback"}) =>
                           \E j \in DOMAIN t : j > i /\ Does(t[j], m, {"pwm"})
                      /\ Does(t[i], m, {"pwm"}) =>
                           \A j \in DOMAIN t :
                             j > i => ~Does(t[j], m, {"in1", "in2", "pwm", "callback"})
                      /\ Does(t[i], m, {"counter"}) =>
                           duty'[m] = 0 /\ \A j \in DOMAIN t : t[j].do = "counter"
    BY <1>1 DEF MainInv, Does
  <2> DEFINE t == Tail(s)
  <2>1. i \in Nat /\ i + 1 \in DOMAIN s /\ t[i] = s[i + 1]
    BY <1>2
  <2>2. ASSUME Does(t[i], m, {"in1", "in2", "callback"})
        PROVE  \E j \in DOMAIN t : j > i /\ Does(t[j], m, {"pwm"})
    <3>1. PICK j \in DOMAIN s : j > i + 1 /\ Does(s[j], m, {"pwm"})
      BY <2>1, <2>2 DEF MainInv
    <3>2. j # 1 /\ j - 1 > i
      BY <1>2, <2>1, <3>1
    <3> QED
      BY <1>2, <3>1, <3>2
  <2>3. ASSUME Does(t[i], m, {"pwm"}), NEW j \in DOMAIN t, j > i
        PROVE  ~Does(t[j], m, {"in1", "in2", "pwm", "callback"})
    <3>1. j + 1 \in DOMAIN s /\ t[j] = s[j + 1] /\ j + 1 > i + 1
      BY <1>2, <2>1, <2>3
    <3> QED
      BY <2>1, <2>3, <3>1 DEF MainInv
  <2>4. ASSUME Does(t[i], m, {"counter"})
        PROVE  duty'[m] = 0 /\ \A j \in DOMAIN t : t[j].do = "counter"
    <3>1. duty[m] = 0 /\ \A j \in DOMAIN s : s[j].do = "counter"
      BY <2>1, <2>4 DEF MainInv
    <3> QED
      BY <1>2, <1>7, <3>1
  <2> HIDE DEF t
  <2> QED
    BY <2>2, <2>3, <2>4 DEF t
<1> QED
  BY <1>4, <1>5, <1>6, <1>7

(* Nothing is written to a motor after its duty. *)
LEMMA NothingComes ==
  ASSUME NEW m, MainInv(m), ~Coming(m, {"pwm"})
  PROVE  ~Coming(m, {"in1"}) /\ ~Coming(m, {"in2"}) /\ ~Coming(m, {"callback"})
BY DEF MainInv, Coming, Does

LEMMA Smaller ==
  ASSUME NEW m, ~Coming(m, {"in1", "in2", "pwm", "callback"})
  PROVE  /\ ~Coming(m, {"in1"}) /\ ~Coming(m, {"in2"})
         /\ ~Coming(m, {"pwm"}) /\ ~Coming(m, {"callback"})
BY DEF Coming, Does

(* The alert thread leaves what the main thread has to do alone. *)
LEMMA MainSame ==
  ASSUME todo'["main"] = todo["main"], NEW m
  PROVE  /\ \A dos : Coming(m, dos)' <=> Coming(m, dos)
         /\ \A do, v : Valued(m, do, v)' <=> Valued(m, do, v)
         /\ (duty[m] = 0 => duty'[m] = 0) /\ MainInv(m) => MainInv(m)'
BY DEF Coming, Valued, Does, MainInv

-----------------------------------------------------------------------------
(* The steps of the main thread. *)

LEMMA MainWrites ==
  ASSUME Types, WriteStep("main"), NEW m \in Motors, MotorInv(m)
  PROVE  MotorInv(m)'
<1> DEFINE h == Head(todo["main"])
<1>1. /\ Pop("main") /\ todo["main"] # <<>> /\ todo["main"] \in Seq(Steps)
      /\ todo'["alert"] = todo["alert"]
      /\ UNCHANGED <<calling, counter, lag, callback, commanded>>
      /\ h.do \in Pins /\ WriteDone(h)
  BY DEF WriteStep, Pop, Types, TypeOK
<1>2. h.motor \in Motors
  BY <1>1, FirstAndRest, StepTypes
<1>3. /\ \A dos : Coming(m, dos) <=> Does(h, m, dos) \/ Coming(m, dos)'
      /\ \A do, v : Valued(m, do, v) =>
                      (Does(h, m, {do}) => h.value = v) /\ Valued(m, do, v)'
  BY <1>1, MainPops
<1>4. /\ Does(h, m, {"in1", "in2", "callback"}) => Coming(m, {"pwm"})'
      /\ Does(h, m, {"pwm"}) => ~Coming(m, {"in1", "in2", "pwm", "callback"})'
      /\ h.do # "counter"
      /\ MainInv(m)'
  BY <1>1, MainOrder DEF MotorInv, Pins
<1> HIDE DEF h
<1>5. /\ in1'[m]  = IF Does(h, m, {"in1"}) THEN h.value ELSE in1[m]
      /\ in2'[m]  = IF Does(h, m, {"in2"}) THEN h.value ELSE in2[m]
      /\ duty'[m] = IF Does(h, m, {"pwm"}) THEN h.value ELSE duty[m]
  BY <1>1, <1>2 DEF WriteDone, Does, Types, TypeOK, BridgeTypeOK
<1>6. ASSUME NEW d, Heading(m, d) PROVE Heading(m, d)'
  BY <1>3, <1>5, <1>6 DEF Heading
<1>7. ASSUME NEW v, Powered(m, v) PROVE Powered(m, v)'
  BY <1>3, <1>5, <1>7 DEF Powered
<1>8. TurnInv(m)'
  BY <1>1, <1>3, <1>6, <1>7 DEF MotorInv, TurnInv
<1>9. ~Does(h, m, {"callback"})
  BY <1>1 DEF Does, Pins
<1>10. GotoInv(m)'
  <2> SUFFICES ASSUME commanded[m].is = "goto"
               PROVE  \/ \E d \in Directions : Starts(m, commanded[m].arg, d)'
                      \/ \E d \in Directions : Goes(m, commanded[m].arg, d)'
                      \/ Stops(m)'
    BY <1>1 DEF GotoInv
  <2> DEFINE goal == commanded[m].arg
  <2>1. ASSUME NEW d \in Directions, Starts(m, goal, d), ~Does(h, m, {"pwm"})
        PROVE  Starts(m, goal, d)'
    BY <1>1, <1>3, <1>5, <1>6, <1>7, <1>9, <2>1 DEF Starts
  <2>2. ASSUME NEW d \in Directions, Starts(m, goal, d), Does(h, m, {"pwm"})
        PROVE  Goes(m, goal, d)'
    <3>1. ~Coming(m, {"pwm"})' /\ ~Coming(m, {"callback"})'
      BY <1>4, <2>2, Smaller DEF Coming, Does
    <3>2. Heading(m, d)' /\ callback'[m] = {goal} /\ duty'[m] = 1
      BY <1>1, <1>3, <1>6, <1>7, <1>9, <2>2, <3>1 DEF Starts, Powered
    <3>3. lag'[m] = <<>> /\ m \notin calling'
      BY <1>1, <2>2 DEF Starts
    <3>4. IF commanded[m].from = goal THEN d = CW /\ counter'[m] >= goal
          ELSE IF d = CW THEN counter'[m] <= goal ELSE counter'[m] >= goal
      <4>1. counter[m] \in Int /\ goal \in Int
        BY DEF Types, TypeOK
      <4> QED
        BY <1>1, <2>2, <4>1 DEF Starts
    <3>5. commanded[m].from # goal => counter'[m] # goal
      <4>1. counter[m] \in Int /\ goal \in Int
        BY DEF Types, TypeOK
      <4> QED
        BY <1>1, <2>2, <4>1 DEF Starts
    <3>6. \A i \in DOMAIN lag'[m] : lag'[m][i] = WayOf(d)
      BY <3>3
    <3> QED
      BY <1>1, <3>1, <3>2, <3>3, <3>4, <3>5, <3>6 DEF Goes
  <2>3. ASSUME NEW d \in Directions, Goes(m, goal, d)
        PROVE  Goes(m, goal, d)'
    BY <1>1, <1>3, <1>5, <1>6, <2>3 DEF Goes
  <2>4. ASSUME Stops(m) PROVE Stops(m)'
    BY <1>1, <1>3, <1>5, <2>4 DEF Stops, IsSentNowhere
  <2> QED
    BY <2>1, <2>2, <2>3, <2>4 DEF MotorInv, GotoInv
<1> QED
  BY <1>4, <1>8, <1>10 DEF MotorInv

LEMMA MainInstalls ==
  ASSUME Types, InstallStep, NEW m \in Motors, MotorInv(m)
  PROVE  MotorInv(m)'
<1> DEFINE h == Head(todo["main"])
<1>1. /\ Pop("main") /\ todo["main"] # <<>> /\ todo["main"] \in Seq(Steps)
      /\ todo'["alert"] = todo["alert"]
      /\ UNCHANGED <<bridgeVars, calling, counter, lag, commanded>>
      /\ h.do = "callback" /\ callback' = [callback EXCEPT ![h.motor] = {h.value}]
  BY DEF InstallStep, Pop, Types, TypeOK
<1>2. h.motor \in Motors
  BY <1>1, FirstAndRest, StepTypes
<1>3. /\ \A dos : Coming(m, dos) <=> Does(h, m, dos) \/ Coming(m, dos)'
      /\ \A do, v : Valued(m, do, v) =>
                      (Does(h, m, {do}) => h.value = v) /\ Valued(m, do, v)'
  BY <1>1, MainPops
<1>4. MainInv(m)'
  BY <1>1, MainOrder DEF MotorInv, bridgeVars
<1> HIDE DEF h
<1>5. ~Does(h, m, {"in1"}) /\ ~Does(h, m, {"in2"}) /\ ~Does(h, m, {"pwm"})
  BY <1>1 DEF Does
<1>6. callback'[m] = IF Does(h, m, {"callback"}) THEN {h.value} ELSE callback[m]
  BY <1>1, <1>2 DEF Does, Types, TypeOK
<1>7. /\ \A d : Heading(m, d) => Heading(m, d)'
      /\ \A v : Powered(m, v) => Powered(m, v)'
  BY <1>1, <1>3, <1>5 DEF Heading, Powered, bridgeVars
<1>8. TurnInv(m)'
  BY <1>1, <1>3, <1>6, <1>7 DEF MotorInv, TurnInv
<1>9. ~Coming(m, {"pwm"}) => ~Does(h, m, {"callback"})
  BY <1>3, NothingComes DEF MotorInv
<1>10. GotoInv(m)'
  <2> SUFFICES ASSUME commanded[m].is = "goto"
               PROVE  \/ \E d \in Directions : Starts(m, commanded[m].arg, d)'
                      \/ \E d \in Directions : Goes(m, commanded[m].arg, d)'
                      \/ Stops(m)'
    BY <1>1 DEF GotoInv
  <2> DEFINE goal == commanded[m].arg
  <2>1. ASSUME NEW d \in Directions, Starts(m, goal, d)
        PROVE  Starts(m, goal, d)'
    BY <1>1, <1>3, <1>5, <1>6, <1>7, <2>1 DEF Starts, bridgeVars
  <2>2. ASSUME NEW d \in Directions, Goes(m, goal, d)
        PROVE  Goes(m, goal, d)'
    BY <1>1, <1>3, <1>5, <1>6, <1>7, <1>9, <2>2 DEF Goes, bridgeVars
  <2>3. ASSUME Stops(m) PROVE Stops(m)'
    BY <1>1, <1>3, <1>5, <1>6, <1>9, <2>3 DEF Stops, IsSentNowhere, bridgeVars
  <2> QED
    BY <2>1, <2>2, <2>3 DEF MotorInv, GotoInv
<1> QED
  BY <1>4, <1>8, <1>10 DEF MotorInv

LEMMA MainResets ==
  ASSUME Types, ResetStep, NEW m \in Motors, MotorInv(m)
  PROVE  MotorInv(m)'
<1> DEFINE h == Head(todo["main"])
<1>1. /\ Pop("main") /\ todo["main"] # <<>> /\ todo["main"] \in Seq(Steps)
      /\ todo'["alert"] = todo["alert"]
      /\ UNCHANGED <<bridgeVars, calling, callback, lag, commanded>>
      /\ h.do = "counter" /\ counter' = [counter EXCEPT ![h.motor] = 0]
  BY DEF ResetStep, Pop, Types, TypeOK
<1>2. h.motor \in Motors
  BY <1>1, FirstAndRest, StepTypes
<1>3. /\ \A dos : Coming(m, dos) <=> Does(h, m, dos) \/ Coming(m, dos)'
      /\ \A do, v : Valued(m, do, v) =>
                      (Does(h, m, {do}) => h.value = v) /\ Valued(m, do, v)'
  BY <1>1, MainPops
<1>4. /\ MainInv(m)'
      /\ h.motor = m => duty[m] = 0 /\ ~Coming(m, {"in1", "in2", "pwm", "callback"})
  BY <1>1, MainOrder DEF MotorInv, bridgeVars, Does
<1> HIDE DEF h
<1>5. /\ ~Does(h, m, {"in1"}) /\ ~Does(h, m, {"in2"}) /\ ~Does(h, m, {"pwm"})
      /\ ~Does(h, m, {"callback"})
  BY <1>1 DEF Does
<1>6. h.motor # m => counter'[m] = counter[m]
  BY <1>1, <1>2 DEF Types, TypeOK
<1>7. /\ \A d : Heading(m, d) => Heading(m, d)'
      /\ \A v : Powered(m, v) => Powered(m, v)'
  BY <1>1, <1>3, <1>5 DEF Heading, Powered, bridgeVars
<1>8. TurnInv(m)'
  BY <1>1, <1>3, <1>5, <1>7 DEF MotorInv, TurnInv
<1>9. GotoInv(m)'
  <2> SUFFICES ASSUME commanded[m].is = "goto"
               PROVE  \/ \E d \in Directions : Starts(m, commanded[m].arg, d)'
                      \/ \E d \in Directions : Goes(m, commanded[m].arg, d)'
                      \/ Stops(m)'
    BY <1>1 DEF GotoInv
  <2> DEFINE goal == commanded[m].arg
  <2>1. ASSUME NEW d \in Directions, Starts(m, goal, d)
        PROVE  Starts(m, goal, d)'
    <3>1. h.motor # m
      BY <1>4, <2>1, Smaller DEF Starts
    <3> QED
      BY <1>1, <1>3, <1>5, <1>6, <1>7, <2>1, <3>1 DEF Starts, bridgeVars
  <2>2. ASSUME NEW d \in Directions, Goes(m, goal, d)
        PROVE  Goes(m, goal, d)'
    <3>1. h.motor # m
      BY <1>4, <2>2 DEF Goes
    <3> QED
      BY <1>1, <1>3, <1>5, <1>6, <1>7, <2>2, <3>1 DEF Goes, bridgeVars
  <2>3. ASSUME Stops(m) PROVE Stops(m)'
    BY <1>1, <1>3, <1>5, <2>3 DEF Stops, IsSentNowhere, bridgeVars
  <2> QED
    BY <2>1, <2>2, <2>3 DEF MotorInv, GotoInv
<1> QED
  BY <1>4, <1>8, <1>9 DEF MotorInv

(* The alert thread's state is its own. *)
LEMMA MainLeavesAlert ==
  ASSUME Types, MainStep, AlertInv, \A m \in Motors : MotorInv(m)
  PROVE  AlertInv'
<1>1. CASE WriteStep("main")
  <2>1. UNCHANGED <<calling, callback>> /\ todo'["alert"] = todo["alert"]
    BY <1>1 DEF WriteStep, Pop, Types, TypeOK
  <2> QED
    BY <2>1 DEF AlertInv
<1>2. CASE ResetStep
  <2>1. UNCHANGED <<calling, callback>> /\ todo'["alert"] = todo["alert"]
    BY <1>2 DEF ResetStep, Pop, Types, TypeOK
  <2> QED
    BY <2>1 DEF AlertInv
<1>3. CASE InstallStep
  <2> DEFINE h == Head(todo["main"])
  <2>1. /\ Pop("main") /\ todo["main"] # <<>> /\ todo["main"] \in Seq(Steps)
        /\ calling' = calling /\ todo'["alert"] = todo["alert"]
        /\ h.do = "callback" /\ callback' = [callback EXCEPT ![h.motor] = {h.value}]
    BY <1>3 DEF InstallStep, Pop, Types, TypeOK
  <2>2. h.motor \in Motors
    BY <2>1, FirstAndRest, StepTypes
  <2>3. Coming(h.motor, {"callback"})
    BY <2>1, MainPops DEF Does
  <2> HIDE DEF h
  <2>4. h.motor \notin calling
    <3>1. MotorInv(h.motor)
      BY <2>2
    <3>2. Coming(h.motor, {"pwm"})
      BY <2>3, <3>1, NothingComes DEF MotorInv
    <3>3. commanded[h.motor].is \in {"turn", "goto"}
      BY <2>2 DEF Types, TypeOK
    <3> QED
      BY <2>3, <3>1, <3>2, <3>3
      DEF MotorInv, TurnInv, GotoInv, Starts, Goes, Stops
  <2>5. \A i \in DOMAIN todo["alert"] :
          callback'[todo["alert"][i].motor] = callback[todo["alert"][i].motor]
    <3> SUFFICES ASSUME NEW i \in DOMAIN todo["alert"]
                 PROVE  LET a == todo["alert"][i] IN callback'[a.motor] = callback[a.motor]
      OBVIOUS
    <3> DEFINE a == todo["alert"][i]
    <3>1. a.motor # h.motor
      BY <2>4 DEF AlertInv
    <3>2. a.motor \in Motors
      BY StepTypes DEF Types, TypeOK
    <3> QED
      BY <2>1, <3>1, <3>2 DEF Types, TypeOK
  <2> QED
    BY <2>1, <2>5 DEF AlertInv
<1> QED
  BY <1>1, <1>2, <1>3 DEF MainStep

-----------------------------------------------------------------------------
(* The steps of the alert thread. *)

LEMMA AlertWrites ==
  ASSUME Types, WriteStep("alert"), AlertInv
  PROVE  /\ AlertInv'
         /\ \A m \in Motors : MotorInv(m) => MotorInv(m)'
<1> DEFINE s == todo["alert"]
           h == Head(s)
<1>1. /\ s \in Seq(Steps) /\ s # <<>>
      /\ todo'["alert"] = Tail(s)
      /\ todo'["main"] = todo["main"]
      /\ UNCHANGED <<counter, lag, callback, commanded>>
      /\ WriteDone(h)
      /\ calling' = IF Len(s) = 1 THEN {} ELSE calling
  BY DEF WriteStep, Pop, Types, TypeOK
<1>2. /\ h = s[1] /\ 1 \in DOMAIN s /\ h \in Steps /\ h.motor \in Motors
      /\ Tail(s) \in Seq(Steps)
      /\ Len(Tail(s)) = Len(s) - 1
      /\ \A i \in DOMAIN Tail(s) : i + 1 \in DOMAIN s /\ Tail(s)[i] = s[i + 1]
  BY <1>1, FirstAndRest, StepTypes
<1>3. /\ h.do \in {"in1", "in2", "pwm"} /\ calling = {h.motor}
      /\ callback[h.motor] = {}
      /\ h.do = "pwm" => h.value = 0
      /\ s[Len(s)].do = "pwm"
  BY <1>1, <1>2 DEF AlertInv
<1>4. Len(s) \in Nat /\ Len(s) # 0
  BY <1>1
<1>5. Len(s) = 1 => h.do = "pwm" /\ Tail(s) = <<>>
  BY <1>1, <1>2, <1>3
<1>6. Len(s) # 1 =>
        Tail(s) # <<>> /\ Len(Tail(s)) \in DOMAIN Tail(s) /\ Len(Tail(s)) + 1 = Len(s)
  BY <1>1, LastOfRest
<1>7. AlertInv'
  <2>1. CASE Len(s) = 1
    BY <1>1, <1>5, <2>1 DEF AlertInv
  <2>2. CASE Len(s) # 1
    <3>1. Tail(s)[Len(Tail(s))] = s[Len(s)]
      BY <1>2, <1>6, <2>2
    <3>2. \A i \in DOMAIN Tail(s) :
            LET w == Tail(s)[i] IN
            /\ w.do \in {"in1", "in2", "pwm"}
            /\ calling = {w.motor}
            /\ callback[w.motor] = {}
            /\ w.do = "pwm" => w.value = 0
      <4>1. \A j \in DOMAIN s :
              LET w == s[j] IN
              /\ w.do \in {"in1", "in2", "pwm"}
              /\ calling = {w.motor}
              /\ callback[w.motor] = {}
              /\ w.do = "pwm" => w.value = 0
        BY DEF AlertInv
      <4> HIDE DEF s
      <4> QED
        BY <1>2, <4>1
    <3>3. calling' = calling /\ callback' = callback
      BY <1>1, <2>2
    <3>4. calling = {} \/ \E m \in Motors : calling = {m}
      BY DEF AlertInv
    <3> HIDE DEF s, h
    <3> QED
      BY <1>1, <1>3, <3>1, <3>2, <3>3, <3>4 DEF AlertInv
  <2> QED
    BY <2>1, <2>2
<1>8. ASSUME NEW m \in Motors, MotorInv(m) PROVE MotorInv(m)'
  <2>1. /\ m # h.motor => in1'[m] = in1[m] /\ in2'[m] = in2[m] /\ duty'[m] = duty[m]
        /\ duty'[m] = duty[m] \/ (duty'[m] = 0 /\ m = h.motor)
        /\ m = h.motor /\ h.do = "pwm" => duty'[m] = 0
    <3> HIDE DEF h
    <3> QED
      BY <1>1, <1>2, <1>3 DEF WriteDone, Types, TypeOK, BridgeTypeOK
  <2>2. /\ \A dos : Coming(m, dos)' <=> Coming(m, dos)
        /\ \A do, v : Valued(m, do, v)' <=> Valued(m, do, v)
        /\ MainInv(m)'
    BY <1>1, <1>8, <2>1, MainSame DEF MotorInv
  <2>3. calling' \subseteq calling /\ (m \in calling <=> m = h.motor)
    BY <1>1, <1>3
  <2> HIDE DEF h, s
  <2>4. Powered(m, 0) => Powered(m, 0)'
    BY <2>1, <2>2 DEF Powered
  <2>5. m # h.motor =>
          /\ \A d : Heading(m, d) => Heading(m, d)'
          /\ \A v : Powered(m, v) => Powered(m, v)'
    BY <2>1, <2>2 DEF Heading, Powered
  <2>6. TurnInv(m)'
    BY <1>1, <1>8, <2>2, <2>3, <2>4, <2>5 DEF MotorInv, TurnInv
  <2>7. GotoInv(m)'
    <3> SUFFICES ASSUME commanded[m].is = "goto"
                 PROVE  \/ \E d \in Directions : Starts(m, commanded[m].arg, d)'
                        \/ \E d \in Directions : Goes(m, commanded[m].arg, d)'
                        \/ Stops(m)'
      BY <1>1 DEF GotoInv
    <3> DEFINE goal == commanded[m].arg
    <3>1. ASSUME NEW d \in Directions, Starts(m, goal, d)
          PROVE  Starts(m, goal, d)'
      BY <1>1, <2>1, <2>2, <2>3, <2>5, <3>1 DEF Starts
    <3>2. ASSUME NEW d \in Directions, Goes(m, goal, d)
          PROVE  Goes(m, goal, d)'
      <4>1. m # h.motor
        BY <1>3, <3>2 DEF Goes
      <4>2. m \notin calling /\ m \notin calling' /\ calling # {m}
        BY <2>3, <4>1
      <4> QED
        BY <1>1, <2>1, <2>2, <2>5, <3>2, <4>1, <4>2 DEF Goes
    <3>3. ASSUME Stops(m) PROVE Stops(m)'
      <4>1. CASE m # h.motor
        BY <1>1, <1>3, <2>1, <2>2, <3>3, <4>1 DEF Stops, IsSentNowhere
      <4>2. CASE m = h.motor
        BY <1>1, <1>3, <1>5, <1>6, <2>1, <2>2, <3>3, <4>2 DEF Stops, IsSentNowhere
      <4> QED
        BY <4>1, <4>2
    <3> QED
      BY <1>8, <3>1, <3>2, <3>3 DEF MotorInv, GotoInv
  <2> QED
    BY <2>2, <2>6, <2>7 DEF MotorInv
<1> QED
  BY <1>7, <1>8

(* A count is reported. *)
LEMMA AlertCounts ==
  ASSUME Types, NEW n \in Motors, Interrupt(n), AlertInv
  PROVE  /\ AlertInv'
         /\ \A m \in Motors : MotorInv(m) => MotorInv(m)'
<1>1. /\ UNCHANGED <<bridgeVars, callback, todo, commanded>>
      /\ todo["alert"] = <<>> /\ calling = {}
      /\ lag[n] # <<>>
      /\ calling' = IF callback[n] = {} THEN {} ELSE {n}
      /\ counter'[n] = counter[n] + Head(lag[n])
      /\ lag'[n] = Tail(lag[n])
      /\ \A m \in Motors \ {n} : counter'[m] = counter[m] /\ lag'[m] = lag[m]
  BY DEF Interrupt, AlertIdle, Types, TypeOK
<1>2. AlertInv'
  BY <1>1 DEF AlertInv
<1>3. ASSUME NEW m \in Motors, MotorInv(m) PROVE MotorInv(m)'
  <2>1. /\ \A dos : Coming(m, dos)' <=> Coming(m, dos)
        /\ \A do, v : Valued(m, do, v)' <=> Valued(m, do, v)
        /\ MainInv(m)'
    BY <1>1, <1>3, MainSame DEF MotorInv, bridgeVars
  <2>2. /\ \A d : Heading(m, d) => Heading(m, d)'
        /\ \A v : Powered(m, v) => Powered(m, v)'
    BY <1>1, <2>1 DEF Heading, Powered, bridgeVars
  <2>3. m \in calling' => m = n /\ callback[m] # {}
    BY <1>1
  <2>4. TurnInv(m)'
    BY <1>1, <1>3, <2>1, <2>2, <2>3 DEF MotorInv, TurnInv
  <2>5. GotoInv(m)'
    <3> SUFFICES ASSUME commanded[m].is = "goto"
                 PROVE  \/ \E d \in Directions : Starts(m, commanded[m].arg, d)'
                        \/ \E d \in Directions : Goes(m, commanded[m].arg, d)'
                        \/ Stops(m)'
      BY <1>1 DEF GotoInv
    <3> DEFINE goal == commanded[m].arg
    <3>0. goal \in Int /\ counter[m] \in Int
      BY DEF Types, TypeOK
    <3>1. ASSUME NEW d \in Directions, Starts(m, goal, d)
          PROVE  Starts(m, goal, d)'
      <4>1. m # n
        BY <1>1, <3>1 DEF Starts
      <4> QED
        BY <1>1, <2>1, <2>2, <2>3, <3>1, <4>1 DEF Starts, bridgeVars
    <3>2. ASSUME NEW d \in Directions, Goes(m, goal, d)
          PROVE  Goes(m, goal, d)'
      <4>1. counter[m] # goal \/ commanded[m].from = goal
        BY <1>1, <3>2 DEF Goes
      <4>2. CASE m # n
        BY <1>1, <2>1, <2>2, <2>3, <3>2, <4>1, <4>2 DEF Goes, bridgeVars
      <4>3. CASE m = n
        <5>1. lag[m] \in Seq({1, -1}) /\ lag[m] # <<>>
          BY <1>1, <4>3 DEF Types, TypeOK
        <5>2. Head(lag[m]) = WayOf(d) /\ \A i \in DOMAIN lag'[m] : lag'[m][i] = WayOf(d)
          <6>1. /\ Head(lag[m]) = lag[m][1] /\ 1 \in DOMAIN lag[m]
                /\ \A i \in DOMAIN Tail(lag[m]) :
                     i + 1 \in DOMAIN lag[m] /\ Tail(lag[m])[i] = lag[m][i + 1]
            BY <5>1
          <6>2. \A i \in DOMAIN lag[m] : lag[m][i] = WayOf(d)
            BY <3>2 DEF Goes
          <6>3. lag'[m] = Tail(lag[m])
            BY <1>1, <4>3
          <6> QED
            BY <6>1, <6>2, <6>3
        <5>3. IF commanded[m].from = goal THEN d = CW /\ counter'[m] > goal
              ELSE IF d = CW THEN counter'[m] <= goal ELSE counter'[m] >= goal
          <6>1. counter'[m] = IF d = CW THEN counter[m] + 1 ELSE counter[m] - 1
            BY <1>1, <3>0, <4>3, <5>2 DEF WayOf
          <6>2. IF commanded[m].from = goal THEN d = CW /\ counter[m] >= goal
                ELSE IF d = CW THEN counter[m] < goal ELSE counter[m] > goal
            BY <3>0, <3>2, <4>1 DEF Goes
          <6> QED
            BY <3>0, <6>1, <6>2
        <5>4. calling' = {m}
          BY <1>1, <3>2, <4>3 DEF Goes
        <5> QED
          <6>1. counter'[m] \in Int
            BY <5>3, <3>0, <1>1, <4>3, <5>2 DEF WayOf
          <6>2. IF commanded'[m].from = goal
                THEN d = CW /\ counter'[m] >= goal /\ counter'[m] # goal
                ELSE IF d = CW THEN counter'[m] <= goal ELSE counter'[m] >= goal
            BY <1>1, <3>0, <5>3, <6>1
          <6> QED
            BY <1>1, <2>1, <2>2, <3>2, <5>2, <5>4, <6>2 DEF Goes, bridgeVars
      <4> QED
        BY <4>2, <4>3
    <3>3. ASSUME Stops(m) PROVE Stops(m)'
      BY <1>1, <2>1, <3>3 DEF Stops, IsSentNowhere, bridgeVars
    <3> QED
      BY <1>3, <3>1, <3>2, <3>3 DEF MotorInv, GotoInv
  <2> QED
    BY <2>1, <2>4, <2>5 DEF MotorInv
<1> QED
  BY <1>2, <1>3

(* The callback finds the motor elsewhere. *)
LEMMA AlertPasses ==
  ASSUME Types, NEW n \in Motors, PassesBy(n), AlertInv
  PROVE  /\ AlertInv'
         /\ \A m \in Motors : MotorInv(m) => MotorInv(m)'
<1>1. /\ UNCHANGED <<bridgeVars, counter, lag, callback, todo, commanded>>
      /\ todo["alert"] = <<>> /\ calling = {n} /\ calling' = {}
      /\ counter[n] \notin callback[n]
  BY DEF PassesBy, InCallback
<1>2. AlertInv'
  BY <1>1 DEF AlertInv
<1>3. ASSUME NEW m \in Motors, MotorInv(m) PROVE MotorInv(m)'
  <2>1. /\ \A dos : Coming(m, dos)' <=> Coming(m, dos)
        /\ \A do, v : Valued(m, do, v)' <=> Valued(m, do, v)
        /\ MainInv(m)'
    BY <1>1, <1>3, MainSame DEF MotorInv, bridgeVars
  <2>2. /\ \A d : Heading(m, d) => Heading(m, d)'
        /\ \A v : Powered(m, v) => Powered(m, v)'
    BY <1>1, <2>1 DEF Heading, Powered, bridgeVars
  <2>3. TurnInv(m)'
    BY <1>1, <1>3, <2>1, <2>2 DEF MotorInv, TurnInv
  <2>4. \A goal, d : Starts(m, goal, d) => Starts(m, goal, d)'
    BY <1>1, <2>1, <2>2 DEF Starts, bridgeVars
  <2>5. \A goal, d : Goes(m, goal, d) => Goes(m, goal, d)'
    BY <1>1, <2>1, <2>2 DEF Goes, bridgeVars
  <2>6. Stops(m) => Stops(m)'
    BY <1>1, <2>1 DEF Stops, IsSentNowhere, bridgeVars
  <2>7. GotoInv(m)'
    BY <1>1, <1>3, <2>4, <2>5, <2>6 DEF MotorInv, GotoInv
  <2> QED
    BY <2>1, <2>3, <2>7 DEF MotorInv
<1> QED
  BY <1>2, <1>3

(* Or at its final position: it is going to be stopped. *)
LEMMA AlertArrives ==
  ASSUME Types, NEW n \in Motors, Arrives(n), AlertInv
  PROVE  /\ AlertInv'
         /\ \A m \in Motors : MotorInv(m) => MotorInv(m)'
<1> DEFINE s == Turning(n, CW, 0)
<1>1. /\ UNCHANGED <<bridgeVars, counter, lag, calling, commanded>>
      /\ todo["alert"] = <<>> /\ calling = {n}
      /\ counter[n] \in callback[n]
      /\ todo'["alert"] = s /\ todo'["main"] = todo["main"]
      /\ callback'[n] = {}
      /\ \A m \in Motors \ {n} : callback'[m] = callback[m]
  BY DEF Arrives, InCallback, Types, TypeOK
<1>2. /\ s \in Seq(Steps) /\ Len(s) = 3 /\ s # <<>>
      /\ s[1] = Write("in1", n, CW)
      /\ s[2] = Write("in2", n, (CW + 1) % 2)
      /\ s[3] = Write("pwm", n, 0)
  BY TurningSteps DEF Directions
<1> HIDE DEF s
<1>3. AlertInv'
  <2>1. \A i \in DOMAIN s :
          /\ s[i].do \in {"in1", "in2", "pwm"}
          /\ s[i].motor = n
          /\ s[i].do = "pwm" => s[i].value = 0
    <3>1. \A i \in DOMAIN s : i \in {1, 2, 3}
      BY <1>2
    <3> QED
      BY <1>2, <3>1 DEF Write
  <2>2. s[Len(s)].do = "pwm"
    BY <1>2 DEF Write
  <2> QED
    BY <1>1, <2>1, <2>2 DEF AlertInv
<1>4. ASSUME NEW m \in Motors, MotorInv(m) PROVE MotorInv(m)'
  <2>1. /\ \A dos : Coming(m, dos)' <=> Coming(m, dos)
        /\ \A do, v : Valued(m, do, v)' <=> Valued(m, do, v)
        /\ MainInv(m)'
    BY <1>1, <1>4, MainSame DEF MotorInv, bridgeVars
  <2>2. /\ \A d : Heading(m, d) => Heading(m, d)'
        /\ \A v : Powered(m, v) => Powered(m, v)'
    BY <1>1, <2>1 DEF Heading, Powered, bridgeVars
  <2>3. TurnInv(m)'
    BY <1>1, <1>4, <2>1, <2>2 DEF MotorInv, TurnInv
  <2>4. \A goal, d : Starts(m, goal, d) => Starts(m, goal, d)'
    BY <1>1, <2>1, <2>2 DEF Starts, bridgeVars
  <2>5. ASSUME NEW goal, goal = commanded[m].arg, NEW d, Goes(m, goal, d)
        PROVE  IF m = n THEN Stops(m)' ELSE Goes(m, goal, d)'
    <3>0. m = n => counter[m] = goal /\ m \in calling
      BY <1>1, <2>5 DEF Goes
    <3>1. CASE m = n
      <4>1. commanded[m].from # goal
        BY <2>5, <3>0, <3>1 DEF Goes
      <4> QED
        BY <1>1, <1>2, <2>1, <2>5, <3>1, <4>1 DEF Goes, Stops, IsSentNowhere
    <3>2. CASE m # n
      BY <1>1, <2>1, <2>2, <2>5, <3>2 DEF Goes, bridgeVars
    <3> QED
      BY <3>1, <3>2
  <2>6. Stops(m) => Stops(m)'
    BY <1>1, <2>1 DEF Stops, IsSentNowhere, bridgeVars
  <2>7. GotoInv(m)'
    BY <1>1, <1>4, <2>4, <2>5, <2>6 DEF MotorInv, GotoInv
  <2> QED
    BY <2>1, <2>3, <2>7 DEF MotorInv
<1> QED
  BY <1>3, <1>4

(* A motor turns. *)
LEMMA MotorMoves ==
  ASSUME Types, NEW n \in Motors, Moves(n), AlertInv
  PROVE  /\ AlertInv'
         /\ \A m \in Motors : MotorInv(m) => MotorInv(m)'
<1>1. /\ UNCHANGED <<bridgeVars, counter, callback, calling, todo, commanded>>
      /\ IsTurning(n)
      /\ lag'[n] = Append(lag[n], Way(n))
      /\ \A m \in Motors \ {n} : lag'[m] = lag[m]
  BY DEF Moves, Types, TypeOK
<1>2. AlertInv'
  BY <1>1 DEF AlertInv
<1>3. ASSUME NEW m \in Motors, MotorInv(m) PROVE MotorInv(m)'
  <2>1. /\ \A dos : Coming(m, dos)' <=> Coming(m, dos)
        /\ \A do, v : Valued(m, do, v)' <=> Valued(m, do, v)
        /\ MainInv(m)'
    BY <1>1, <1>3, MainSame DEF MotorInv, bridgeVars
  <2>2. /\ \A d : Heading(m, d) => Heading(m, d)'
        /\ \A v : Powered(m, v) => Powered(m, v)'
    BY <1>1, <2>1 DEF Heading, Powered, bridgeVars
  <2>3. TurnInv(m)'
    BY <1>1, <1>3, <2>1, <2>2 DEF MotorInv, TurnInv
  <2>4. \A goal, d : Starts(m, goal, d) => Starts(m, goal, d)'
    <3>1. \A goal, d : Starts(m, goal, d) => m # n
      BY <1>1 DEF Starts, IsTurning, IsDriven
    <3> QED
      BY <1>1, <2>1, <2>2, <3>1 DEF Starts, bridgeVars
  <2>5. ASSUME NEW goal, NEW d \in Directions, Goes(m, goal, d)
        PROVE  Goes(m, goal, d)'
    <3>1. \A i \in DOMAIN lag'[m] : lag'[m][i] = WayOf(d)
      <4>1. CASE m # n
        BY <1>1, <2>5, <4>1 DEF Goes
      <4>2. CASE m = n
        <5>1. in1[m] = d
          BY <1>3, <2>5, NothingComes DEF MotorInv, Goes, Heading
        <5>2. Way(m) = WayOf(d) /\ Way(m) \in {1, -1}
          BY <5>1 DEF Way, WayOf, CW, CCW, Directions
        <5>3. lag[m] \in Seq({1, -1})
          BY DEF Types, TypeOK
        <5> QED
          BY <1>1, <2>5, <4>2, <5>2, <5>3 DEF Goes
      <4> QED
        BY <4>1, <4>2
    <3> QED
      BY <1>1, <2>1, <2>2, <2>5, <3>1 DEF Goes, bridgeVars
  <2>6. Stops(m) => Stops(m)'
    BY <1>1, <2>1 DEF Stops, IsSentNowhere, bridgeVars
  <2>7. GotoInv(m)'
    BY <1>1, <1>3, <2>4, <2>5, <2>6 DEF MotorInv, GotoInv
  <2> QED
    BY <2>1, <2>3, <2>7 DEF MotorInv
<1> QED
  BY <1>2, <1>3

-----------------------------------------------------------------------------
(* The operations. *)

(* An operation that does nothing to the motor. *)
LEMMA NotConcerned ==
  ASSUME Types, NEW m \in Motors, MotorInv(m),
         NEW s \in Seq(Steps), Call(s), commanded'[m] = commanded[m],
         \A i \in DOMAIN s : ~Does(s[i], m, {"in1", "in2", "pwm", "callback"}),
         \A i \in DOMAIN s :
           Does(s[i], m, {"counter"}) =>
             duty[m] = 0 /\ \A j \in DOMAIN s : s[j].do = "counter"
  PROVE  MotorInv(m)'
<1>1. /\ UNCHANGED <<bridgeVars, counter, lag, callback, calling>>
      /\ todo["main"] = <<>> /\ todo'["main"] = s
      /\ todo'["alert"] = todo["alert"]
  BY DEF Call, MainIdle, Types, TypeOK
<1>2. \A dos : ~Coming(m, dos)
  BY <1>1 DEF Coming
<1>3. \A do \in {"in1", "in2", "pwm", "callback"} :
        ~Coming(m, {do})' /\ \A v : Valued(m, do, v)'
  BY <1>1 DEF Coming, Valued, Does
<1>4. MainInv(m)'
  BY <1>1 DEF MainInv, Does, bridgeVars
<1>5. /\ \A d : Heading(m, d) => Heading(m, d)'
      /\ \A v : Powered(m, v) => Powered(m, v)'
  BY <1>1, <1>2, <1>3 DEF Heading, Powered, bridgeVars
<1>6. TurnInv(m)'
  BY <1>1, <1>3, <1>5 DEF MotorInv, TurnInv
<1>7. \A goal, d : ~Starts(m, goal, d)
  BY <1>2 DEF Starts
<1>8. \A goal, d : Goes(m, goal, d) => Goes(m, goal, d)'
  BY <1>1, <1>3, <1>5 DEF Goes, bridgeVars
<1>9. Stops(m) => Stops(m)'
  BY <1>1, <1>3 DEF Stops, IsSentNowhere, bridgeVars
<1>10. GotoInv(m)'
  BY <1>7, <1>8, <1>9 DEF MotorInv, GotoInv
<1> QED
  BY <1>4, <1>6, <1>10 DEF MotorInv

LEMMA CallLeavesAlert ==
  ASSUME Types, AlertInv, NEW s, Call(s)
  PROVE  AlertInv'
<1>1. UNCHANGED <<calling, callback>> /\ todo'["alert"] = todo["alert"]
  BY DEF Call, Types, TypeOK
<1> QED
  BY <1>1 DEF AlertInv

LEMMA Turns ==
  ASSUME Types, Careful, AlertInv, \A m \in Motors : MotorInv(m),
         NEW n \in Motors, NEW way \in {-1, 0, 1}, Turn(n, way)
  PROVE  AlertInv' /\ \A m \in Motors : MotorInv(m)'
<1> DEFINE d == DirectionOf(way)
           v == IF way = 0 THEN 0 ELSE 1
           s == Turning(n, d, v)
<1>1. Call(s)
  BY DEF Turn, DirectionOf
<1>2. /\ d \in Directions /\ v \in {0, 1}
      /\ way = 0 => v = 0
      /\ way # 0 => v = 1 /\ callback[n] = {} /\ calling = {}
  BY DEF DirectionOf, Directions, Turn
<1>3. /\ commanded'[n] = ToTurn(way)
      /\ \A m \in Motors \ {n} : commanded'[m] = commanded[m]
  BY DEF Turn, Types, TypeOK
<1> HIDE DEF d, v
<1>4. /\ s \in Seq(Steps) /\ Len(s) = 3
      /\ s[1] = Write("in1", n, d)
      /\ s[2] = Write("in2", n, (d + 1) % 2)
      /\ s[3] = Write("pwm", n, v)
  BY <1>2, TurningSteps
<1> HIDE DEF s
<1>5. /\ DOMAIN s = {1, 2, 3}
      /\ s[1].motor = n /\ s[1].do = "in1" /\ s[1].value = d
      /\ s[2].motor = n /\ s[2].do = "in2" /\ s[2].value = (d + 1) % 2
      /\ s[3].motor = n /\ s[3].do = "pwm" /\ s[3].value = v
  <2>1. DOMAIN s = {1, 2, 3}
    BY <1>4
  <2> QED
    BY <1>4, <2>1 DEF Write
<1>6. AlertInv'
  BY <1>1, CallLeavesAlert
<1>7. ASSUME NEW m \in Motors \ {n} PROVE MotorInv(m)'
  <2>1. \A i \in DOMAIN s : s[i].motor # m
    BY <1>5
  <2> QED
    BY <1>1, <1>3, <1>4, <2>1, NotConcerned DEF Does
<1>8. MotorInv(n)'
  <2>1. /\ UNCHANGED <<bridgeVars, counter, lag, callback, calling>>
        /\ todo'["main"] = s
    BY <1>1 DEF Call, Types, TypeOK
  <2>2. /\ Coming(n, {"in1"})' /\ Coming(n, {"in2"})' /\ Coming(n, {"pwm"})'
        /\ ~Coming(n, {"callback"})'
        /\ Valued(n, "in1", d)' /\ Valued(n, "in2", (d + 1) % 2)' /\ Valued(n, "pwm", v)'
    BY <1>5, <2>1 DEF Coming, Valued, Does
  <2>3. MainInv(n)'
    BY <1>5, <2>1 DEF MainInv, Does
  <2>4. Heading(n, d)' /\ Powered(n, v)'
    BY <2>2 DEF Heading, Powered
  <2>5. commanded'[n].is = "turn" /\ commanded'[n].arg = way /\ commanded'[n].from = 0
    BY <1>3 DEF ToTurn
  <2>6. TurnInv(n)'
    BY <1>2, <2>1, <2>2, <2>4, <2>5 DEF TurnInv, d
  <2>7. GotoInv(n)'
    BY <2>5 DEF GotoInv
  <2> QED
    BY <2>3, <2>6, <2>7 DEF MotorInv
<1> QED
  BY <1>6, <1>7, <1>8

LEMMA GoesTo ==
  ASSUME Types, Careful, AlertInv,
         NEW pan \in Positions, NEW tilt \in Positions, gotoPosition(pan, tilt)
  PROVE  AlertInv' /\ \A m \in Motors : MotorInv(m)'
<1> DEFINE s == GotoSteps(pan, tilt)
           Goal(m) == IF m = PAN THEN pan ELSE tilt
           Dir(m) == DirectionTo(m, Goal(m))
           First(m) == IF m = PAN THEN 3 ELSE 6
<1>1. Call(s)
  BY DEF gotoPosition
<1>2. /\ pan \in Int /\ tilt \in Int
      /\ PAN \in Motors /\ TILT \in Motors /\ TILT # PAN
      /\ \A m \in Motors : m # PAN => m = TILT
  BY MaxPositionAssumption DEF Positions, Motors, PAN, TILT
<1>3. \A m \in Motors :
        /\ duty[m] = 0 /\ lag[m] = <<>> /\ calling = {}
        /\ commanded'[m] = ToGo(Goal(m), counter[m])
  BY <1>2 DEF gotoPosition, AtRest, AlertIdle, Types, TypeOK
<1>4. /\ s \in Seq(Steps) /\ Len(s) = 8
      /\ s[1] = Write("callback", PAN, pan)
      /\ s[2] = Write("callback", TILT, tilt)
      /\ s[3] = Write("in1", PAN, Dir(PAN))
      /\ s[4] = Write("in2", PAN, (Dir(PAN) + 1) % 2)
      /\ s[5] = Write("pwm", PAN, 1)
      /\ s[6] = Write("in1", TILT, Dir(TILT))
      /\ s[7] = Write("in2", TILT, (Dir(TILT) + 1) % 2)
      /\ s[8] = Write("pwm", TILT, 1)
  BY <1>2, GotoStepsAre
<1>5. \A m \in Motors :
        /\ Dir(m) \in Directions
        /\ IF counter[m] = Goal(m) THEN Dir(m) = CW
           ELSE IF Dir(m) = CW THEN counter[m] < Goal(m) ELSE counter[m] > Goal(m)
  <2>1. \A m \in Motors : counter[m] \in Int /\ Goal(m) \in Int
    BY <1>2 DEF Types, TypeOK
  <2> QED
    BY <1>3, <2>1 DEF DirectionTo, Directions, CW, CCW
<1> HIDE DEF s, Dir
<1>6. DOMAIN s = {1, 2, 3, 4, 5, 6, 7, 8}
  BY <1>4
<1>7. AlertInv'
  BY <1>1, CallLeavesAlert
<1>8. ASSUME NEW m \in Motors PROVE MotorInv(m)'
  <2>0. PICK d, goal : d = Dir(m) /\ goal = Goal(m)
    OBVIOUS
  <2> DEFINE c == IF m = PAN THEN 1 ELSE 2
             k == First(m)
  <2>1. /\ c \in DOMAIN s /\ k \in DOMAIN s /\ k + 1 \in DOMAIN s /\ k + 2 \in DOMAIN s
        /\ c < k /\ k < k + 1 /\ k + 1 < k + 2 /\ c < k + 2 /\ k < k + 2
        /\ s[c].motor = m /\ s[c].do = "callback" /\ s[c].value = goal
        /\ s[k].motor = m /\ s[k].do = "in1" /\ s[k].value = d
        /\ s[k + 1].motor = m /\ s[k + 1].do = "in2" /\ s[k + 1].value = (d + 1) % 2
        /\ s[k + 2].motor = m /\ s[k + 2].do = "pwm" /\ s[k + 2].value = 1
    <3>1. CASE m = PAN
      BY <1>4, <1>6, <2>0, <3>1 DEF Write
    <3>2. CASE m = TILT
      BY <1>2, <1>4, <1>6, <2>0, <3>2 DEF Write
    <3> QED
      BY <1>2, <3>1, <3>2
  <2>2. \A i \in DOMAIN s : s[i].motor = m => i \in {c, k, k + 1, k + 2}
    <3>1. CASE m = PAN
      BY <1>2, <1>4, <1>6, <3>1 DEF Write
    <3>2. CASE m = TILT
      BY <1>2, <1>4, <1>6, <2>0, <3>2 DEF Write
    <3> QED
      BY <1>2, <3>1, <3>2
  <2>3. c \in Nat /\ k \in Nat
    OBVIOUS
  <2> HIDE DEF c, k
  <2>4. /\ UNCHANGED <<bridgeVars, counter, lag, callback, calling>>
        /\ todo'["main"] = s
    BY <1>1 DEF Call, Types, TypeOK
  <2>5. /\ Coming(m, {"in1"})' /\ Coming(m, {"in2"})' /\ Coming(m, {"pwm"})'
        /\ Coming(m, {"callback"})'
    BY <2>1, <2>4 DEF Coming, Does
  <2>6. /\ Valued(m, "in1", d)' /\ Valued(m, "in2", (d + 1) % 2)'
        /\ Valued(m, "pwm", 1)' /\ Valued(m, "callback", goal)'
    BY <2>1, <2>2, <2>4 DEF Valued, Does
  <2>7. MainInv(m)'
    <3>1. \A i \in DOMAIN s : s[i].motor = m => s[i].do # "counter" /\ (s[i].do = "pwm" <=> i = k + 2)
      BY <2>1, <2>2
    <3>2. \A i \in DOMAIN s : s[i].motor = m => i <= k + 2
      BY <2>1, <2>2, <2>3
    <3>3. \A i \in DOMAIN s : Does(s[i], m, {"in1", "in2", "callback"}) => k + 2 > i
      BY <2>1, <2>2, <2>3 DEF Does
    <3>4. \A i \in DOMAIN s : i \in Nat
      BY <1>4
    <3>5. \A i \in DOMAIN s :
            Does(s[i], m, {"in1", "in2", "callback"}) =>
              \E j \in DOMAIN s : j > i /\ Does(s[j], m, {"pwm"})
      BY <2>1, <3>3 DEF Does
    <3>6. \A i \in DOMAIN s :
            Does(s[i], m, {"pwm"}) =>
              \A j \in DOMAIN s : j > i => ~Does(s[j], m, {"in1", "in2", "pwm", "callback"})
      BY <2>3, <3>1, <3>2, <3>4 DEF Does
    <3>7. \A i \in DOMAIN s : ~Does(s[i], m, {"counter"})
      BY <3>1 DEF Does
    <3> QED
      BY <2>4, <3>5, <3>6, <3>7 DEF MainInv, Does
  <2>8. commanded'[m].is = "goto" /\ commanded'[m].arg = goal
        /\ commanded'[m].from = counter[m]
    <3>1. commanded'[m] = ToGo(goal, counter[m])
      BY <1>3, <2>0
    <3> QED
      BY <3>1 DEF ToGo
  <2>9. Starts(m, goal, d)'
    <3>1. Heading(m, d)' /\ Powered(m, 1)'
      BY <2>5, <2>6 DEF Heading, Powered
    <3>2. duty'[m] = 0 /\ lag'[m] = <<>> /\ m \notin calling' /\ counter'[m] = counter[m]
      BY <1>3, <2>4 DEF bridgeVars
    <3> QED
      BY <1>5, <2>0, <2>5, <2>6, <2>8, <3>1, <3>2 DEF Starts
  <2>10. TurnInv(m)' /\ GotoInv(m)'
    BY <1>5, <2>0, <2>8, <2>9 DEF TurnInv, GotoInv
  <2> QED
    BY <2>7, <2>10 DEF MotorInv
<1> QED
  BY <1>7, <1>8

LEMMA OtherOperations ==
  ASSUME Types, Careful, AlertInv, \A m \in Motors : MotorInv(m),
         setZero \/ drive \/ standby
  PROVE  AlertInv' /\ \A m \in Motors : MotorInv(m)'
<1>1. PAN \in Motors /\ TILT \in Motors
  BY DEF Motors
<1>2. CASE setZero
  <2> DEFINE s == << Write("counter", PAN, 0), Write("counter", TILT, 0) >>
  <2>1. /\ Call(s) /\ UNCHANGED commanded
        /\ \A m \in Motors : duty[m] = 0
    BY <1>2 DEF setZero, AtRest
  <2>2. s \in Seq(Steps) /\ \A i \in DOMAIN s : s[i].do = "counter"
    <3>1. Write("counter", PAN, 0) \in Steps /\ Write("counter", TILT, 0) \in Steps
      BY <1>1, StepTypes
    <3> QED
      BY <3>1 DEF Write
  <2> HIDE DEF s
  <2>3. \A m \in Motors : MotorInv(m)'
    BY <2>1, <2>2, NotConcerned DEF Does
  <2> QED
    BY <2>1, <2>3, CallLeavesAlert
<1>3. CASE drive \/ standby
  <2>1. PICK v \in {0, 1} : Call(<< Write("stby", PAN, v) >>) /\ UNCHANGED commanded
    BY <1>3 DEF drive, standby
  <2> DEFINE s == << Write("stby", PAN, v) >>
  <2>2. s \in Seq(Steps) /\ \A i \in DOMAIN s : s[i].do = "stby"
    <3>1. Write("stby", PAN, v) \in Steps
      BY <1>1, StepTypes DEF Pins
    <3> QED
      BY <3>1 DEF Write
  <2>3. Call(s) /\ UNCHANGED commanded
    BY <2>1
  <2> HIDE DEF s
  <2>4. \A m \in Motors : MotorInv(m)'
    BY <2>2, <2>3, NotConcerned DEF Does
  <2> QED
    BY <2>3, <2>4, CallLeavesAlert
<1> QED
  BY <1>2, <1>3

-----------------------------------------------------------------------------
(* The invariants. *)

LEMMA Establishes == Init => IInv
<1> SUFFICES ASSUME Init PROVE IInv
  OBVIOUS
<1>1. Types
  BY TypesFirst
<1>2. AlertInv
  BY DEF Init, AlertInv
<1>3. ASSUME NEW m \in Motors PROVE MotorInv(m)
  <2>1. /\ todo["main"] = <<>> /\ duty[m] = 0
        /\ commanded[m].is = "turn" /\ commanded[m].arg = 0 /\ commanded[m].from = 0
    BY DEF Init, BridgeInit, ToTurn
  <2> QED
    BY <2>1
    DEF MotorInv, MainInv, TurnInv, GotoInv, Powered, Valued, Coming
<1> QED
  BY <1>1, <1>2, <1>3 DEF IInv, Types

LEMMA Preserves ==
  ASSUME Careful
  PROVE  IInv /\ [Next]_vars => IInv'
<1> SUFFICES ASSUME IInv, [Next]_vars PROVE IInv'
  OBVIOUS
<1>1. Types /\ Types'
  BY TypesKept DEF IInv, Types
<1>2. alive' => alive
  <2>1. CASE Operation
    BY <2>1
    DEF Operation, Turn, gotoPosition, setZero, drive, standby, Call
  <2>2. CASE MainStep \/ AlertStep \/ \E m \in Motors : Moves(m)
    BY <2>2
    DEF MainStep, AlertStep, WriteStep, InstallStep, ResetStep, Moves,
        Interrupt, PassesBy, Arrives
  <2>3. CASE Ends \/ UNCHANGED vars
    BY <2>3 DEF Ends, vars
  <2> QED
    BY <2>1, <2>2, <2>3 DEF Next
<1> SUFFICES ASSUME alive, alive' PROVE AlertInv' /\ \A m \in Motors : MotorInv(m)'
  BY <1>1, <1>2 DEF IInv, Types
<1>3. AlertInv /\ \A m \in Motors : MotorInv(m)
  BY DEF IInv
<1>4. CASE Operation
  <2>1. ASSUME NEW n \in Motors, NEW way \in {-1, 0, 1}, Turn(n, way)
        PROVE  AlertInv' /\ \A m \in Motors : MotorInv(m)'
    BY <1>1, <1>3, <2>1, Turns
  <2>2. ASSUME NEW pan \in Positions, NEW tilt \in Positions, gotoPosition(pan, tilt)
        PROVE  AlertInv' /\ \A m \in Motors : MotorInv(m)'
    BY <1>1, <1>3, <2>2, GoesTo
  <2>3. CASE setZero \/ drive \/ standby
    BY <1>1, <1>3, <2>3, OtherOperations
  <2> QED
    BY <1>4, <2>1, <2>2, <2>3 DEF Operation
<1>5. CASE MainStep
  BY <1>1, <1>3, <1>5, MainWrites, MainInstalls, MainResets, MainLeavesAlert
  DEF MainStep
<1>6. CASE AlertStep
  BY <1>1, <1>3, <1>6, AlertWrites, AlertCounts, AlertPasses, AlertArrives
  DEF AlertStep
<1>7. CASE Ends
  BY <1>7 DEF Ends
<1>8. CASE \E m \in Motors : Moves(m)
  BY <1>1, <1>3, <1>8, MotorMoves
<1>9. CASE UNCHANGED vars
  BY <1>3, <1>9
  DEF vars, bridgeVars, AlertInv, MotorInv, MainInv, TurnInv, GotoInv, Starts,
      Goes, Stops, IsSentNowhere, Heading, Powered, Coming, Valued, Does
<1> QED
  BY <1>4, <1>5, <1>6, <1>7, <1>8, <1>9 DEF Next

LEMMA Invariant ==
  ASSUME Careful
  PROVE  Spec => []IInv
BY Establishes, Preserves, PTL DEF Spec

(* A motor that goes, or that is to go, in direction d. *)
LEMMA Ways ==
  ASSUME NEW m \in Motors, NEW d \in Directions,
         in1[m] = d, in2[m] = (d + 1) % 2
  PROVE  Settled(m) /\ Way(m) = WayOf(d)
<1>1. CASE d = CW
  BY <1>1 DEF Settled, Way, WayOf, CW
<1>2. CASE d = CCW
  BY <1>2 DEF Settled, Way, WayOf, CW, CCW
<1> QED
  BY <1>1, <1>2 DEF Directions

LEMMA Ahead ==
  ASSUME NEW m \in Motors, NEW d \in Directions, NEW goal \in Int,
         counter[m] \in Int, Way(m) = WayOf(d),
         IF d = CW THEN counter[m] < goal ELSE counter[m] > goal
  PROVE  IsToward(m, goal)
BY DEF IsToward, WayOf, Directions, CW, CCW

(* Once both threads are done, the motor does what the last pan or tilt    *)
(* asked, though the callback of an earlier motion may have been stopping  *)
(* it while the call was made.                                             *)
THEOREM TurnObeyed ==
  ASSUME Careful
  PROVE  Spec => []TurnIsObeyed
<1>1. IInv => TurnIsObeyed
  <2> SUFFICES ASSUME IInv, Quiet, NEW m \in Motors, commanded[m].is = "turn"
               PROVE  IF commanded[m].arg = 0 THEN duty[m] = 0
                      ELSE IsDriven(m) /\ Way(m) = commanded[m].arg
    BY DEF TurnIsObeyed
  <2> DEFINE way == commanded[m].arg
             d == DirectionOf(way)
  <2>1. TurnInv(m) /\ \A dos : ~Coming(m, dos)
    BY DEF IInv, Quiet, MainIdle, MotorInv, Coming
  <2>2. CASE way = 0
    BY <2>1, <2>2 DEF TurnInv, Powered
  <2>3. CASE way # 0
    <3>1. duty[m] = 1 /\ in1[m] = d /\ in2[m] = (d + 1) % 2
      BY <2>1, <2>3 DEF TurnInv, Powered, Heading
    <3>2. d \in Directions /\ WayOf(d) = way
      BY <2>1, <2>3 DEF TurnInv, DirectionOf, WayOf, Directions, CW, CCW
    <3> HIDE DEF d
    <3>3. Settled(m) /\ Way(m) = way
      BY <3>1, <3>2, Ways
    <3> QED
      BY <2>3, <3>1, <3>3 DEF IsDriven
  <2> QED
    BY <2>2, <2>3
<1> QED
  BY <1>1, Invariant, PTL

(* Once both threads are done, a motor that was sent to another position   *)
(* than its own is on its way to it with a callback to stop it there, or   *)
(* was stopped, and the callback removed, wherever the counts came in      *)
(* between; a motor sent to where it is is driven away from there, and its *)
(* callback waits behind it.                                               *)
THEOREM GotoObeyed ==
  ASSUME Careful
  PROVE  Spec => []GotoIsObeyed
<1>1. IInv => GotoIsObeyed
  <2> SUFFICES ASSUME IInv, Quiet, NEW m \in Motors, commanded[m].is = "goto"
               PROVE  LET goal == commanded[m].arg IN
                      IF IsSentNowhere(m)
                      THEN /\ callback[m] = {goal}
                           /\ IsDriven(m) /\ Way(m) = 1 /\ counter[m] >= goal
                      ELSE \/ callback[m] = {goal} /\ IsDriven(m) /\ IsToward(m, goal)
                           \/ callback[m] = {} /\ duty[m] = 0
    BY DEF GotoIsObeyed
  <2> DEFINE goal == commanded[m].arg
  <2>1. /\ GotoInv(m) /\ calling = {} /\ \A dos : ~Coming(m, dos)
        /\ goal \in Int /\ counter[m] \in Int
    BY DEF IInv, Quiet, MainIdle, AlertIdle, MotorInv, Coming, TypeOK
  <2>2. ASSUME NEW d \in Directions, Goes(m, goal, d)
        PROVE  /\ callback[m] = {goal} /\ IsDriven(m)
               /\ IF IsSentNowhere(m) THEN Way(m) = 1 /\ counter[m] >= goal
                  ELSE IsToward(m, goal)
    <3>1. duty[m] = 1 /\ callback[m] = {goal} /\ in1[m] = d /\ in2[m] = (d + 1) % 2
      BY <2>1, <2>2 DEF Goes, Heading
    <3>2. IF IsSentNowhere(m) THEN d = CW /\ counter[m] >= goal
          ELSE IF d = CW THEN counter[m] < goal ELSE counter[m] > goal
      <4>1. IsSentNowhere(m) <=> commanded[m].from = goal
        BY DEF IsSentNowhere
      <4>2. IF commanded[m].from = goal THEN d = CW /\ counter[m] >= goal
            ELSE IF d = CW THEN counter[m] < goal ELSE counter[m] > goal
        BY <2>1, <2>2 DEF Goes
      <4> QED
        BY <4>1, <4>2
    <3> HIDE DEF goal
    <3>3. Settled(m) /\ Way(m) = WayOf(d)
      BY <3>1, Ways
    <3>4. CASE IsSentNowhere(m)
      BY <3>1, <3>2, <3>3, <3>4 DEF IsDriven, WayOf
    <3>5. CASE ~IsSentNowhere(m)
      BY <2>1, <3>1, <3>2, <3>3, <3>5, Ahead DEF IsDriven
    <3> QED
      BY <3>4, <3>5
  <2>3. Stops(m) => ~IsSentNowhere(m) /\ callback[m] = {} /\ duty[m] = 0
    BY <2>1 DEF Stops
  <2>4. \A d : ~Starts(m, goal, d)
    BY <2>1 DEF Starts
  <2> QED
    BY <2>1, <2>2, <2>3, <2>4 DEF GotoInv
<1> QED
  BY <1>1, Invariant, PTL

(* At no time, between any two steps of the two threads, does a motor turn *)
(* a way nobody asked for, unless its callback is running, the write of    *)
(* its duty is still to come, or it was sent to where it was: then it turns*)
(* clockwise.                                                              *)
THEOREM NotAstray ==
  ASSUME Careful
  PROVE  Spec => []NeverAstray
<1>1. IInv => NeverAstray
  <2> SUFFICES ASSUME IInv
               PROVE  NeverAstray
    OBVIOUS
  <2>a. todo \in [{"main", "alert"} -> Seq(Steps)]
    BY DEF IInv, TypeOK
  <2>b. "main" \in DOMAIN todo
    BY <2>a
  <2>c. ASSUME NEW m \in Motors, Coming(m, {"pwm"})
        PROVE  \E thread \in DOMAIN todo : \E i \in DOMAIN todo[thread] :
                 todo[thread][i].do = "pwm" /\ todo[thread][i].motor = m
    BY <2>b, <2>c DEF Coming, Does
  <2> SUFFICES ASSUME alive, NEW m \in Motors, IsTurning(m),
                      ~Coming(m, {"pwm"}), calling # {m}
               PROVE  \/ commanded[m] = ToTurn(Way(m))
                      \/ commanded[m].is = "goto" /\ IsToward(m, commanded[m].arg)
                      \/ IsSentNowhere(m) /\ Way(m) = 1
    BY <2>c DEF NeverAstray
  <2> DEFINE c == commanded[m]
  <2>1. /\ TurnInv(m) /\ GotoInv(m) /\ duty[m] # 0
        /\ ~Coming(m, {"in1"}) /\ ~Coming(m, {"in2"})
        /\ c \in [is : {"turn", "goto"}, arg : Int, from : Int] /\ counter[m] \in Int
    BY NothingComes DEF IInv, MotorInv, TypeOK, IsTurning, IsDriven
  <2>2. CASE c.is = "turn"
    <3> DEFINE d == DirectionOf(c.arg)
    <3>1. c.arg \in {-1, 1} /\ c.from = 0 /\ in1[m] = d /\ in2[m] = (d + 1) % 2
      BY <2>1, <2>2 DEF TurnInv, Powered, Heading
    <3>2. d \in Directions /\ WayOf(d) = c.arg
      BY <3>1 DEF DirectionOf, WayOf, Directions, CW, CCW
    <3> HIDE DEF d
    <3>3. Way(m) = c.arg
      BY <3>1, <3>2, Ways
    <3> QED
      BY <2>1, <2>2, <3>1, <3>3 DEF ToTurn
  <2>3. CASE c.is = "goto"
    <3>1. PICK d \in Directions : Goes(m, c.arg, d)
      BY <2>1, <2>3 DEF GotoInv, Starts, Stops
    <3>2. /\ in1[m] = d /\ in2[m] = (d + 1) % 2
          /\ c.arg \in Int
          /\ IF c.from = c.arg THEN d = CW
             ELSE IF d = CW THEN counter[m] < c.arg ELSE counter[m] > c.arg
      BY <2>1, <3>1 DEF Goes, Heading
    <3>3. Way(m) = WayOf(d)
      BY <3>2, Ways
    <3>4. ASSUME c.from # c.arg PROVE IsToward(m, c.arg)
      <4> HIDE DEF c
      <4> QED
        BY <2>1, <3>2, <3>3, <3>4, Ahead
    <3>5. ASSUME c.from = c.arg PROVE IsSentNowhere(m) /\ Way(m) = 1
      BY <2>3, <3>2, <3>3, <3>5 DEF IsSentNowhere, WayOf
    <3> QED
      BY <2>3, <3>4, <3>5
  <2> QED
    BY <2>1, <2>2, <2>3
<1> QED
  BY <1>1, Invariant, PTL

=============================================================================
