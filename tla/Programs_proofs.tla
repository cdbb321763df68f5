--------------------------- MODULE Programs_proofs --------------------------
(***************************************************************************)
(* Proofs about Programs, for any command line, devices, readings of the   *)
(* joystick and stream of images: the statements of the tracker (what they *)
(* leave behind, and what they make of the motors), the detection of the   *)
(* capture cards, the two threads of the Qt client, the options, and the   *)
(* main functions with the types of it all.                                *)
(***************************************************************************)
EXTENDS Programs, SequenceTheorems, FiniteSetTheorems, TLAPS

-----------------------------------------------------------------------------
(* What a sequence of statements does to a motor.                          *)

AllStatements == [do : Pins \cup {"sleep", "glance", "steer", "check"},
                  motor : Motors, value : 0..100]

Levels == {"in1", "in2", "stby"}

Statements == {w \in AllStatements : w.do \in Levels => w.value \in {0, 1}}

(* A statement that decides how fast a motor turns. *)
Concerns(w, m) == w.motor = m /\ w.do \in {"pwm", "steer"}

LeavesAlone(s, m) == \A i \in DOMAIN s : ~Concerns(s[i], m)

EndsStopped(s, m) ==
  \E i \in DOMAIN s :
    /\ s[i].motor = m /\ s[i].do = "pwm" /\ s[i].value = 0
    /\ \A j \in DOMAIN s : j > i => ~Concerns(s[j], m)

LEMMA AloneThenAlone ==
  ASSUME NEW s \in Seq(Statements), NEW t \in Seq(Statements), NEW m,
         LeavesAlone(s, m), LeavesAlone(t, m)
  PROVE  LeavesAlone(s \o t, m)
BY DEF LeavesAlone

LEMMA StoppedLast ==
  ASSUME NEW s \in Seq(Statements), NEW t \in Seq(Statements), NEW m,
         EndsStopped(t, m)
  PROVE  EndsStopped(s \o t, m)
<1>1. PICK i \in DOMAIN t :
        /\ t[i].motor = m /\ t[i].do = "pwm" /\ t[i].value = 0
        /\ \A j \in DOMAIN t : j > i => ~Concerns(t[j], m)
  BY DEF EndsStopped
<1>2. Len(s) + i \in DOMAIN (s \o t) /\ (s \o t)[Len(s) + i] = t[i]
  OBVIOUS
<1>3. ASSUME NEW j \in DOMAIN (s \o t), j > Len(s) + i
      PROVE  ~Concerns((s \o t)[j], m)
  <2>1. j - Len(s) \in DOMAIN t /\ (s \o t)[j] = t[j - Len(s)] /\ j - Len(s) > i
    BY <1>3
  <2> QED
    BY <1>1, <2>1
<1> QED
  BY <1>1, <1>2, <1>3 DEF EndsStopped

LEMMA StoppedThenAlone ==
  ASSUME NEW s \in Seq(Statements), NEW t \in Seq(Statements), NEW m,
         EndsStopped(s, m), LeavesAlone(t, m)
  PROVE  EndsStopped(s \o t, m)
<1>1. PICK i \in DOMAIN s :
        /\ s[i].motor = m /\ s[i].do = "pwm" /\ s[i].value = 0
        /\ \A j \in DOMAIN s : j > i => ~Concerns(s[j], m)
  BY DEF EndsStopped
<1>2. i \in DOMAIN (s \o t) /\ (s \o t)[i] = s[i]
  OBVIOUS
<1>3. ASSUME NEW j \in DOMAIN (s \o t), j > i
      PROVE  ~Concerns((s \o t)[j], m)
  <2>1. CASE j <= Len(s)
    BY <1>1, <1>3, <2>1
  <2>2. CASE j > Len(s)
    <3>1. j - Len(s) \in DOMAIN t /\ (s \o t)[j] = t[j - Len(s)]
      BY <2>2
    <3> QED
      BY <3>1 DEF LeavesAlone
  <2> QED
    BY <2>1, <2>2
<1> QED
  BY <1>1, <1>2, <1>3 DEF EndsStopped

(* The first statement is executed: what follows leaves the motor alone, or *)
(* still stops it at its end.                                              *)
LEMMA AfterFirst ==
  ASSUME NEW s \in Seq(Statements), s # <<>>, NEW m
  PROVE  /\ Tail(s) \in Seq(Statements) /\ Head(s) \in Statements
         /\ LeavesAlone(s, m) => LeavesAlone(Tail(s), m) /\ ~Concerns(Head(s), m)
         /\ EndsStopped(s, m) =>
              \/ EndsStopped(Tail(s), m)
              \/ /\ LeavesAlone(Tail(s), m)
                 /\ Head(s).motor = m /\ Head(s).do = "pwm" /\ Head(s).value = 0
<1>1. Tail(s) \in Seq(Statements) /\ Head(s) \in Statements
  OBVIOUS
<1>2. \A j \in DOMAIN Tail(s) : j + 1 \in DOMAIN s /\ Tail(s)[j] = s[j + 1]
  OBVIOUS
<1>3. ASSUME LeavesAlone(s, m)
      PROVE  LeavesAlone(Tail(s), m) /\ ~Concerns(Head(s), m)
  BY <1>2, <1>3 DEF LeavesAlone
<1>4. ASSUME EndsStopped(s, m)
      PROVE  \/ EndsStopped(Tail(s), m)
             \/ /\ LeavesAlone(Tail(s), m)
                /\ Head(s).motor = m /\ Head(s).do = "pwm" /\ Head(s).value = 0
  <2>1. PICK i \in DOMAIN s :
          /\ s[i].motor = m /\ s[i].do = "pwm" /\ s[i].value = 0
          /\ \A j \in DOMAIN s : j > i => ~Concerns(s[j], m)
    BY <1>4 DEF EndsStopped
  <2>2. CASE i = 1
    BY <1>2, <2>1, <2>2 DEF LeavesAlone
  <2>3. CASE i # 1
    <3>1. i - 1 \in DOMAIN Tail(s) /\ Tail(s)[i - 1] = s[i]
      BY <2>3
    <3>2. \A j \in DOMAIN Tail(s) : j > i - 1 => ~Concerns(Tail(s)[j], m)
      BY <1>2, <2>1
    <3> QED
      BY <2>1, <3>1, <3>2 DEF EndsStopped
  <2> QED
    BY <2>2, <2>3
<1> QED
  BY <1>1, <1>3, <1>4

-----------------------------------------------------------------------------
(* What a sequence of statements does to a pin of a motor before its i-th  *)
(* statement. A steer stands for writes to the three pins of its motor.    *)

Touches(w, p, m) == w.motor = m /\ w.do \in {p, "steer"}

Kept(s, i, p, m) == \A j \in 1..(i - 1) : ~Touches(s[j], p, m)

Written(s, i, p, m, v) ==
  \E j \in 1..(i - 1) :
    /\ s[j].do = p /\ s[j].motor = m /\ s[j].value = v
    /\ \A k \in (j + 1)..(i - 1) : ~Touches(s[k], p, m)

(* The pin, now at x, has v when the i-th statement is executed. *)
Will(s, i, p, m, v, x) == Written(s, i, p, m, v) \/ (Kept(s, i, p, m) /\ x = v)

Steered(s, i, m) == \E j \in 1..(i - 1) : s[j].do = "steer" /\ s[j].motor = m

(* The motor is going to be steered, and then left alone. *)
Pending(s, i, m) ==
  \E j \in 1..(i - 1) :
    /\ s[j].do = "steer" /\ s[j].motor = m
    /\ \A k \in (j + 1)..(i - 1) : \A p \in Pins : ~Touches(s[k], p, m)

MotorPins == {"in1", "in2", "pwm"}

(* The first statement is replaced by others. *)
LEMMA PositionsReplaced ==
  ASSUME NEW s \in Seq(Statements), s # <<>>, NEW rest \in Seq(Statements)
  PROVE  /\ rest \o Tail(s) \in Seq(Statements)
         /\ Len(rest \o Tail(s)) = Len(rest) + Len(s) - 1
         /\ \A j \in 1..Len(rest) : (rest \o Tail(s))[j] = rest[j]
         /\ \A j \in 2..Len(s) : (rest \o Tail(s))[Len(rest) + j - 1] = s[j]
         /\ s[1] = Head(s) /\ Len(s) \in Nat \ {0} /\ Len(rest) \in Nat
<1>1. /\ Tail(s) \in Seq(Statements) /\ Len(Tail(s)) = Len(s) - 1
      /\ Len(s) \in Nat \ {0} /\ Len(rest) \in Nat
      /\ s[1] = Head(s)
      /\ \A j \in 1..Len(Tail(s)) : Tail(s)[j] = s[j + 1]
  OBVIOUS
<1> DEFINE t == Tail(s)
<1> HIDE DEF t
<1>2. /\ rest \o t \in Seq(Statements)
      /\ Len(rest \o t) = Len(rest) + Len(t)
      /\ \A j \in 1..Len(rest) : (rest \o t)[j] = rest[j]
      /\ \A j \in 1..Len(t) : (rest \o t)[Len(rest) + j] = t[j]
  BY <1>1 DEF t
<1>3. ASSUME NEW j \in 2..Len(s)
      PROVE  (rest \o t)[Len(rest) + j - 1] = s[j]
  <2>1. j - 1 \in 1..Len(t) /\ Len(rest) + j - 1 = Len(rest) + (j - 1)
    BY <1>1 DEF t
  <2>2. (rest \o t)[Len(rest) + (j - 1)] = t[j - 1]
    BY <1>2, <2>1
  <2>3. t[j - 1] = s[(j - 1) + 1]
    BY <1>1, <2>1 DEF t
  <2> QED
    BY <2>1, <2>2, <2>3
<1> QED
  BY <1>1, <1>2, <1>3 DEF t

(* Where a position of what replaces a sequence comes from. *)
LEMMA PositionOf ==
  ASSUME NEW s \in Seq(Statements), s # <<>>, NEW rest \in Seq(Statements),
         NEW i \in 2..Len(s), NEW k \in 1..(Len(rest) + i - 2)
  PROVE  \/ k \in 1..Len(rest) /\ (rest \o Tail(s))[k] = rest[k]
         \/ \E j \in 2..(i - 1) :
              k = Len(rest) + j - 1 /\ (rest \o Tail(s))[k] = s[j]
<1>1. Len(rest) \in Nat /\ Len(s) \in Nat
  BY PositionsReplaced
<1>2. CASE k <= Len(rest)
  BY <1>1, <1>2, PositionsReplaced
<1>3. CASE k > Len(rest)
  <2> DEFINE j == k - Len(rest) + 1
  <2>1. j \in 2..(i - 1) /\ j \in 2..Len(s) /\ k = Len(rest) + j - 1
    BY <1>1, <1>3
  <2> HIDE DEF j
  <2>2. (rest \o Tail(s))[Len(rest) + j - 1] = s[j]
    BY <2>1, PositionsReplaced
  <2> QED
    BY <2>1, <2>2
<1> QED
  BY <1>1, <1>2, <1>3

(* What is to be written to a pin remains so when the first statement is   *)
(* replaced by others that do not touch the pin, or was to touch it.       *)
LEMMA WillReplaced ==
  ASSUME NEW s \in Seq(Statements), s # <<>>, NEW rest \in Seq(Statements),
         NEW i \in 2..Len(s), NEW p, NEW m, NEW v, NEW x,
         Head(s).do # p \/ Head(s).motor # m,
         \/ Touches(Head(s), p, m)
         \/ \A j \in 1..Len(rest) : ~Touches(rest[j], p, m),
         Will(s, i, p, m, v, x)
  PROVE  Will(rest \o Tail(s), Len(rest) + i - 1, p, m, v, x)
<1> DEFINE t == rest \o Tail(s)
           n == Len(rest) + i - 1
<1>1. Len(rest) \in Nat /\ Len(s) \in Nat /\ s[1] = Head(s)
  BY PositionsReplaced
<1>2. ASSUME NEW k \in 1..(n - 1)
      PROVE  \/ k \in 1..Len(rest) /\ t[k] = rest[k]
             \/ \E j \in 2..(i - 1) : k = Len(rest) + j - 1 /\ t[k] = s[j]
  <2>1. k \in 1..(Len(rest) + i - 2)
    BY <1>1
  <2> QED
    BY <2>1, PositionOf
<1>3. ASSUME NEW j \in 2..(i - 1)
      PROVE  t[Len(rest) + j - 1] = s[j]
  <2>1. j \in 2..Len(s)
    BY <1>1
  <2> QED
    BY <2>1, PositionsReplaced
<1> HIDE DEF t
<1>4. CASE Written(s, i, p, m, v)
  <2>1. PICK j \in 1..(i - 1) :
          /\ s[j].do = p /\ s[j].motor = m /\ s[j].value = v
          /\ \A k \in (j + 1)..(i - 1) : ~Touches(s[k], p, m)
    BY <1>4 DEF Written
  <2>2. j # 1
    BY <1>1, <2>1
  <2>3. j \in 2..(i - 1) /\ Len(rest) + j - 1 \in 1..(n - 1)
    BY <1>1, <2>2
  <2>4. t[Len(rest) + j - 1] = s[j]
    BY <1>3, <2>3
  <2>5. ASSUME NEW k \in (Len(rest) + j - 1 + 1)..(n - 1)
        PROVE  ~Touches(t[k], p, m)
    <3>1. k \in 1..(n - 1) /\ ~(k \in 1..Len(rest))
      BY <1>1, <2>3
    <3>2. PICK l \in 2..(i - 1) : k = Len(rest) + l - 1 /\ t[k] = s[l]
      BY <1>2, <3>1
    <3>3. l \in (j + 1)..(i - 1)
      BY <1>1, <2>3, <3>2
    <3> QED
      BY <2>1, <3>2, <3>3
  <2>6. Written(t, n, p, m, v)
    BY <2>1, <2>3, <2>4, <2>5 DEF Written
  <2> QED
    BY <2>6 DEF Will, t
<1>5. CASE Kept(s, i, p, m) /\ x = v
  <2>1. ~Touches(Head(s), p, m)
    BY <1>1, <1>5 DEF Kept
  <2>2. ASSUME NEW k \in 1..(n - 1)
        PROVE  ~Touches(t[k], p, m)
    <3>1. CASE k \in 1..Len(rest) /\ t[k] = rest[k]
      BY <2>1, <3>1
    <3>2. CASE \E j \in 2..(i - 1) : k = Len(rest) + j - 1 /\ t[k] = s[j]
      <4>1. PICK j \in 2..(i - 1) : t[k] = s[j]
        BY <3>2
      <4>2. j \in 1..(i - 1)
        BY <4>1
      <4> QED
        BY <1>5, <4>1, <4>2 DEF Kept
    <3> QED
      BY <1>2, <3>1, <3>2
  <2> QED
    BY <1>5, <2>2 DEF Will, Kept, t
<1> QED
  BY <1>4, <1>5 DEF Will

(* The first statement is a write, and is executed. *)
LEMMA WillAfterWrite ==
  ASSUME NEW s \in Seq(Statements), s # <<>>,
         NEW i \in 2..Len(s), NEW p \in MotorPins, NEW m, NEW v, NEW x, NEW y,
         Head(s).do \in Pins,
         y = IF Head(s).do = p /\ Head(s).motor = m THEN Head(s).value ELSE x,
         Will(s, i, p, m, v, x)
  PROVE  Will(<<>> \o Tail(s), i - 1, p, m, v, y)
<1>1. <<>> \in Seq(Statements) /\ Len(<<>>) = 0
  OBVIOUS
<1>2. Len(<<>>) + i - 1 = i - 1
  BY <1>1
<1>3. CASE Head(s).do = p /\ Head(s).motor = m
  <2> DEFINE t == <<>> \o Tail(s)
  <2>1. s[1] = Head(s) /\ 1 \in 1..(i - 1) /\ Len(s) \in Nat
    BY PositionsReplaced, <1>1
  <2>2. ASSUME NEW j \in 2..(i - 1)
        PROVE  t[j - 1] = s[j]
    <3>1. j \in 2..Len(s)
      BY <2>1
    <3>2. t[Len(<<>>) + j - 1] = s[j]
      BY <1>1, <3>1, PositionsReplaced
    <3> QED
      BY <1>1, <3>2
  <2>3. Touches(s[1], p, m)
    BY <1>3, <2>1 DEF Touches
  <2> HIDE DEF t
  <2>4. CASE Written(s, i, p, m, v)
    <3>1. PICK j \in 1..(i - 1) :
            /\ s[j].do = p /\ s[j].motor = m /\ s[j].value = v
            /\ \A k \in (j + 1)..(i - 1) : ~Touches(s[k], p, m)
      BY <2>4 DEF Written
    <3>2. CASE j = 1
      <4>1. ASSUME NEW k \in 1..(i - 1 - 1)
            PROVE  ~Touches(t[k], p, m)
        <5>1. k + 1 \in 2..(i - 1) /\ k + 1 \in (j + 1)..(i - 1) /\ (k + 1) - 1 = k
          BY <3>2
        <5>2. t[(k + 1) - 1] = s[k + 1]
          BY <2>2, <5>1
        <5> QED
          BY <3>1, <5>1, <5>2
      <4>2. y = v
        BY <1>3, <2>1, <3>1, <3>2
      <4> QED
        BY <4>1, <4>2 DEF Will, Kept, t
    <3>3. CASE j # 1
      <4>1. j \in 2..(i - 1) /\ j - 1 \in 1..(i - 1 - 1)
        BY <3>3
      <4>2. t[j - 1] = s[j]
        BY <2>2, <4>1
      <4>3. ASSUME NEW k \in (j - 1 + 1)..(i - 1 - 1)
            PROVE  ~Touches(t[k], p, m)
        <5>1. k + 1 \in 2..(i - 1) /\ k + 1 \in (j + 1)..(i - 1) /\ (k + 1) - 1 = k
          BY <4>1
        <5>2. t[(k + 1) - 1] = s[k + 1]
          BY <2>2, <5>1
        <5> QED
          BY <3>1, <5>1, <5>2
      <4> QED
        BY <3>1, <4>1, <4>2, <4>3 DEF Will, Written, t
    <3> QED
      BY <3>2, <3>3
  <2>5. CASE Kept(s, i, p, m)
    BY <2>1, <2>3, <2>5 DEF Kept
  <2> QED
    BY <2>4, <2>5 DEF Will
<1>4. CASE ~(Head(s).do = p /\ Head(s).motor = m)
  <2>0. \A j \in 1..Len(<<>>) : ~Touches(<<>>[j], p, m)
    BY <1>1
  <2>1. Will(<<>> \o Tail(s), Len(<<>>) + i - 1, p, m, v, x)
    BY <1>1, <1>4, <2>0, WillReplaced
  <2> QED
    BY <1>2, <1>4, <2>1
<1> QED
  BY <1>3, <1>4

-----------------------------------------------------------------------------
(* The statements of Controller::run. *)

LEMMA TwoThenOne ==
  ASSUME NEW a \in Statements, NEW b \in Statements, NEW c \in Statements
  PROVE  <<a, b>> \o <<c>> = <<a, b, c>>
<1>1. <<a, b>> \in Seq(Statements) /\ <<c>> \in Seq(Statements)
  OBVIOUS
<1> DEFINE s == <<a, b>> \o <<c>>
           t == <<a, b, c>>
<1>2. s \in Seq(Statements) /\ t \in Seq(Statements)
  BY <1>1
<1>3. Len(s) = 3 /\ Len(t) = 3
  BY <1>1
<1>4. \A i \in 1..3 : s[i] = t[i]
  BY <1>1
<1> HIDE DEF s, t
<1>5. s = t
  BY <1>2, <1>3, <1>4, SeqEqual
<1> QED
  BY <1>5 DEF s, t

LEMMA TurningStatements ==
  ASSUME NEW m \in Motors, NEW d \in Directions, NEW v \in 0..100
  PROVE  /\ Turning(m, d, v) = << Write("in1", m, d), Write("in2", m, (d + 1) % 2),
                                  Write("pwm", m, v) >>
         /\ Turning(m, d, v) \in Seq(Statements)
         /\ \A n \in Motors \ {m} : LeavesAlone(Turning(m, d, v), n)
<1> DEFINE turning == << Write("in1", m, d), Write("in2", m, (d + 1) % 2),
                         Write("pwm", m, v) >>
<1>1. \A i \in 1..3 : turning[i] \in Statements /\ turning[i].motor = m
  BY DEF Statements, AllStatements, Levels, Write, Pins, Directions, CCW, CW
<1>2. Turning(m, d, v) = turning
  BY <1>1, TwoThenOne DEF Turning, SetDirection, SetDuty
<1>3. turning \in Seq(Statements) /\ DOMAIN turning = 1..3
  BY <1>1
<1> QED
  BY <1>1, <1>2, <1>3 DEF LeavesAlone, Concerns

LEMMA TurnByStatements ==
  ASSUME NEW m \in Motors, NEW v \in -100..100
  PROVE  /\ TurnBy(m, v) \in Seq(Statements)
         /\ \A n \in Motors \ {m} : LeavesAlone(TurnBy(m, v), n)
<1> DEFINE d == IF v < 0 THEN CCW ELSE CW
           u == IF v < 0 THEN -v ELSE v
<1>1. d \in Directions /\ u \in 0..100
  BY DEF Directions
<1>2. TurnBy(m, v) = Turning(m, d, u)
  BY DEF TurnBy
<1> HIDE DEF d, u
<1> QED
  <2>1. /\ Turning(m, d, u) \in Seq(Statements)
        /\ \A n \in Motors \ {m} : LeavesAlone(Turning(m, d, u), n)
    BY <1>1, TurningStatements
  <2> QED
    BY <1>2, <2>1

LEMMA StopStatements ==
  ASSUME NEW m \in Motors
  PROVE  /\ Stop(m) \in Seq(Statements)
         /\ \A n \in Motors \ {m} : LeavesAlone(Stop(m), n)
         /\ EndsStopped(Stop(m), m)
<1>1. Stop(m) = << Write("in1", m, CW), Write("in2", m, (CW + 1) % 2),
                   Write("pwm", m, 0) >>
  <2>1. Stop(m) = Turning(m, CW, 0)
    BY DEF Stop, TurnBy
  <2>2. CW \in Directions /\ 0 \in 0..100
    BY DEF Directions
  <2>3. Turning(m, CW, 0) = << Write("in1", m, CW), Write("in2", m, (CW + 1) % 2),
                               Write("pwm", m, 0) >>
    BY <2>2, TurningStatements, Zenon
  <2> QED
    BY <2>1, <2>3, Zenon
<1>2. EndsStopped(Stop(m), m)
  BY <1>1 DEF EndsStopped, Write
<1> QED
  BY <1>2, TurnByStatements DEF Stop

LEMMA OtherStatements ==
  /\ {Sleep, Glance, Check, drive, standby} \subseteq Seq(Statements)
  /\ \A m \in Motors : Steer(m) \in Seq(Statements)
  /\ \A s \in {Sleep, Glance, Check, drive, standby} :
       \A m \in Motors : LeavesAlone(s, m)
<1>1. ASSUME NEW do \in Pins \cup {"sleep", "glance", "steer", "check"},
             NEW m \in Motors, NEW v \in {0, 1}
      PROVE  << Write(do, m, v) >> \in Seq(Statements)
  BY DEF Write, Statements, AllStatements
<1>2. PAN \in Motors /\ "stby" \in Pins
  BY DEF Motors, Pins
<1>3. {Sleep, Glance, Check, drive, standby} \subseteq Seq(Statements)
  BY <1>1, <1>2 DEF Sleep, Glance, Check, drive, standby
<1>4. \A m \in Motors : Steer(m) \in Seq(Statements)
  BY <1>1 DEF Steer
<1>5. ASSUME NEW do \in {"sleep", "glance", "check", "stby"}, NEW m, NEW n, NEW v
      PROVE  LeavesAlone(<< Write(do, m, v) >>, n)
  BY DEF LeavesAlone, Concerns, Write
<1>6. \A s \in {Sleep, Glance, Check, drive, standby} :
        \A m \in Motors : LeavesAlone(s, m)
  BY <1>5 DEF Sleep, Glance, Check, drive, standby
<1> QED
  BY <1>3, <1>4, <1>6

(* A turn of the loop ends with both motors stopped. *)
LEMMA RoundStops ==
  /\ Round \in Seq(Statements)
  /\ \A m \in Motors : EndsStopped(Round, m)
<1> DEFINE first  == Glance \o Steer(PAN) \o Steer(TILT) \o Sleep
           second == first \o Stop(PAN)
           third  == second \o Stop(TILT)
<1>1. PAN \in Motors /\ TILT \in Motors /\ TILT # PAN
  BY DEF Motors, PAN, TILT
<1>2. first \in Seq(Statements)
  BY <1>1, OtherStatements
<1>3. second \in Seq(Statements) /\ EndsStopped(second, PAN)
  <2>1. Stop(PAN) \in Seq(Statements) /\ EndsStopped(Stop(PAN), PAN)
    BY <1>1, StopStatements
  <2> HIDE DEF first
  <2> QED
    BY <1>2, <2>1, StoppedLast
<1>4. third \in Seq(Statements) /\ EndsStopped(third, PAN) /\ EndsStopped(third, TILT)
  <2>1. Stop(TILT) \in Seq(Statements) /\ EndsStopped(Stop(TILT), TILT)
    BY <1>1, StopStatements
  <2>2. LeavesAlone(Stop(TILT), PAN)
    BY <1>1, StopStatements
  <2> HIDE DEF second
  <2>3. third \in Seq(Statements)
    BY <1>3, <2>1
  <2>4. EndsStopped(third, TILT)
    BY <1>3, <2>1, StoppedLast
  <2>5. EndsStopped(third, PAN)
    BY <1>3, <2>1, <2>2, StoppedThenAlone
  <2> QED
    BY <2>3, <2>4, <2>5
<1>5. /\ Check \in Seq(Statements)
      /\ LeavesAlone(Check, PAN) /\ LeavesAlone(Check, TILT)
  BY <1>1, OtherStatements
<1>6. Round = third \o Check
  BY DEF Round
<1> HIDE DEF third
<1>7. Round \in Seq(Statements)
  BY <1>4, <1>5, <1>6
<1>8. EndsStopped(Round, PAN)
  BY <1>4, <1>5, <1>6, StoppedThenAlone
<1>9. EndsStopped(Round, TILT)
  BY <1>4, <1>5, <1>6, StoppedThenAlone
<1> QED
  BY <1>7, <1>8, <1>9 DEF Motors

LEMMA ScriptStatements == Script \in Seq(Statements)
<1>1. ASSUME NEW m \in Motors, NEW d \in Directions
      PROVE  Motion(m, d) \in Seq(Statements)
  BY TurningStatements, StopStatements, OtherStatements DEF Motion
<1>2. PAN \in Motors /\ TILT \in Motors /\ CCW \in Directions /\ CW \in Directions
  BY DEF Motors, Directions
<1> QED
  BY <1>1, <1>2, StopStatements, OtherStatements DEF Script

(* The two bytes that carry a reading make that reading again.             *)
LEMMA ReadingIsRead ==
  ASSUME NEW r \in 0..1023
  PROVE  read(r) = r
<1> DEFINE q == r \div 256
           second == r % 256
           bytes == <<248 + q, second>>
           joined(b) == (b[1] % 4) * 256 + b[2]
<1>1. q \in 0..3 /\ r = q * 256 + second
  <2>1. CASE r \in 0..255
    <3>1. r \div 256 = 0 /\ r % 256 = r - 0
      BY <2>1
    <3> QED
      BY <3>1
  <2>2. CASE r \in 256..511
    <3>1. r \div 256 = 1 /\ r % 256 = r - 256
      BY <2>2
    <3> QED
      BY <3>1
  <2>3. CASE r \in 512..767
    <3>1. r \div 256 = 2 /\ r % 256 = r - 512
      BY <2>3
    <3> QED
      BY <3>1
  <2>4. CASE r \in 768..1023
    <3>1. r \div 256 = 3 /\ r % 256 = r - 768
      BY <2>4
    <3> QED
      BY <3>1
  <2> QED
    BY <2>1, <2>2, <2>3, <2>4
<1>2. \A n \in 0..3 : (248 + n) % 4 = n
  <2>1. 248 % 4 = 0 /\ 249 % 4 = 1 /\ 250 % 4 = 2 /\ 251 % 4 = 3
    OBVIOUS
  <2> QED
    BY <2>1
<1>3. bytes = Transferred(r)
  BY DEF Transferred
<1>4. \A b : b = Transferred(r) => read(r) = joined(b)
  BY Zenon DEF read
<1> HIDE DEF q, second
<1>5. bytes[1] = 248 + q /\ bytes[2] = second
  OBVIOUS
<1>6. (248 + q) % 4 = q
  BY <1>1, <1>2
<1>7. joined(bytes) = q * 256 + second
  BY <1>5, <1>6
<1> HIDE DEF bytes, joined
<1>8. read(r) = q * 256 + second
  BY <1>3, <1>4, <1>7, Zenon
<1> QED
  BY <1>1, <1>8

(* What the joystick makes of a reading, v of r: of one within 115 units   *)
(* of the middle nothing, and of one beyond a percentage of its sign.      *)
Percentage(r, v) ==
  /\ v \in -20..20
  /\ r - 512 \in -115..115 => v = 0
  /\ r - 512 > 115 => v \in 5..20
  /\ r - 512 < -115 => v \in -20..-5

(* A reading, or the one a motor has before the first, is of ten bits.     *)
TenBits == 0..1023

(* Every reading is of ten bits, as the converter has them.                *)
LEMMA ReadingOfTenBits ==
  ASSUME NEW r \in Readings \cup {512}
  PROVE  r \in TenBits
BY ReadingsAssumption DEF TenBits

(* What the joystick makes of a reading of ten bits is such a percentage.  *)
LEMMA DirectionOfReading ==
  ASSUME NEW r \in TenBits
  PROVE  Percentage(r, directionValue(read(r)))
<1> DEFINE n == (r - 512) * 20
           up == (2 * n + 512) \div 1024
           down == (2 * (-n) + 512) \div 1024
           value == Rounded(n, 512)
<1>1. r \in 0..1023
  BY DEF TenBits
<1>2. directionValue(read(r)) = IF value <= -5 \/ value >= 5 THEN value ELSE 0
  <2>1. neutralValue = 512
    BY DEF neutralValue, maxValue
  <2>2. Rounded((r - neutralValue) * 20, neutralValue) = value
    BY <2>1, Zenon
  <2>3. read(r) = r
    BY <1>1, ReadingIsRead
  <2> HIDE DEF value
  <2>4. directionValue(r) = IF value <= -5 \/ value >= 5 THEN value ELSE 0
    BY <2>2 DEF directionValue
  <2> QED
    BY <2>3, <2>4, Zenon
<1>3. value = IF n < 0 THEN -down ELSE up
  BY DEF Rounded
<1> HIDE DEF value
<1>4. CASE r >= 512
  <2>1. up \in 0..20 /\ (r <= 627 => up <= 4) /\ (r > 627 => up >= 5)
    BY <1>1, <1>4
  <2>2. ~(n < 0)
    BY <1>1, <1>4
  <2> HIDE DEF up, down, n
  <2> QED
    BY <1>1, <1>2, <1>3, <1>4, <2>1, <2>2 DEF Percentage
<1>5. CASE r < 512
  <2>1. down \in 0..20 /\ (r >= 397 => down <= 4) /\ (r < 397 => down >= 5)
    BY <1>1, <1>5
  <2>2. n < 0
    BY <1>1, <1>5
  <2> HIDE DEF up, down, n
  <2> QED
    BY <1>1, <1>2, <1>3, <1>5, <2>1, <2>2 DEF Percentage
<1> QED
  BY <1>1, <1>4, <1>5

(* A motor that is going to be steered stays so when a statement that does *)
(* not steer it is replaced.                                               *)
LEMMA PendingReplaced ==
  ASSUME NEW s \in Seq(Statements), s # <<>>, NEW rest \in Seq(Statements),
         NEW i \in 2..Len(s), NEW m,
         ~(Head(s).do = "steer" /\ Head(s).motor = m),
         Pending(s, i, m)
  PROVE  Pending(rest \o Tail(s), Len(rest) + i - 1, m)
<1> DEFINE t == rest \o Tail(s)
           n == Len(rest) + i - 1
<1>1. Len(rest) \in Nat /\ Len(s) \in Nat /\ s[1] = Head(s)
  BY PositionsReplaced
<1>2. \A j \in 2..(i - 1) : t[Len(rest) + j - 1] = s[j]
  BY <1>1, PositionsReplaced
<1> HIDE DEF t
<1>3. PICK j \in 1..(i - 1) :
        /\ s[j].do = "steer" /\ s[j].motor = m
        /\ \A k \in (j + 1)..(i - 1) : \A p \in Pins : ~Touches(s[k], p, m)
  BY DEF Pending
<1>4. j \in 2..(i - 1) /\ Len(rest) + j - 1 \in 1..(n - 1)
  BY <1>1, <1>3
<1>5. t[Len(rest) + j - 1] = s[j]
  BY <1>2, <1>4
<1>6. ASSUME NEW k \in (Len(rest) + j - 1 + 1)..(n - 1), NEW p \in Pins
      PROVE  ~Touches(t[k], p, m)
  <2> DEFINE l == k - Len(rest) + 1
  <2>1. l \in 2..(i - 1) /\ l \in (j + 1)..(i - 1) /\ Len(rest) + l - 1 = k
    BY <1>1, <1>4
  <2> HIDE DEF l
  <2>2. t[Len(rest) + l - 1] = s[l]
    BY <1>2, <2>1
  <2> QED
    BY <1>3, <2>1, <2>2
<1>7. Pending(t, n, m)
  BY <1>3, <1>4, <1>5, <1>6 DEF Pending
<1> QED
  BY <1>7 DEF t

LEMMA UnsteeredReplaced ==
  ASSUME NEW s \in Seq(Statements), s # <<>>, NEW rest \in Seq(Statements),
         NEW i \in 2..Len(s), NEW m,
         \A j \in 1..Len(rest) : rest[j].do # "steer",
         ~Steered(s, i, m)
  PROVE  ~Steered(rest \o Tail(s), Len(rest) + i - 1, m)
<1> DEFINE t == rest \o Tail(s)
           n == Len(rest) + i - 1
<1>1. Len(rest) \in Nat /\ Len(s) \in Nat
  BY PositionsReplaced
<1>2. ASSUME NEW k \in 1..(n - 1), t[k].do = "steer", t[k].motor = m
      PROVE  FALSE
  <2>1. k \in 1..(Len(rest) + i - 2)
    BY <1>1
  <2>2. \/ k \in 1..Len(rest) /\ t[k] = rest[k]
        \/ \E j \in 2..(i - 1) : k = Len(rest) + j - 1 /\ t[k] = s[j]
    BY <2>1, PositionOf
  <2> HIDE DEF t
  <2>3. PICK j \in 2..(i - 1) : t[k] = s[j]
    BY <1>2, <2>2
  <2>4. j \in 1..(i - 1)
    BY <2>3
  <2> QED
    BY <1>2, <2>3, <2>4 DEF Steered
<1> HIDE DEF t
<1>3. ~Steered(t, n, m)
  BY <1>2 DEF Steered
<1> QED
  BY <1>3 DEF t

(* The motor is steered: either it is going to be once more, or what turns *)
(* it is all that is written to its pins.                                  *)
LEMMA SteerReplaced ==
  ASSUME NEW s \in Seq(Statements), s # <<>>, NEW i \in 2..Len(s),
         NEW m \in Motors, NEW d \in Directions, NEW percent \in 0..100,
         Head(s).do = "steer", Head(s).motor = m,
         Pending(s, i, m)
  PROVE  LET t == Turning(m, d, percent) \o Tail(s)
             n == Len(Turning(m, d, percent)) + i - 1
         IN  \/ Pending(t, n, m)
             \/ /\ ~Steered(t, n, m)
                /\ Written(t, n, "in1", m, d)
                /\ Written(t, n, "in2", m, (d + 1) % 2)
                /\ Written(t, n, "pwm", m, percent)
<1> DEFINE rest == Turning(m, d, percent)
           t == rest \o Tail(s)
           n == i + 2
<1>1. /\ rest \in Seq(Statements) /\ Len(rest) = 3
      /\ rest[1] = Write("in1", m, d)
      /\ rest[2] = Write("in2", m, (d + 1) % 2)
      /\ rest[3] = Write("pwm", m, percent)
  <2>1. /\ rest = << Write("in1", m, d), Write("in2", m, (d + 1) % 2),
                    Write("pwm", m, percent) >>
        /\ rest \in Seq(Statements)
    BY TurningStatements
  <2> HIDE DEF rest
  <2> QED
    BY <2>1
<1> HIDE DEF rest
<1>2. /\ Len(s) \in Nat /\ s[1] = Head(s)
      /\ t[1] = rest[1] /\ t[2] = rest[2] /\ t[3] = rest[3]
      /\ \A j \in 2..Len(s) : t[3 + j - 1] = s[j]
      /\ Len(rest) + i - 1 = n
  <2>1. /\ Len(s) \in Nat /\ s[1] = Head(s)
        /\ \A j \in 1..Len(rest) : t[j] = rest[j]
        /\ \A j \in 2..Len(s) : t[Len(rest) + j - 1] = s[j]
    BY <1>1, PositionsReplaced
  <2> HIDE DEF t
  <2>2. 1 \in 1..Len(rest) /\ 2 \in 1..Len(rest) /\ 3 \in 1..Len(rest)
    BY <1>1
  <2> QED
    BY <1>1, <2>1, <2>2
<1>3. \A j \in 2..(i - 1) : t[j + 2] = s[j]
  <2>1. \A j \in 2..(i - 1) : j \in 2..Len(s) /\ 3 + j - 1 = j + 2
    BY <1>2
  <2> HIDE DEF t
  <2> QED
    BY <1>2, <2>1
<1> HIDE DEF t
<1>4. PICK j \in 1..(i - 1) :
        /\ s[j].do = "steer" /\ s[j].motor = m
        /\ \A k \in (j + 1)..(i - 1) : \A p \in Pins : ~Touches(s[k], p, m)
  BY DEF Pending
<1>5. CASE j # 1
  <2>1. j \in 2..(i - 1) /\ j + 2 \in 1..(n - 1)
    BY <1>5
  <2>2. ASSUME NEW k \in (j + 2 + 1)..(n - 1), NEW p \in Pins
        PROVE  ~Touches(t[k], p, m)
    <3>1. k - 2 \in 2..(i - 1) /\ k - 2 \in (j + 1)..(i - 1) /\ (k - 2) + 2 = k
      BY <2>1
    <3>2. t[(k - 2) + 2] = s[k - 2]
      BY <1>3, <3>1
    <3> QED
      BY <1>4, <3>1, <3>2
  <2>3. t[j + 2] = s[j]
    BY <1>3, <2>1
  <2>4. Pending(t, n, m)
    BY <1>4, <2>1, <2>2, <2>3 DEF Pending
  <2> QED
    BY <1>2, <2>4 DEF t, rest
<1>6. CASE j = 1
  <2>1. ASSUME NEW k \in 4..(n - 1), NEW p \in Pins
        PROVE  ~Touches(t[k], p, m)
    <3>1. k - 2 \in 2..(i - 1) /\ k - 2 \in (j + 1)..(i - 1) /\ (k - 2) + 2 = k
      BY <1>6
    <3>2. t[(k - 2) + 2] = s[k - 2]
      BY <1>3, <3>1
    <3> QED
      BY <1>4, <3>1, <3>2
  <2>2. /\ t[1].do = "in1" /\ t[1].motor = m /\ t[1].value = d
        /\ t[2].do = "in2" /\ t[2].motor = m /\ t[2].value = (d + 1) % 2
        /\ t[3].do = "pwm" /\ t[3].motor = m /\ t[3].value = percent
    BY <1>1, <1>2 DEF Write
  <2>3. 1 \in 1..(n - 1) /\ 2 \in 1..(n - 1) /\ 3 \in 1..(n - 1)
    OBVIOUS
  <2>4. ~Steered(t, n, m)
    <3>1. ASSUME NEW k \in 1..(n - 1), t[k].do = "steer", t[k].motor = m
          PROVE  FALSE
      <4>1. k = 1 \/ k = 2 \/ k = 3 \/ k \in 4..(n - 1)
        OBVIOUS
      <4>2. k \in 4..(n - 1)
        BY <2>2, <3>1, <4>1
      <4> QED
        BY <2>1, <3>1, <4>2 DEF Touches, Pins
    <3> QED
      BY <3>1 DEF Steered
  <2>5. Written(t, n, "in1", m, d)
    <3>1. ASSUME NEW k \in (1 + 1)..(n - 1)
          PROVE  ~Touches(t[k], "in1", m)
      <4>1. k = 2 \/ k = 3 \/ k \in 4..(n - 1)
        OBVIOUS
      <4> QED
        BY <2>1, <2>2, <4>1 DEF Touches, Pins
    <3> QED
      BY <2>2, <2>3, <3>1 DEF Written
  <2>6. Written(t, n, "in2", m, (d + 1) % 2)
    <3>1. ASSUME NEW k \in (2 + 1)..(n - 1)
          PROVE  ~Touches(t[k], "in2", m)
      <4>1. k = 3 \/ k \in 4..(n - 1)
        OBVIOUS
      <4> QED
        BY <2>1, <2>2, <4>1 DEF Touches, Pins
    <3> QED
      BY <2>2, <2>3, <3>1 DEF Written
  <2>7. Written(t, n, "pwm", m, percent)
    <3>1. ASSUME NEW k \in (3 + 1)..(n - 1)
          PROVE  ~Touches(t[k], "pwm", m)
      BY <2>1 DEF Pins
    <3> QED
      BY <2>2, <2>3, <3>1 DEF Written
  <2> QED
    BY <1>2, <2>4, <2>5, <2>6, <2>7 DEF t, rest
<1> QED
  BY <1>5, <1>6

-----------------------------------------------------------------------------
(* The script of Controller::run and a turn of its loop.                   *)

LEMMA Joined ==
  ASSUME NEW s \in Seq(Statements), NEW t \in Seq(Statements)
  PROVE  /\ s \o t \in Seq(Statements)
         /\ Len(s \o t) = Len(s) + Len(t) /\ Len(s) \in Nat /\ Len(t) \in Nat
         /\ \A j \in 1..Len(s) : (s \o t)[j] = s[j]
         /\ \A j \in 1..Len(t) : (s \o t)[Len(s) + j] = t[j]
OBVIOUS

LEMMA JoinedPosition ==
  ASSUME NEW s \in Seq(Statements), NEW t \in Seq(Statements),
         NEW k \in 1..(Len(s) + Len(t))
  PROVE  \/ k \in 1..Len(s) /\ (s \o t)[k] = s[k]
         \/ \E j \in 1..Len(t) : k = Len(s) + j /\ (s \o t)[k] = t[j]
<1>1. CASE k <= Len(s)
  BY <1>1, Joined
<1>2. CASE k > Len(s)
  <2>1. k - Len(s) \in 1..Len(t) /\ k = Len(s) + (k - Len(s))
    BY <1>2, Joined
  <2>2. (s \o t)[Len(s) + (k - Len(s))] = t[k - Len(s)]
    BY <2>1, Joined
  <2> QED
    BY <2>1, <2>2
<1> QED
  BY <1>1, <1>2, Joined

(* What comes later does not count.                                        *)
LEMMA WrittenBefore ==
  ASSUME NEW s \in Seq(Statements), NEW t \in Seq(Statements),
         NEW i \in 1..(Len(s) + 1), NEW p, NEW m, NEW v
  PROVE  /\ Written(s, i, p, m, v) => Written(s \o t, i, p, m, v)
         /\ Kept(s, i, p, m) => Kept(s \o t, i, p, m)
<1>1. \A j \in 1..(i - 1) : (s \o t)[j] = s[j]
  BY Joined
<1> DEFINE u == s \o t
<1> HIDE DEF u
<1>2. \A j \in 1..(i - 1) : u[j] = s[j]
  BY <1>1 DEF u
<1>3. i \in Int
  BY Joined
<1>4. ASSUME Written(s, i, p, m, v)
      PROVE  Written(u, i, p, m, v)
  <2>1. PICK j \in 1..(i - 1) :
          /\ s[j].do = p /\ s[j].motor = m /\ s[j].value = v
          /\ \A k \in (j + 1)..(i - 1) : ~Touches(s[k], p, m)
    BY <1>4 DEF Written
  <2>2. \A k \in (j + 1)..(i - 1) : k \in 1..(i - 1) /\ u[k] = s[k]
    BY <1>2, <1>3
  <2> QED
    BY <1>2, <2>1, <2>2 DEF Written
<1> QED
  BY <1>2, <1>4 DEF Kept, u

(* A sequence after another: what it writes, and what it leaves as it was. *)
LEMMA WillBehind ==
  ASSUME NEW s \in Seq(Statements), NEW t \in Seq(Statements),
         NEW i \in 1..(Len(t) + 1), NEW p, NEW m, NEW v
  PROVE  /\ Written(t, i, p, m, v) => Written(s \o t, Len(s) + i, p, m, v)
         /\ \A x, y : Will(t, i, p, m, v, y) /\ Will(s, Len(s) + 1, p, m, y, x)
                        => Will(s \o t, Len(s) + i, p, m, v, x)
<1> DEFINE u == s \o t
           n == Len(s) + i
<1>1. Len(s) \in Nat /\ Len(t) \in Nat
  BY Joined
<1>2. ASSUME NEW k \in 1..(n - 1)
      PROVE  \/ k \in 1..Len(s) /\ u[k] = s[k]
             \/ \E j \in 1..(i - 1) : k = Len(s) + j /\ u[k] = t[j]
  <2>1. k \in 1..(Len(s) + Len(t))
    BY <1>1
  <2>2. CASE k \in 1..Len(s) /\ u[k] = s[k]
    BY <2>2
  <2>3. CASE \E j \in 1..Len(t) : k = Len(s) + j /\ u[k] = t[j]
    <3> HIDE DEF u
    <3>1. PICK j \in 1..Len(t) : k = Len(s) + j /\ u[k] = t[j]
      BY <2>3
    <3>2. j \in 1..(i - 1)
      BY <1>1, <3>1
    <3> QED
      BY <3>1, <3>2
  <2> QED
    BY <2>1, <2>2, <2>3, JoinedPosition
<1>3. /\ \A j \in 1..Len(s) : u[j] = s[j]
      /\ \A j \in 1..Len(t) : u[Len(s) + j] = t[j]
  BY Joined
<1> HIDE DEF u
<1>4. ASSUME Written(t, i, p, m, v)
      PROVE  Written(u, n, p, m, v)
  <2>1. PICK j \in 1..(i - 1) :
          /\ t[j].do = p /\ t[j].motor = m /\ t[j].value = v
          /\ \A k \in (j + 1)..(i - 1) : ~Touches(t[k], p, m)
    BY <1>4 DEF Written
  <2>2. j \in 1..Len(t) /\ Len(s) + j \in 1..(n - 1)
    BY <1>1
  <2>3. ASSUME NEW k \in (Len(s) + j + 1)..(n - 1)
        PROVE  ~Touches(u[k], p, m)
    <3>1. k \in 1..(n - 1) /\ ~(k \in 1..Len(s))
      BY <1>1, <2>2
    <3>2. PICK l \in 1..(i - 1) : k = Len(s) + l /\ u[k] = t[l]
      BY <1>2, <3>1
    <3>3. l \in (j + 1)..(i - 1)
      BY <1>1, <2>2, <3>2
    <3> QED
      BY <2>1, <3>2, <3>3
  <2>4. u[Len(s) + j] = t[j]
    BY <1>3, <2>2
  <2> QED
    BY <2>1, <2>2, <2>3, <2>4 DEF Written
<1>5. ASSUME NEW x, NEW y, Will(t, i, p, m, v, y), Will(s, Len(s) + 1, p, m, y, x)
      PROVE  Will(u, n, p, m, v, x)
  <2>1. CASE Written(t, i, p, m, v)
    BY <1>4, <2>1 DEF Will
  <2>2. CASE Kept(t, i, p, m) /\ y = v
    <3>0. ASSUME NEW k \in 1..(n - 1), ~(k \in 1..Len(s))
          PROVE  ~Touches(u[k], p, m)
      <4>1. PICK j \in 1..(i - 1) : u[k] = t[j]
        BY <1>2, <3>0
      <4> QED
        BY <2>2, <4>1 DEF Kept
    <3>1. CASE Written(s, Len(s) + 1, p, m, y)
      <4>1. PICK j \in 1..(Len(s) + 1 - 1) :
              /\ s[j].do = p /\ s[j].motor = m /\ s[j].value = y
              /\ \A k \in (j + 1)..(Len(s) + 1 - 1) : ~Touches(s[k], p, m)
        BY <3>1 DEF Written
      <4>2. j \in 1..Len(s) /\ j \in 1..(n - 1) /\ u[j] = s[j]
        BY <1>1, <1>3
      <4>3. ASSUME NEW k \in (j + 1)..(n - 1)
            PROVE  ~Touches(u[k], p, m)
        <5>1. k \in 1..(n - 1)
          BY <4>2
        <5>2. CASE k \in 1..Len(s)
          <6>1. k \in (j + 1)..(Len(s) + 1 - 1) /\ u[k] = s[k]
            BY <1>1, <1>3, <5>2
          <6> QED
            BY <4>1, <6>1
        <5> QED
          BY <3>0, <5>1, <5>2
      <4> QED
        BY <2>2, <4>1, <4>2, <4>3 DEF Will, Written
    <3>2. CASE Kept(s, Len(s) + 1, p, m) /\ x = y
      <4>1. ASSUME NEW k \in 1..(n - 1)
            PROVE  ~Touches(u[k], p, m)
        <5>1. CASE k \in 1..Len(s)
          <6>1. k \in 1..(Len(s) + 1 - 1) /\ u[k] = s[k]
            BY <1>1, <1>3, <5>1
          <6> QED
            BY <3>2, <6>1 DEF Kept
        <5> QED
          BY <3>0, <5>1
      <4> QED
        BY <2>2, <3>2, <4>1 DEF Will, Kept
    <3> QED
      BY <1>5, <3>1, <3>2 DEF Will
  <2> QED
    BY <1>5, <2>1, <2>2 DEF Will
<1> QED
  BY <1>4, <1>5 DEF u

(* A sequence that, begun with both motors at rest, sleeps only while one  *)
(* of them turns at half of the speed, and leaves them at rest.            *)
Moving(s, i) ==
  \E m \in Motors, d \in Directions :
    /\ Written(s, i, "in1", m, d)
    /\ Written(s, i, "in2", m, (d + 1) % 2)
    /\ Written(s, i, "pwm", m, 50)
    /\ \A n \in Motors \ {m} : Will(s, i, "pwm", n, 0, 0)

PlaysWell(s) ==
  /\ s \in Seq(Statements)
  /\ \A i \in 1..Len(s) : s[i].do # "check" /\ (s[i].do = "sleep" => Moving(s, i))
  /\ \A m \in Motors : Will(s, Len(s) + 1, "pwm", m, 0, 0)

LEMMA MovingBefore ==
  ASSUME NEW s \in Seq(Statements), NEW t \in Seq(Statements),
         NEW i \in 1..(Len(s) + 1), Moving(s, i)
  PROVE  Moving(s \o t, i)
<1>1. PICK m \in Motors, d \in Directions :
        /\ Written(s, i, "in1", m, d)
        /\ Written(s, i, "in2", m, (d + 1) % 2)
        /\ Written(s, i, "pwm", m, 50)
        /\ \A n \in Motors \ {m} : Will(s, i, "pwm", n, 0, 0)
  BY DEF Moving
<1>2. /\ Written(s \o t, i, "in1", m, d)
      /\ Written(s \o t, i, "in2", m, (d + 1) % 2)
      /\ Written(s \o t, i, "pwm", m, 50)
  BY <1>1, WrittenBefore
<1>3. \A n \in Motors \ {m} : Will(s \o t, i, "pwm", n, 0, 0)
  BY <1>1, WrittenBefore DEF Will
<1> QED
  BY <1>2, <1>3 DEF Moving

LEMMA PlaysThenPlays ==
  ASSUME NEW s, NEW t, PlaysWell(s), PlaysWell(t)
  PROVE  PlaysWell(s \o t)
<1> DEFINE u == s \o t
<1>1. s \in Seq(Statements) /\ t \in Seq(Statements)
  BY DEF PlaysWell
<1>2. /\ u \in Seq(Statements) /\ Len(u) = Len(s) + Len(t)
      /\ Len(s) \in Nat /\ Len(t) \in Nat
  BY <1>1, Joined
<1>3. ASSUME NEW i \in 1..Len(u)
      PROVE  u[i].do # "check" /\ (u[i].do = "sleep" => Moving(u, i))
  <2>1. CASE i \in 1..Len(s) /\ u[i] = s[i]
    <3>1. i \in 1..(Len(s) + 1)
      BY <1>2, <2>1
    <3>2. Moving(s, i) => Moving(u, i)
      BY <1>1, <3>1, MovingBefore
    <3> QED
      BY <2>1, <3>2 DEF PlaysWell
  <2>2. CASE \E j \in 1..Len(t) : i = Len(s) + j /\ u[i] = t[j]
    <3> HIDE DEF u
    <3>1. PICK j \in 1..Len(t) : i = Len(s) + j /\ u[i] = t[j]
      BY <2>2
    <3>2. u[i].do # "check"
      BY <3>1 DEF PlaysWell
    <3>3. ASSUME u[i].do = "sleep"
          PROVE  Moving(u, i)
      <4>1. Moving(t, j) /\ j \in 1..(Len(t) + 1)
        BY <1>2, <3>1, <3>3 DEF PlaysWell
      <4>2. PICK m \in Motors, d \in Directions :
              /\ Written(t, j, "in1", m, d)
              /\ Written(t, j, "in2", m, (d + 1) % 2)
              /\ Written(t, j, "pwm", m, 50)
              /\ \A n \in Motors \ {m} : Will(t, j, "pwm", n, 0, 0)
        BY <4>1 DEF Moving
      <4>3. /\ Written(u, Len(s) + j, "in1", m, d)
            /\ Written(u, Len(s) + j, "in2", m, (d + 1) % 2)
            /\ Written(u, Len(s) + j, "pwm", m, 50)
        BY <1>1, <4>1, <4>2, WillBehind DEF u
      <4>4. ASSUME NEW n \in Motors \ {m}
            PROVE  Will(u, Len(s) + j, "pwm", n, 0, 0)
        <5>1. Will(t, j, "pwm", n, 0, 0) /\ Will(s, Len(s) + 1, "pwm", n, 0, 0)
          BY <4>2, <4>4 DEF PlaysWell
        <5> QED
          BY <1>1, <4>1, <5>1, WillBehind DEF u
      <4> QED
        BY <3>1, <4>3, <4>4 DEF Moving
    <3> QED
      BY <3>2, <3>3
  <2>3. i \in 1..(Len(s) + Len(t))
    BY <1>2
  <2> QED
    BY <1>1, <2>1, <2>2, <2>3, JoinedPosition
<1>4. ASSUME NEW m \in Motors
      PROVE  Will(u, Len(u) + 1, "pwm", m, 0, 0)
  <2>1. Len(t) + 1 \in 1..(Len(t) + 1) /\ Len(u) + 1 = Len(s) + (Len(t) + 1)
    BY <1>2
  <2>2. /\ Will(t, Len(t) + 1, "pwm", m, 0, 0)
        /\ Will(s, Len(s) + 1, "pwm", m, 0, 0)
    BY DEF PlaysWell
  <2>3. Will(u, Len(s) + (Len(t) + 1), "pwm", m, 0, 0)
    BY <1>1, <2>1, <2>2, WillBehind
  <2> QED
    BY <2>1, <2>3
<1> QED
  BY <1>2, <1>3, <1>4 DEF PlaysWell

LEMMA DrivePlaysWell == PlaysWell(drive)
<1> DEFINE w == Write("stby", PAN, 1)
<1>1. drive = <<w>> /\ drive \in Seq(Statements)
  BY OtherStatements DEF drive
<1>2. w.do = "stby"
  BY DEF Write
<1> HIDE DEF w
<1>3. Len(drive) = 1 /\ drive[1] = w
  BY <1>1
<1>4. \A m \in Motors : Will(drive, Len(drive) + 1, "pwm", m, 0, 0)
  BY <1>2, <1>3 DEF Will, Kept, Touches
<1> QED
  BY <1>1, <1>2, <1>3, <1>4 DEF PlaysWell

(* The statements s are the three writes that turn a motor.                *)
Turns(s, m, d, v) ==
  /\ s \in Seq(Statements) /\ Len(s) = 3
  /\ s[1].do = "in1" /\ s[1].motor = m /\ s[1].value = d
  /\ s[2].do = "in2" /\ s[2].motor = m /\ s[2].value = (d + 1) % 2
  /\ s[3].do = "pwm" /\ s[3].motor = m /\ s[3].value = v

(* Turning a motor is these three writes.                                  *)
LEMMA TurningWrites ==
  ASSUME NEW m \in Motors, NEW d \in Directions, NEW v \in 0..100
  PROVE  Turns(Turning(m, d, v), m, d, v)
<1> DEFINE w1 == Write("in1", m, d)
           w2 == Write("in2", m, (d + 1) % 2)
           w3 == Write("pwm", m, v)
<1>1. Turning(m, d, v) = <<w1, w2, w3>> /\ Turning(m, d, v) \in Seq(Statements)
  BY TurningStatements
<1>2. /\ w1.do = "in1" /\ w1.motor = m /\ w1.value = d
      /\ w2.do = "in2" /\ w2.motor = m /\ w2.value = (d + 1) % 2
      /\ w3.do = "pwm" /\ w3.motor = m /\ w3.value = v
  BY DEF Write
<1> HIDE DEF w1, w2, w3
<1>3. Turns(<<w1, w2, w3>>, m, d, v)
  BY <1>1, <1>2 DEF Turns
<1> QED
  BY <1>1, <1>3, Zenon

LEMMA TurningPins ==
  ASSUME NEW m \in Motors, NEW d \in Directions, NEW v \in 0..100
  PROVE  LET s == Turning(m, d, v)
         IN  /\ Len(s) = 3
             /\ \A j \in 1..Len(s) : s[j].do \in MotorPins /\ s[j].motor = m
<1> DEFINE w1 == Write("in1", m, d)
           w2 == Write("in2", m, (d + 1) % 2)
           w3 == Write("pwm", m, v)
           t  == <<w1, w2, w3>>
<1>1. Turning(m, d, v) = t
  BY TurningStatements
<1>2. /\ w1.do \in MotorPins /\ w1.motor = m
      /\ w2.do \in MotorPins /\ w2.motor = m
      /\ w3.do \in MotorPins /\ w3.motor = m
  BY DEF Write, MotorPins
<1> HIDE DEF w1, w2, w3
<1>3. \A j \in 1..Len(t) : j = 1 \/ j = 2 \/ j = 3
  OBVIOUS
<1>4. Len(t) = 3 /\ \A j \in 1..Len(t) : t[j].do \in MotorPins /\ t[j].motor = m
  BY <1>2, <1>3
<1> HIDE DEF t
<1> QED
  BY <1>1, <1>4, Zenon

LEMMA StopWrites ==
  ASSUME NEW m \in Motors
  PROVE  LET s == Stop(m)
         IN  /\ s \in Seq(Statements) /\ Len(s) = 3
             /\ s[1].do = "in1" /\ s[1].motor = m
             /\ s[2].do = "in2" /\ s[2].motor = m
             /\ s[3].do = "pwm" /\ s[3].motor = m /\ s[3].value = 0
<1> DEFINE t == Turning(m, CW, 0)
<1>1. Stop(m) = t
  BY DEF Stop, TurnBy
<1>2. CW \in Directions /\ 0 \in 0..100
  BY DEF Directions
<1>3. Turns(t, m, CW, 0)
  BY <1>2, TurningWrites, Zenon
<1> HIDE DEF t
<1> QED
  BY <1>1, <1>3, Zenon DEF Turns

LEMMA StopPlaysWell ==
  ASSUME NEW m \in Motors
  PROVE  PlaysWell(Stop(m))
<1> DEFINE s == Stop(m)
<1>2. /\ s \in Seq(Statements) /\ Len(s) = 3
      /\ s[1].do = "in1" /\ s[1].motor = m
      /\ s[2].do = "in2" /\ s[2].motor = m
      /\ s[3].do = "pwm" /\ s[3].motor = m /\ s[3].value = 0
  BY StopWrites
<1> HIDE DEF s
<1>3. ASSUME NEW n \in Motors
      PROVE  Will(s, Len(s) + 1, "pwm", n, 0, 0)
  <2>1. CASE n = m
    <3>1. Written(s, 4, "pwm", m, 0)
      <4>1. 3 \in 1..(4 - 1) /\ \A k \in (3 + 1)..(4 - 1) : FALSE
        OBVIOUS
      <4> QED
        BY <1>2, <4>1 DEF Written
    <3> QED
      BY <1>2, <2>1, <3>1 DEF Will
  <2>2. CASE n # m
    <3>1. \A k \in 1..(4 - 1) : k = 1 \/ k = 2 \/ k = 3
      OBVIOUS
    <3>2. Kept(s, 4, "pwm", n)
      BY <1>2, <2>2, <3>1 DEF Kept, Touches
    <3> QED
      BY <1>2, <3>2 DEF Will
  <2> QED
    BY <2>1, <2>2
<1>4. \A k \in 1..Len(s) : k = 1 \/ k = 2 \/ k = 3
  BY <1>2
<1>5. \A k \in 1..Len(s) : s[k].do # "check" /\ s[k].do # "sleep"
  BY <1>2, <1>4
<1>6. PlaysWell(s)
  BY <1>2, <1>3, <1>5 DEF PlaysWell
<1> QED
  BY <1>6 DEF s

(* A motion: the motor turns, and then stops.                              *)
LEMMA MotionPlaysWell ==
  ASSUME NEW m \in Motors, NEW d \in Directions
  PROVE  PlaysWell(Motion(m, d))
<1> DEFINE turning == Turning(m, d, 50)
           s == turning \o Sleep
           w == Write("sleep", PAN, 0)
<1>1. 50 \in 0..100 /\ Stop(m) \in Seq(Statements)
  BY StopStatements
<1>2. /\ turning \in Seq(Statements) /\ Len(turning) = 3
      /\ turning[1].do = "in1" /\ turning[1].motor = m /\ turning[1].value = d
      /\ turning[2].do = "in2" /\ turning[2].motor = m
      /\ turning[2].value = (d + 1) % 2
      /\ turning[3].do = "pwm" /\ turning[3].motor = m /\ turning[3].value = 50
  <2>1. Turns(turning, m, d, 50)
    BY <1>1, TurningWrites, Zenon
  <2> HIDE DEF turning
  <2> QED
    BY <2>1, Zenon DEF Turns
<1>3. Sleep = <<w>> /\ Sleep \in Seq(Statements)
  BY OtherStatements DEF Sleep
<1>4. w.do = "sleep"
  BY DEF Write
<1> HIDE DEF turning, w
<1>5. Len(Sleep) = 1 /\ Sleep[1] = w
  BY <1>3
<1>6. /\ s \in Seq(Statements) /\ Len(s) = 4
      /\ s[1] = turning[1] /\ s[2] = turning[2] /\ s[3] = turning[3] /\ s[4] = w
  <2>1. /\ s \in Seq(Statements) /\ Len(s) = Len(turning) + Len(Sleep)
        /\ \A j \in 1..Len(turning) : s[j] = turning[j]
        /\ \A j \in 1..Len(Sleep) : s[Len(turning) + j] = Sleep[j]
    BY <1>2, <1>3, Joined
  <2> HIDE DEF s
  <2>2. 1 \in 1..Len(turning) /\ 2 \in 1..Len(turning) /\ 3 \in 1..Len(turning)
    BY <1>2
  <2>3. 1 \in 1..Len(Sleep) /\ Len(turning) + 1 = 4
    BY <1>2, <1>5
  <2> QED
    BY <1>2, <1>5, <2>1, <2>2, <2>3
<1>7. Motion(m, d) = s \o Stop(m)
  BY DEF Motion, turning
<1> HIDE DEF s
<1> DEFINE i == 4
           u == s \o Stop(m)
<1>8. /\ Written(s, 4, "in1", m, d)
      /\ Written(s, 4, "in2", m, (d + 1) % 2)
      /\ Written(s, 4, "pwm", m, 50)
  <2>1. 1 \in 1..(4 - 1) /\ \A k \in (1 + 1)..(4 - 1) : k = 2 \/ k = 3
    OBVIOUS
  <2>2. 2 \in 1..(4 - 1) /\ \A k \in (2 + 1)..(4 - 1) : k = 3
    OBVIOUS
  <2>3. 3 \in 1..(4 - 1) /\ \A k \in (3 + 1)..(4 - 1) : FALSE
    OBVIOUS
  <2>4. Written(s, 4, "in1", m, d)
    BY <1>2, <1>6, <2>1 DEF Written, Touches
  <2>5. Written(s, 4, "in2", m, (d + 1) % 2)
    BY <1>2, <1>6, <2>2 DEF Written, Touches
  <2>6. Written(s, 4, "pwm", m, 50)
    BY <1>2, <1>6, <2>3 DEF Written
  <2> QED
    BY <2>4, <2>5, <2>6
<1>9. ASSUME NEW n \in Motors \ {m}
      PROVE  Will(s, 4, "pwm", n, 0, 0)
  <2>1. \A k \in 1..(4 - 1) : k = 1 \/ k = 2 \/ k = 3
    OBVIOUS
  <2>2. Kept(s, 4, "pwm", n)
    BY <1>2, <1>6, <2>1, <1>9 DEF Kept, Touches
  <2> QED
    BY <2>2 DEF Will
<1>10. Moving(s, 4)
  BY <1>8, <1>9 DEF Moving
<1>11. 4 \in 1..(Len(s) + 1)
  BY <1>6
<1>12. Moving(u, 4)
  BY <1>1, <1>6, <1>10, <1>11, MovingBefore
<1>13. u \in Seq(Statements) /\ Len(u) = Len(s) + Len(Stop(m))
  BY <1>1, <1>6, Joined
<1>14. ASSUME NEW k \in 1..Len(u)
       PROVE  u[k].do # "check" /\ (u[k].do = "sleep" => Moving(u, k))
  <2>1. CASE k \in 1..Len(s) /\ u[k] = s[k]
    <3>1. k = 1 \/ k = 2 \/ k = 3 \/ k = 4
      BY <1>6, <2>1
    <3>2. u[k].do # "check"
      BY <1>2, <1>4, <1>6, <2>1, <3>1
    <3>3. u[k].do = "sleep" => k = 4
      BY <1>2, <1>6, <2>1, <3>1
    <3> QED
      BY <1>12, <3>2, <3>3
  <2>2. CASE \E j \in 1..Len(Stop(m)) : k = Len(s) + j /\ u[k] = Stop(m)[j]
    <3> HIDE DEF u
    <3>1. PICK j \in 1..Len(Stop(m)) : u[k] = Stop(m)[j]
      BY <2>2
    <3>3. /\ Len(Stop(m)) = 3
          /\ Stop(m)[1].do = "in1" /\ Stop(m)[2].do = "in2" /\ Stop(m)[3].do = "pwm"
      BY StopWrites
    <3>4. j = 1 \/ j = 2 \/ j = 3
      BY <3>1, <3>3
    <3> QED
      BY <3>1, <3>3, <3>4
  <2>3. k \in 1..(Len(s) + Len(Stop(m)))
    BY <1>13
  <2> QED
    BY <1>1, <1>6, <2>1, <2>2, <2>3, JoinedPosition
<1>15. ASSUME NEW n \in Motors
       PROVE  Will(u, Len(u) + 1, "pwm", n, 0, 0)
  <2>1. /\ Len(Stop(m)) \in Nat /\ Len(s) = 4
        /\ Len(u) + 1 = Len(s) + (Len(Stop(m)) + 1)
        /\ Len(Stop(m)) + 1 \in 1..(Len(Stop(m)) + 1)
    BY <1>1, <1>6, <1>13
  <2>2. CASE n = m
    <3>2. Len(Stop(m)) = 3 /\ Stop(m)[3].do = "pwm" /\ Stop(m)[3].motor = m
            /\ Stop(m)[3].value = 0
      BY StopWrites
    <3>3. 3 \in 1..(4 - 1) /\ \A k \in (3 + 1)..(4 - 1) : FALSE
      OBVIOUS
    <3>4. Written(Stop(m), 4, "pwm", m, 0)
      BY <3>2, <3>3 DEF Written
    <3>5. Written(Stop(m), Len(Stop(m)) + 1, "pwm", m, 0)
      BY <3>2, <3>4
    <3>6. Written(u, Len(s) + (Len(Stop(m)) + 1), "pwm", m, 0)
      BY <1>1, <1>6, <2>1, <3>5, WillBehind
    <3> QED
      BY <2>1, <2>2, <3>6 DEF Will
  <2>3. CASE n # m
    <3>1. Will(Stop(m), Len(Stop(m)) + 1, "pwm", n, 0, 0)
      BY StopPlaysWell DEF PlaysWell
    <3>2. Will(s, Len(s) + 1, "pwm", n, 0, 0)
      <4>1. \A k \in 1..(Len(s) + 1 - 1) : k = 1 \/ k = 2 \/ k = 3 \/ k = 4
        BY <1>6
      <4>2. Kept(s, Len(s) + 1, "pwm", n)
        BY <1>2, <1>4, <1>6, <2>3, <4>1 DEF Kept, Touches
      <4> QED
        BY <4>2 DEF Will
    <3>3. Will(u, Len(s) + (Len(Stop(m)) + 1), "pwm", n, 0, 0)
      BY <1>1, <1>6, <2>1, <3>1, <3>2, WillBehind
    <3> QED
      BY <2>1, <3>3
  <2> QED
    BY <2>2, <2>3
<1>16. PlaysWell(u)
  BY <1>13, <1>14, <1>15 DEF PlaysWell
<1> QED
  BY <1>7, <1>16

LEMMA ScriptPlaysWell == PlaysWell(Script)
<1>1. PAN \in Motors /\ TILT \in Motors /\ CCW \in Directions /\ CW \in Directions
  BY DEF Motors, Directions
<1>2. /\ PlaysWell(drive) /\ PlaysWell(Stop(PAN))
      /\ PlaysWell(Motion(PAN, CCW)) /\ PlaysWell(Motion(PAN, CW))
      /\ PlaysWell(Motion(TILT, CCW)) /\ PlaysWell(Motion(TILT, CW))
  BY <1>1, DrivePlaysWell, StopPlaysWell, MotionPlaysWell
<1> QED
  BY <1>2, PlaysThenPlays, Zenon DEF Script

(* A turn of the loop: both motors are steered before the sleep, and       *)
(* nothing else is written to their pins until then.                       *)
LEMMA RoundPositions ==
  /\ Round \in Seq(Statements) /\ Len(Round) = 11
  /\ Round[1].do = "glance"
  /\ Round[2].do = "steer" /\ Round[2].motor = PAN
  /\ Round[3].do = "steer" /\ Round[3].motor = TILT
  /\ Round[4].do = "sleep"
  /\ \A k \in 5..10 : Round[k].do \in {"in1", "in2", "pwm"}
  /\ Round[11].do = "check"
<1> DEFINE g == Write("glance", PAN, 0)
           p == Write("steer", PAN, 0)
           t == Write("steer", TILT, 0)
           w == Write("sleep", PAN, 0)
           c == Write("check", PAN, 0)
           a == Glance \o Steer(PAN)
           b == a \o Steer(TILT)
           d == b \o Sleep
           e == d \o Stop(PAN)
           f == e \o Stop(TILT)
<1>1. PAN \in Motors /\ TILT \in Motors
  BY DEF Motors
<1>2. /\ g.do = "glance" /\ p.do = "steer" /\ p.motor = PAN
      /\ t.do = "steer" /\ t.motor = TILT /\ w.do = "sleep" /\ c.do = "check"
  BY DEF Write
<1>3. /\ {Glance, Steer(PAN), Steer(TILT), Sleep, Check} \subseteq Seq(Statements)
      /\ Glance = <<g>> /\ Steer(PAN) = <<p>> /\ Steer(TILT) = <<t>>
      /\ Sleep = <<w>> /\ Check = <<c>>
  BY <1>1, OtherStatements DEF Glance, Steer, Sleep, Check
<1> HIDE DEF g, p, t, w, c
<1>4. /\ Len(Glance) = 1 /\ Glance[1] = g /\ Len(Steer(PAN)) = 1 /\ Steer(PAN)[1] = p
      /\ Len(Steer(TILT)) = 1 /\ Steer(TILT)[1] = t /\ Len(Sleep) = 1 /\ Sleep[1] = w
      /\ Len(Check) = 1 /\ Check[1] = c
  BY <1>3
<1>5. ASSUME NEW m \in Motors
      PROVE  /\ Stop(m) \in Seq(Statements) /\ Len(Stop(m)) = 3
             /\ \A j \in 1..3 : Stop(m)[j].do \in {"in1", "in2", "pwm"}
  <2>2. /\ Stop(m) \in Seq(Statements) /\ Len(Stop(m)) = 3
        /\ Stop(m)[1].do = "in1" /\ Stop(m)[2].do = "in2" /\ Stop(m)[3].do = "pwm"
    BY StopWrites
  <2>3. \A j \in 1..3 : j = 1 \/ j = 2 \/ j = 3
    OBVIOUS
  <2> QED
    BY <2>2, <2>3
<1>6. ASSUME NEW s \in Seq(Statements), NEW r \in Seq(Statements)
      PROVE  /\ s \o r \in Seq(Statements) /\ Len(s \o r) = Len(s) + Len(r)
             /\ \A j \in 1..Len(s) : (s \o r)[j] = s[j]
             /\ \A j \in 1..Len(r) : (s \o r)[Len(s) + j] = r[j]
  BY Joined
<1>7. a \in Seq(Statements) /\ Len(a) = 2 /\ a[1] = g /\ a[2] = p
  <2>1. /\ a \in Seq(Statements) /\ Len(a) = Len(Glance) + Len(Steer(PAN))
        /\ \A j \in 1..Len(Glance) : a[j] = Glance[j]
        /\ \A j \in 1..Len(Steer(PAN)) : a[Len(Glance) + j] = Steer(PAN)[j]
    BY <1>3, <1>6
  <2> HIDE DEF a
  <2> QED
    BY <1>4, <2>1
<1> HIDE DEF a
<1>8. b \in Seq(Statements) /\ Len(b) = 3 /\ b[1] = g /\ b[2] = p /\ b[3] = t
  <2>1. /\ b \in Seq(Statements) /\ Len(b) = Len(a) + Len(Steer(TILT))
        /\ \A j \in 1..Len(a) : b[j] = a[j]
        /\ \A j \in 1..Len(Steer(TILT)) : b[Len(a) + j] = Steer(TILT)[j]
    BY <1>3, <1>6, <1>7
  <2> HIDE DEF b
  <2> QED
    BY <1>4, <1>7, <2>1
<1> HIDE DEF b
<1>9. /\ d \in Seq(Statements) /\ Len(d) = 4
      /\ d[1] = g /\ d[2] = p /\ d[3] = t /\ d[4] = w
  <2>1. /\ d \in Seq(Statements) /\ Len(d) = Len(b) + Len(Sleep)
        /\ \A j \in 1..Len(b) : d[j] = b[j]
        /\ \A j \in 1..Len(Sleep) : d[Len(b) + j] = Sleep[j]
    BY <1>3, <1>6, <1>8
  <2> HIDE DEF d
  <2> QED
    BY <1>4, <1>8, <2>1
<1> HIDE DEF d
<1>10. /\ e \in Seq(Statements) /\ Len(e) = 7
       /\ e[1] = g /\ e[2] = p /\ e[3] = t /\ e[4] = w
       /\ \A k \in 5..7 : e[k].do \in {"in1", "in2", "pwm"}
  <2>1. /\ e \in Seq(Statements) /\ Len(e) = Len(d) + Len(Stop(PAN))
        /\ \A j \in 1..Len(d) : e[j] = d[j]
        /\ \A j \in 1..Len(Stop(PAN)) : e[Len(d) + j] = Stop(PAN)[j]
    BY <1>1, <1>5, <1>6, <1>9
  <2> HIDE DEF e
  <2>2. e[1] = g /\ e[2] = p /\ e[3] = t /\ e[4] = w /\ Len(e) = 7
    <3>1. Len(Stop(PAN)) = 3 /\ Len(d) = 4
      BY <1>1, <1>5, <1>9
    <3>2. \A j \in 1..4 : e[j] = d[j]
      BY <2>1, <3>1
    <3> QED
      BY <1>9, <2>1, <3>1, <3>2
  <2>3. ASSUME NEW k \in 5..7
        PROVE  e[k].do \in {"in1", "in2", "pwm"}
    <3>1. k - 4 \in 1..3 /\ Len(d) + (k - 4) = k /\ Len(Stop(PAN)) = 3
      BY <1>1, <1>5, <1>9
    <3>2. e[Len(d) + (k - 4)] = Stop(PAN)[k - 4]
      BY <2>1, <3>1
    <3>3. Stop(PAN)[k - 4].do \in {"in1", "in2", "pwm"}
      BY <1>1, <1>5, <3>1
    <3> QED
      BY <3>1, <3>2, <3>3
  <2> QED
    BY <2>1, <2>2, <2>3
<1> HIDE DEF e
<1>11. /\ f \in Seq(Statements) /\ Len(f) = 10
       /\ f[1] = g /\ f[2] = p /\ f[3] = t /\ f[4] = w
       /\ \A k \in 5..10 : f[k].do \in {"in1", "in2", "pwm"}
  <2>1. /\ f \in Seq(Statements) /\ Len(f) = Len(e) + Len(Stop(TILT))
        /\ \A j \in 1..Len(e) : f[j] = e[j]
        /\ \A j \in 1..Len(Stop(TILT)) : f[Len(e) + j] = Stop(TILT)[j]
    BY <1>1, <1>5, <1>6, <1>10
  <2> HIDE DEF f
  <2>2. f[1] = g /\ f[2] = p /\ f[3] = t /\ f[4] = w /\ Len(f) = 10
    <3>1. Len(Stop(TILT)) = 3 /\ Len(e) = 7
      BY <1>1, <1>5, <1>10
    <3>2. \A j \in 1..4 : f[j] = e[j]
      BY <2>1, <3>1
    <3> QED
      BY <1>10, <2>1, <3>1, <3>2
  <2>3. ASSUME NEW k \in 5..10
        PROVE  f[k].do \in {"in1", "in2", "pwm"}
    <3>1. CASE k <= 7
      <4>1. k \in 1..Len(e) /\ k \in 5..7
        BY <1>10, <3>1
      <4> QED
        BY <1>10, <2>1, <4>1
    <3>2. CASE k > 7
      <4>1. k - 7 \in 1..3 /\ Len(e) + (k - 7) = k /\ Len(Stop(TILT)) = 3
        BY <1>1, <1>5, <1>10, <3>2
      <4>2. f[Len(e) + (k - 7)] = Stop(TILT)[k - 7]
        BY <2>1, <4>1
      <4>3. Stop(TILT)[k - 7].do \in {"in1", "in2", "pwm"}
        BY <1>1, <1>5, <4>1
      <4> QED
        BY <4>1, <4>2, <4>3
    <3> QED
      BY <3>1, <3>2
  <2> QED
    BY <2>1, <2>2, <2>3
<1>12. Round = f \o Check
  BY DEF Round, a, b, d, e
<1> HIDE DEF f
<1>13. /\ Round \in Seq(Statements) /\ Len(Round) = Len(f) + Len(Check)
       /\ \A j \in 1..Len(f) : Round[j] = f[j]
       /\ \A j \in 1..Len(Check) : Round[Len(f) + j] = Check[j]
  <2>1. Check \in Seq(Statements)
    BY <1>3
  <2> QED
    BY <1>6, <1>11, <1>12, <2>1, Zenon
<1>14. /\ Round[1] = g /\ Round[2] = p /\ Round[3] = t /\ Round[4] = w
       /\ Round[11] = c /\ Len(Round) = 11
  BY <1>4, <1>11, <1>13
<1>15. \A k \in 5..10 : Round[k].do \in {"in1", "in2", "pwm"}
  <2>1. \A k \in 5..10 : k \in 1..Len(f)
    BY <1>11
  <2> QED
    BY <1>11, <1>13, <2>1
<1> QED
  BY <1>2, <1>13, <1>14, <1>15

LEMMA RoundSteers ==
  ASSUME NEW m \in Motors
  PROVE  Pending(Round, 4, m)
<1>1. PAN # TILT /\ Motors = {PAN, TILT}
  BY DEF Motors, PAN, TILT
<1>2. CASE m = PAN
  <2>1. 2 \in 1..(4 - 1) /\ \A k \in (2 + 1)..(4 - 1) : k = 3
    OBVIOUS
  <2> QED
    BY <1>1, <1>2, <2>1, RoundPositions DEF Pending, Touches
<1>3. CASE m = TILT
  <2>1. 3 \in 1..(4 - 1) /\ \A k \in (3 + 1)..(4 - 1) : FALSE
    OBVIOUS
  <2> QED
    BY <1>1, <1>3, <2>1, RoundPositions DEF Pending, Touches
<1> QED
  BY <1>1, <1>2, <1>3

-----------------------------------------------------------------------------
(* The tracker. While run goes on, what it has still to execute stops each *)
(* motor at its end, or leaves it alone and it stands.                     *)

WillStand(s, d, m) == EndsStopped(s, m) \/ (LeavesAlone(s, m) /\ d[m] = 0)

MotorsInv ==
  /\ todo \in Seq(Statements)
  /\ duty \in [Motors -> 0..100]
  /\ stage = "run" => \A m \in Motors : WillStand(todo, duty, m)
  /\ stage = "returned" => \A m \in Motors : duty[m] = 0

GpioInv ==
  /\ gpio => program = "tracker" /\ (at = "run" \/ (at = "exited" /\ status = Aborted))
  /\ spi => gpio /\ stage \in {"joystick", "run", "returned", "thrown"}

LEMMA NothingStatements ==
  <<>> \in Seq(Statements) /\ \A m \in Motors : LeavesAlone(<<>>, m)
BY DEF LeavesAlone

(* A statement that writes nothing is replaced by others, that leave the   *)
(* motor alone if it does not concern it.                                  *)
LEMMA ReplacedFirst ==
  ASSUME NEW s \in Seq(Statements), s # <<>>, NEW rest \in Seq(Statements),
         NEW d, NEW m, WillStand(s, d, m), Head(s).do # "pwm",
         Concerns(Head(s), m) \/ LeavesAlone(rest, m)
  PROVE  WillStand(rest \o Tail(s), d, m)
<1>1. Tail(s) \in Seq(Statements)
  BY AfterFirst
<1>2. CASE EndsStopped(s, m)
  BY <1>1, <1>2, AfterFirst, StoppedLast DEF WillStand
<1>3. CASE LeavesAlone(s, m) /\ d[m] = 0
  BY <1>1, <1>3, AfterFirst, AloneThenAlone DEF WillStand
<1> QED
  BY <1>2, <1>3 DEF WillStand

LEMMA WriteStepKeeps ==
  ASSUME MotorsInv, WriteStep
  PROVE  MotorsInv'
<1> DEFINE first == Head(todo)
<1>1. /\ stage = "run" /\ stage' = "run" /\ todo # <<>>
      /\ todo' = <<>> \o Tail(todo)
      /\ WriteDone(first) \/ (first.do = "stby" /\ UNCHANGED bridgeVars)
  BY DEF WriteStep, Proceed
<1>2. todo \in Seq(Statements) /\ Tail(todo) \in Seq(Statements) /\ first \in Statements
  BY <1>1, AfterFirst DEF MotorsInv
<1>3. todo' = Tail(todo)
  BY <1>1, <1>2
<1>4. duty \in [Motors -> 0..100] /\ first.motor \in Motors /\ first.value \in 0..100
  BY <1>2 DEF MotorsInv, Statements, AllStatements
<1>5. duty' = IF first.do = "pwm" THEN [duty EXCEPT ![first.motor] = first.value] ELSE duty
  BY <1>1 DEF WriteDone, bridgeVars
<1> HIDE DEF first
<1>6. duty' \in [Motors -> 0..100]
  BY <1>4, <1>5
<1>7. ASSUME NEW m \in Motors
      PROVE  WillStand(Tail(todo), duty', m)
  <2>1. WillStand(todo, duty, m)
    BY <1>1 DEF MotorsInv
  <2>2. CASE EndsStopped(Tail(todo), m)
    BY <2>2 DEF WillStand
  <2>3. CASE /\ LeavesAlone(Tail(todo), m)
             /\ first.motor = m /\ first.do = "pwm" /\ first.value = 0
    BY <1>4, <1>5, <2>3 DEF WillStand
  <2>4. CASE LeavesAlone(Tail(todo), m) /\ ~Concerns(first, m) /\ duty[m] = 0
    BY <1>4, <1>5, <2>4 DEF WillStand, Concerns
  <2> QED
    BY <1>1, <1>2, <2>1, <2>2, <2>3, <2>4, AfterFirst DEF WillStand, first
<1> QED
  BY <1>1, <1>2, <1>3, <1>6, <1>7 DEF MotorsInv

LEMMA ReplacementKeeps ==
  ASSUME MotorsInv, stage = "run", todo # <<>>, Head(todo).do # "pwm",
         NEW rest \in Seq(Statements), Proceed(rest), UNCHANGED <<bridgeVars, stage>>,
         \A m \in Motors : \/ Concerns(Head(todo), m) \/ LeavesAlone(rest, m)
                           \/ EndsStopped(rest, m)
  PROVE  MotorsInv'
<1>1. todo \in Seq(Statements) /\ Tail(todo) \in Seq(Statements)
  BY AfterFirst DEF MotorsInv
<1>2. todo' = rest \o Tail(todo) /\ duty' = duty /\ stage' = "run"
  BY DEF Proceed, bridgeVars
<1>3. ASSUME NEW m \in Motors
      PROVE  WillStand(todo', duty', m)
  <2>1. WillStand(todo, duty, m)
    BY DEF MotorsInv
  <2>2. CASE Concerns(Head(todo), m) \/ LeavesAlone(rest, m)
    BY <1>1, <1>2, <2>1, <2>2, ReplacedFirst
  <2>3. CASE EndsStopped(rest, m)
    <3>1. EndsStopped(Tail(todo), m) \/ LeavesAlone(Tail(todo), m)
      BY <1>1, <2>1, AfterFirst DEF WillStand
    <3> QED
      BY <1>1, <1>2, <2>3, <3>1, StoppedLast, StoppedThenAlone DEF WillStand
  <2> QED
    BY <2>2, <2>3
<1>4. todo' \in Seq(Statements)
  BY <1>1, <1>2
<1> QED
  BY <1>2, <1>3, <1>4 DEF MotorsInv

LEMMA TracksKeeps ==
  ASSUME MotorsInv, Tracks
  PROVE  MotorsInv'
<1> USE DEF MotorsInv
<1>1. CASE ConstructMotors
  BY <1>1 DEF ConstructMotors, bridgeVars
<1>2. CASE OpenSpi
  BY <1>2 DEF OpenSpi, bridgeVars
<1>3. CASE ReadChannels(Channels)
  <2>1. todo' = Script \o Round /\ duty' = duty /\ stage' = "run"
    BY <1>3 DEF ReadChannels, bridgeVars
  <2>2. todo' \in Seq(Statements)
    BY <2>1, ScriptStatements, RoundStops
  <2>3. \A m \in Motors : WillStand(todo', duty', m)
    BY <2>1, ScriptStatements, RoundStops, StoppedLast DEF WillStand
  <2> QED
    BY <2>1, <2>2, <2>3
<1>4. CASE WriteStep
  BY <1>4, WriteStepKeeps
<1>5. CASE Waits
  <2>1. /\ stage = "run" /\ todo # <<>> /\ Head(todo).do # "pwm"
        /\ Proceed(<<>>) /\ UNCHANGED <<bridgeVars, stage>>
    BY <1>5 DEF Waits
  <2> QED
    BY <2>1, NothingStatements, ReplacementKeeps
<1>6. CASE Steers
  <2>1. PICK reading \in Readings :
          Proceed(TurnBy(Head(todo).motor, directionValue(read(reading))))
    BY <1>6 DEF Steers
  <2> DEFINE n == Head(todo).motor
             rest == TurnBy(n, directionValue(read(reading)))
  <2>2. /\ stage = "run" /\ todo # <<>> /\ Head(todo).do = "steer"
        /\ UNCHANGED <<bridgeVars, stage>>
    BY <1>6 DEF Steers
  <2>3. n \in Motors
    BY <2>2, AfterFirst DEF Statements, AllStatements
  <2>4. directionValue(read(reading)) \in -100..100
    <3>1. reading \in TenBits
      BY ReadingOfTenBits, Zenon
    <3>2. PICK v : v = directionValue(read(reading))
      OBVIOUS
    <3>3. Percentage(reading, v)
      BY <3>1, <3>2, DirectionOfReading, Zenon
    <3>4. v \in -100..100
      BY <3>3 DEF Percentage
    <3> QED
      BY <3>2, <3>4, Zenon
  <2>5. rest \in Seq(Statements) /\ \A m \in Motors \ {n} : LeavesAlone(rest, m)
    BY <2>3, <2>4, TurnByStatements
  <2>6. Concerns(Head(todo), n)
    BY <2>2 DEF Concerns
  <2>7. \A m \in Motors : Concerns(Head(todo), m) \/ LeavesAlone(rest, m)
    BY <2>5, <2>6
  <2>8. Proceed(rest) /\ Head(todo).do # "pwm"
    BY <2>1, <2>2
  <2> HIDE DEF rest
  <2> QED
    BY <2>2, <2>5, <2>7, <2>8, ReplacementKeeps
<1>7. CASE Checks
  <2>1. PICK rest \in {standby, Round} : Proceed(rest)
    BY <1>7 DEF Checks
  <2>2. /\ stage = "run" /\ todo # <<>> /\ Head(todo).do # "pwm"
        /\ UNCHANGED <<bridgeVars, stage>>
    BY <1>7 DEF Checks
  <2>3. /\ rest \in Seq(Statements)
        /\ \A m \in Motors : LeavesAlone(rest, m) \/ EndsStopped(rest, m)
    BY OtherStatements, RoundStops
  <2> QED
    BY <2>1, <2>2, <2>3, ReplacementKeeps
<1>8. CASE Returns
  <2>1. \A m \in Motors : duty[m] = 0
    BY <1>8 DEF Returns, WillStand, EndsStopped
  <2> QED
    BY <1>8, <2>1 DEF Returns, bridgeVars
<1>9. CASE Throws
  BY <1>9, NothingStatements DEF Throws, bridgeVars
<1>10. CASE Destroys
  BY <1>10 DEF Destroys, bridgeVars
<1> QED
  BY <1>1, <1>2, <1>3, <1>4, <1>5, <1>6, <1>7, <1>8, <1>9, <1>10
     DEF Tracks, ControllerStep

TrackerInv == MotorsInv /\ GpioInv

PartVars == <<bridgeVars, stage, todo, spi, seen>>

(* Only the tracker's own steps touch the motors.                          *)
LEMMA OthersLeaveMotors ==
  ASSUME [Next]_vars, ~Tracks
  PROVE  UNCHANGED PartVars
<1> USE DEF PartVars, controllerVars
<1>1. CASE ParseOptions \/ Runs \/ PrintsHelp \/ PrintsVersion \/ Refuses
  BY <1>1 DEF ParseOptions, Runs, PrintsHelp, PrintsVersion, Refuses, partsUnchanged
<1>2. CASE ServerStep
  BY <1>2 DEF ServerStep, Detects, CannotDetect, Serves, ServerEnds, partsUnchanged
<1>3. CASE TrackerStep
  BY <1>3 DEF TrackerStep, gpioInitialise, CannotInitialise, Asserts, gpioTerminate,
              partsUnchanged
<1>4. CASE GtkStep
  BY <1>4 DEF GtkStep, Constructs, LacksWidget, ListsCameras, RunThrows, WindowCloses,
              partsUnchanged
<1>5. CASE QtStep
  BY <1>5 DEF QtStep, Shown, QtExits, partsUnchanged
<1>6. CASE UNCHANGED vars
  BY <1>6 DEF vars
<1> QED
  BY <1>1, <1>2, <1>3, <1>4, <1>5, <1>6 DEF Next

LEMMA MotorsStep ==
  ASSUME MotorsInv, [Next]_vars
  PROVE  MotorsInv'
<1>1. CASE Tracks
  BY <1>1, TracksKeeps
<1>2. CASE ~Tracks
  <2>1. UNCHANGED PartVars
    BY <1>2, OthersLeaveMotors
  <2>2. UNCHANGED <<todo, duty, stage>>
    BY <2>1 DEF PartVars, bridgeVars
  <2> QED
    BY <2>2 DEF MotorsInv, WillStand
<1> QED
  BY <1>1, <1>2

LEMMA GpioStep ==
  ASSUME GpioInv, [Next]_vars
  PROVE  GpioInv'
<1> USE DEF GpioInv
<1>1. CASE ParseOptions \/ Runs \/ PrintsHelp \/ PrintsVersion \/ Refuses
  BY <1>1 DEF ParseOptions, Runs, PrintsHelp, PrintsVersion, Refuses, Exits, Leaves,
              partsUnchanged, controllerVars
<1>2. CASE ServerStep
  BY <1>2 DEF ServerStep, Detects, CannotDetect, Serves, ServerEnds, IsRunning, Exits,
              Leaves, partsUnchanged, controllerVars, mainVars
<1>3. CASE gpioInitialise \/ CannotInitialise \/ Asserts \/ gpioTerminate
  BY <1>3 DEF gpioInitialise, CannotInitialise, Asserts, gpioTerminate, IsRunning,
              Exits, Leaves, partsUnchanged, controllerVars
<1>4. CASE Tracks
  <2>1. UNCHANGED <<program, at, status, gpio>> /\ gpio
    BY <1>4 DEF Tracks, mainVars
  <2>2. CASE ControllerStep(Channels)
    BY <2>1, <2>2 DEF ControllerStep, ConstructMotors, OpenSpi, ReadChannels, WriteStep,
                      Waits, Steers, Checks, Returns
  <2>3. CASE Throws \/ Destroys
    BY <2>1, <2>3 DEF Throws, Destroys
  <2> QED
    BY <1>4, <2>2, <2>3 DEF Tracks
<1>5. CASE GtkStep
  BY <1>5 DEF GtkStep, Constructs, LacksWidget, ListsCameras, RunThrows, WindowCloses,
              IsRunning, Exits, Leaves, partsUnchanged, controllerVars
<1>6. CASE QtStep
  BY <1>6 DEF QtStep, Shown, QtExits, IsRunning, Exits, Leaves, partsUnchanged,
              controllerVars, mainVars
<1>7. CASE UNCHANGED vars
  BY <1>7 DEF vars, mainVars, controllerVars
<1> QED
  BY <1>1, <1>2, <1>3, <1>4, <1>5, <1>6, <1>7 DEF Next, TrackerStep

(* rckam-tracker, for any readings of the joystick and any command line:   *)
(* however it ends but by an assertion, the SPI is closed and pigpio       *)
(* terminated; and once the joystick has ended run, no motor is driven.    *)
(* After an exception it says nothing of the motors: they stay as they were*)
(* driven.                                                                 *)
THEOREM NothingLeftRunning == Spec => []LeavesNothingRunning
<1>1. Init => TrackerInv
  BY NothingStatements
     DEF Init, ControllerInit, BridgeInit, TrackerInv, MotorsInv, GpioInv
<1>2. TrackerInv /\ [Next]_vars => TrackerInv'
  BY MotorsStep, GpioStep DEF TrackerInv
<1>3. TrackerInv => LeavesNothingRunning
  BY DEF TrackerInv, MotorsInv, GpioInv, LeavesNothingRunning, IsDriven, Running, Aborted
<1> QED
  BY <1>1, <1>2, <1>3, PTL DEF Spec

-----------------------------------------------------------------------------
(* Controller::run moves the motors as it should: whatever it has still to *)
(* execute, each sleep in it will find the bridge as it is to be. A sleep  *)
(* with more behind it than a turn of the loop is one of the script.       *)

Level(p, m) == IF p = "in1" THEN in1[m] ELSE IF p = "in2" THEN in2[m] ELSE duty[m]

Heads(s, i, m, d, percent) ==
  /\ Will(s, i, "in1", m, d, Level("in1", m))
  /\ Will(s, i, "in2", m, (d + 1) % 2, Level("in2", m))
  /\ Will(s, i, "pwm", m, percent, Level("pwm", m))

HeadsBy(s, i, m, v) ==
  Heads(s, i, m, IF v < 0 THEN CCW ELSE CW, IF v < 0 THEN -v ELSE v)

Looped(s, i, m) ==
  \/ Pending(s, i, m)
  \/ ~Steered(s, i, m) /\ HeadsBy(s, i, m, directionValue(read(seen[m])))

Scripted(s, i) ==
  \E m \in Motors, d \in Directions :
    /\ Heads(s, i, m, d, 50)
    /\ \A n \in Motors \ {m} : Will(s, i, "pwm", n, 0, Level("pwm", n))

SleepsInv ==
  stage = "run" =>
    \A i \in 1..Len(todo) : todo[i].do = "sleep" =>
      /\ todo[Len(todo)].do = "check"
      /\ Len(todo) - i >= 11 => Scripted(todo, i)
      /\ Len(todo) - i < 11 => \A m \in Motors : Looped(todo, i, m)

CheckLast == \A i \in 1..Len(todo) : todo[i].do = "check" => i = Len(todo)

RestInv == stage \in {"none", "motors", "joystick"} => \A m \in Motors : duty[m] = 0

Constructed == stage \in {"none", "motors", "joystick", "run", "returned", "thrown", "over"}

LoopInv ==
  /\ BridgeTypeOK /\ Constructed
  /\ seen \in [Motors -> Readings \cup {neutralValue}]
  /\ SleepsInv /\ CheckLast /\ RestInv

(* The statements behind the first one keep their distance to the end.     *)
LEMMA SleepsReplaced ==
  ASSUME MotorsInv, SleepsInv, CheckLast,
         stage = "run", stage' = "run", todo # <<>>, Head(todo).do # "check",
         NEW rest \in Seq(Statements),
         \A j \in 1..Len(rest) : rest[j].do \in MotorPins,
         todo' = rest \o Tail(todo),
         \A i \in 2..Len(todo) :
           Scripted(todo, i) => Scripted(todo, Len(rest) + i - 1)',
         \A i \in 2..Len(todo) : \A m \in Motors :
           Looped(todo, i, m) => Looped(todo, Len(rest) + i - 1, m)'
  PROVE  SleepsInv' /\ CheckLast' /\ RestInv'
<1>1. /\ todo \in Seq(Statements) /\ todo' \in Seq(Statements)
      /\ Len(todo') = Len(rest) + Len(todo) - 1
      /\ Len(rest) \in Nat /\ Len(todo) \in Nat \ {0}
      /\ \A j \in 2..Len(todo) : todo'[Len(rest) + j - 1] = todo[j]
  BY PositionsReplaced DEF MotorsInv
<1>2. ASSUME NEW k \in 1..Len(todo'), todo'[k].do \in {"sleep", "check"}
      PROVE  \E j \in 2..Len(todo) : k = Len(rest) + j - 1 /\ todo'[k] = todo[j]
  <2>1. CASE k <= Len(rest)
    <3>1. k \in 1..Len(rest) /\ todo'[k] = rest[k]
      BY <1>1, <2>1, PositionsReplaced
    <3> QED
      BY <1>2, <3>1 DEF MotorPins
  <2>2. CASE k > Len(rest)
    <3>1. k - Len(rest) + 1 \in 2..Len(todo) /\ k = Len(rest) + (k - Len(rest) + 1) - 1
      BY <1>1, <2>2
    <3> QED
      BY <1>1, <3>1
  <2> QED
    BY <1>1, <2>1, <2>2
<1>3. ASSUME NEW k \in 1..Len(todo'), todo'[k].do = "sleep"
      PROVE  /\ todo'[Len(todo')].do = "check"
             /\ Len(todo') - k >= 11 => Scripted(todo, k)'
             /\ Len(todo') - k < 11 => \A m \in Motors : Looped(todo, k, m)'
  <2>1. PICK j \in 2..Len(todo) : k = Len(rest) + j - 1 /\ todo'[k] = todo[j]
    BY <1>2, <1>3
  <2>2. /\ j \in 1..Len(todo) /\ Len(todo') - k = Len(todo) - j
        /\ Len(todo) \in 2..Len(todo) /\ Len(todo') = Len(rest) + Len(todo) - 1
    BY <1>1, <2>1
  <2>3. /\ todo[Len(todo)].do = "check"
        /\ Len(todo) - j >= 11 => Scripted(todo, j)
        /\ Len(todo) - j < 11 => \A m \in Motors : Looped(todo, j, m)
    BY <1>3, <2>1, <2>2 DEF SleepsInv
  <2>4. todo'[Len(todo')] = todo[Len(todo)]
    BY <1>1, <2>2
  <2>5. Scripted(todo, j) => Scripted(todo, k)'
    BY <2>1
  <2>6. \A m \in Motors : Looped(todo, j, m) => Looped(todo, k, m)'
    BY <2>1
  <2> QED
    BY <2>2, <2>3, <2>4, <2>5, <2>6
<1>4. ASSUME NEW k \in 1..Len(todo'), todo'[k].do = "check"
      PROVE  k = Len(todo')
  <2>1. PICK j \in 2..Len(todo) : k = Len(rest) + j - 1 /\ todo'[k] = todo[j]
    BY <1>2, <1>4
  <2>2. j \in 1..Len(todo)
    BY <1>1, <2>1
  <2>3. j = Len(todo)
    BY <1>4, <2>1, <2>2 DEF CheckLast
  <2> QED
    BY <1>1, <2>1, <2>3
<1>5. SleepsInv'
  BY <1>3 DEF SleepsInv
<1> QED
  BY <1>4, <1>5 DEF CheckLast, RestInv

(* If what will be written to the pins remains so, what will be done to    *)
(* the motors does.                                                        *)
LEMMA ScriptedKept ==
  ASSUME NEW i, NEW k, Scripted(todo, i),
         \A p \in MotorPins, m \in Motors : \A v :
           Will(todo, i, p, m, v, Level(p, m)) => Will(todo, k, p, m, v, Level(p, m))'
  PROVE  Scripted(todo, k)'
<1>1. PICK m \in Motors, d \in Directions :
        /\ Heads(todo, i, m, d, 50)
        /\ \A n \in Motors \ {m} : Will(todo, i, "pwm", n, 0, Level("pwm", n))
  BY DEF Scripted
<1>2. "in1" \in MotorPins /\ "in2" \in MotorPins /\ "pwm" \in MotorPins
  BY DEF MotorPins
<1>3. Heads(todo, k, m, d, 50)'
  BY <1>1, <1>2 DEF Heads
<1>4. \A n \in Motors \ {m} : Will(todo, k, "pwm", n, 0, Level("pwm", n))'
  BY <1>1, <1>2
<1> QED
  BY <1>3, <1>4 DEF Scripted

LEMMA HeadsKept ==
  ASSUME NEW i, NEW k, NEW m \in Motors, NEW d, NEW percent,
         Heads(todo, i, m, d, percent),
         \A p \in MotorPins, n \in Motors : \A v :
           Will(todo, i, p, n, v, Level(p, n)) => Will(todo, k, p, n, v, Level(p, n))'
  PROVE  Heads(todo, k, m, d, percent)'
<1>1. "in1" \in MotorPins /\ "in2" \in MotorPins /\ "pwm" \in MotorPins
  BY DEF MotorPins
<1> QED
  BY <1>1 DEF Heads

(* A statement that steers nothing is executed: it is a write, or changes  *)
(* nothing.                                                                *)
LEMMA PopKeepsLoop ==
  ASSUME MotorsInv, LoopInv, stage = "run", stage' = "run", todo # <<>>,
         Head(todo).do \notin {"check", "steer"},
         todo' = <<>> \o Tail(todo), seen' = seen,
         \/ WriteDone(Head(todo)) /\ Head(todo).do \in Pins
         \/ UNCHANGED bridgeVars /\ Head(todo).do \notin MotorPins
  PROVE  LoopInv'
<1> DEFINE first == Head(todo)
<1>1. /\ todo \in Seq(Statements) /\ first \in Statements
      /\ <<>> \in Seq(Statements) /\ Len(<<>>) = 0
      /\ first.motor \in Motors /\ first.value \in 0..100
      /\ first.do \in Levels => first.value \in {0, 1}
  <2>1. todo \in Seq(Statements) /\ first \in Statements
    BY AfterFirst DEF MotorsInv
  <2>2. <<>> \in Seq(Statements) /\ Len(<<>>) = 0
    OBVIOUS
  <2> HIDE DEF first
  <2> QED
    BY <2>1, <2>2 DEF Statements, AllStatements
<1>2. BridgeTypeOK'
  BY <1>1 DEF LoopInv, BridgeTypeOK, WriteDone, bridgeVars, Levels
<1>3. ASSUME NEW i \in 2..Len(todo), NEW p \in MotorPins, NEW m \in Motors, NEW v,
             Will(todo, i, p, m, v, Level(p, m))
      PROVE  Will(todo, Len(<<>>) + i - 1, p, m, v, Level(p, m))'
  <2>1. Len(<<>>) + i - 1 = i - 1 /\ i \in Int
    BY <1>1
  <2>2. CASE WriteDone(first) /\ first.do \in Pins
    <3>1. Level(p, m)' = IF first.do = p /\ first.motor = m THEN first.value
                         ELSE Level(p, m)
      BY <1>1, <2>2 DEF WriteDone, Level, LoopInv, BridgeTypeOK, MotorPins
    <3> HIDE DEF first
    <3>2. Will(<<>> \o Tail(todo), i - 1, p, m, v, Level(p, m)')
      BY <1>1, <1>3, <2>2, <3>1, WillAfterWrite DEF first
    <3> QED
      BY <2>1, <3>2
  <2>3. CASE UNCHANGED bridgeVars /\ first.do \notin MotorPins
    <3>1. Level(p, m)' = Level(p, m)
      BY <2>3 DEF bridgeVars, Level
    <3>2. first.do # p /\ \A j \in 1..Len(<<>>) : ~Touches(<<>>[j], p, m)
      BY <1>1, <2>3
    <3>3. Will(<<>> \o Tail(todo), Len(<<>>) + i - 1, p, m, v, Level(p, m))
      BY <1>1, <1>3, <3>2, WillReplaced
    <3> QED
      BY <3>1, <3>3
  <2> QED
    BY <2>2, <2>3
<1>4. ASSUME NEW i \in 2..Len(todo), Scripted(todo, i)
      PROVE  Scripted(todo, Len(<<>>) + i - 1)'
  BY <1>3, <1>4, ScriptedKept
<1>5. ASSUME NEW i \in 2..Len(todo), NEW m \in Motors, Looped(todo, i, m)
      PROVE  Looped(todo, Len(<<>>) + i - 1, m)'
  <2>1. CASE Pending(todo, i, m)
    <3>1. Pending(<<>> \o Tail(todo), Len(<<>>) + i - 1, m)
      BY <1>1, <2>1, PendingReplaced
    <3> QED
      BY <3>1 DEF Looped
  <2>2. CASE ~Steered(todo, i, m) /\ HeadsBy(todo, i, m, directionValue(read(seen[m])))
    <3>0. \A j \in 1..Len(<<>>) : <<>>[j].do # "steer"
      BY <1>1
    <3>1. ~Steered(<<>> \o Tail(todo), Len(<<>>) + i - 1, m)
      BY <1>1, <2>2, <3>0, UnsteeredReplaced
    <3>2. PICK v : v = directionValue(read(seen[m]))
      OBVIOUS
    <3>3. HeadsBy(todo, Len(<<>>) + i - 1, m, v)'
      BY <1>3, <2>2, <3>2, HeadsKept DEF HeadsBy
    <3>4. v = directionValue(read(seen[m]))'
      BY <3>2
    <3> QED
      BY <3>1, <3>3, <3>4 DEF Looped
  <2> QED
    BY <1>5, <2>1, <2>2 DEF Looped
<1>6. \A j \in 1..Len(<<>>) : <<>>[j].do \in MotorPins
  BY <1>1
<1>7. SleepsInv' /\ CheckLast' /\ RestInv'
  BY <1>1, <1>4, <1>5, <1>6, SleepsReplaced DEF LoopInv
<1> QED
  BY <1>2, <1>7 DEF LoopInv, Constructed

(* A motor is steered: what it is to do now follows from what was read.    *)
LEMMA SteerKeepsLoop ==
  ASSUME MotorsInv, LoopInv, Steers
  PROVE  LoopInv'
<1>1. PICK r \in Readings :
        /\ seen' = [seen EXCEPT ![Head(todo).motor] = r]
        /\ Proceed(TurnBy(Head(todo).motor, directionValue(read(r))))
  BY DEF Steers
<1>2. /\ stage = "run" /\ stage' = "run" /\ todo # <<>> /\ Head(todo).do = "steer"
      /\ UNCHANGED bridgeVars
  BY DEF Steers
<1>3. todo \in Seq(Statements) /\ Head(todo) \in Statements
  BY <1>2, AfterFirst DEF MotorsInv
<1>4. PICK m \in Motors : m = Head(todo).motor
  BY <1>3 DEF Statements, AllStatements
<1>5. PICK turn : turn = directionValue(read(r))
  OBVIOUS
<1>6. turn \in -20..20
  <2>1. r \in TenBits
    BY ReadingOfTenBits, Zenon
  <2>2. Percentage(r, turn)
    BY <1>5, <2>1, DirectionOfReading, Zenon
  <2> QED
    BY <2>2 DEF Percentage
<1>7. PICK d \in Directions, percent \in 0..100 :
        /\ d = (IF turn < 0 THEN CCW ELSE CW)
        /\ percent = (IF turn < 0 THEN -turn ELSE turn)
  <2>1. (IF turn < 0 THEN CCW ELSE CW) \in Directions
    BY DEF Directions
  <2>2. (IF turn < 0 THEN -turn ELSE turn) \in 0..100
    BY <1>6
  <2> QED
    BY <2>1, <2>2
<1>8. PICK rest \in Seq(Statements) : rest = Turning(m, d, percent)
  <2>1. Turns(Turning(m, d, percent), m, d, percent)
    BY TurningWrites, Zenon
  <2> QED
    BY <2>1, Zenon DEF Turns
<1>9. todo' = rest \o Tail(todo)
  <2>1. TurnBy(m, turn) = Turning(m, d, percent)
    BY <1>7, Zenon DEF TurnBy
  <2>2. Proceed(TurnBy(m, turn))
    BY <1>1, <1>4, <1>5, Zenon
  <2>3. Proceed(rest)
    BY <1>8, <2>1, <2>2, Zenon
  <2> QED
    BY <2>3, Zenon DEF Proceed
<1>10. /\ Len(rest) = 3
       /\ \A j \in 1..Len(rest) : rest[j].do \in MotorPins /\ rest[j].motor = m
  <2> DEFINE t == Turning(m, d, percent)
  <2>1. /\ Len(t) = 3
        /\ \A j \in 1..Len(t) : t[j].do \in MotorPins /\ t[j].motor = m
    BY TurningPins
  <2> HIDE DEF t
  <2>2. rest = t
    BY <1>8 DEF t
  <2> QED
    BY <2>1, <2>2, Zenon
<1>11. ASSUME NEW p, NEW n
       PROVE  Level(p, n)' = Level(p, n)
  BY <1>2 DEF Level, bridgeVars
<1>12. ASSUME NEW i \in 2..Len(todo), NEW p \in MotorPins, NEW n \in Motors, NEW v,
              Will(todo, i, p, n, v, Level(p, n))
       PROVE  Will(todo, Len(rest) + i - 1, p, n, v, Level(p, n))'
  <2>1. Head(todo).do # p
    BY <1>2 DEF MotorPins
  <2>2. \/ Touches(Head(todo), p, n)
        \/ \A j \in 1..Len(rest) : ~Touches(rest[j], p, n)
    BY <1>2, <1>4, <1>10 DEF Touches
  <2>3. Will(rest \o Tail(todo), Len(rest) + i - 1, p, n, v, Level(p, n))
    BY <1>2, <1>3, <1>12, <2>1, <2>2, WillReplaced
  <2> QED
    BY <1>9, <1>11, <2>3
<1>13. ASSUME NEW i \in 2..Len(todo), Scripted(todo, i)
       PROVE  Scripted(todo, Len(rest) + i - 1)'
  BY <1>12, <1>13, ScriptedKept
<1>14. seen' \in [Motors -> Readings \cup {neutralValue}]
         /\ seen'[m] = r /\ \A n \in Motors \ {m} : seen'[n] = seen[n]
  BY <1>1, <1>4 DEF LoopInv
<1>15. ASSUME NEW i \in 2..Len(todo), NEW n \in Motors, Looped(todo, i, n)
       PROVE  Looped(todo, Len(rest) + i - 1, n)'
  <2>1. CASE n # m /\ Pending(todo, i, n)
    <3>1. Pending(rest \o Tail(todo), Len(rest) + i - 1, n)
      BY <1>2, <1>3, <1>4, <2>1, PendingReplaced
    <3> QED
      BY <1>9, <3>1 DEF Looped
  <2>2. CASE n = m /\ Pending(todo, i, n)
    <3>1. \/ Pending(rest \o Tail(todo), Len(rest) + i - 1, m)
          \/ /\ ~Steered(rest \o Tail(todo), Len(rest) + i - 1, m)
             /\ Written(rest \o Tail(todo), Len(rest) + i - 1, "in1", m, d)
             /\ Written(rest \o Tail(todo), Len(rest) + i - 1, "in2", m, (d + 1) % 2)
             /\ Written(rest \o Tail(todo), Len(rest) + i - 1, "pwm", m, percent)
      BY <1>2, <1>3, <1>4, <1>8, <2>2, SteerReplaced
    <3>2. CASE Pending(rest \o Tail(todo), Len(rest) + i - 1, m)
      BY <1>9, <2>2, <3>2 DEF Looped
    <3>3. CASE /\ ~Steered(rest \o Tail(todo), Len(rest) + i - 1, m)
               /\ Written(rest \o Tail(todo), Len(rest) + i - 1, "in1", m, d)
               /\ Written(rest \o Tail(todo), Len(rest) + i - 1, "in2", m, (d + 1) % 2)
               /\ Written(rest \o Tail(todo), Len(rest) + i - 1, "pwm", m, percent)
      <4>1. Heads(todo, Len(rest) + i - 1, m, d, percent)'
        BY <1>9, <3>3 DEF Heads, Will
      <4>2. HeadsBy(todo, Len(rest) + i - 1, m, turn)'
        BY <1>7, <4>1, Zenon DEF HeadsBy
      <4>3. directionValue(read(seen[m]))' = turn
        BY <1>5, <1>14
      <4>4. ~Steered(todo, Len(rest) + i - 1, m)'
        BY <1>9, <3>3
      <4> QED
        BY <2>2, <4>2, <4>3, <4>4 DEF Looped
    <3> QED
      BY <3>1, <3>2, <3>3
  <2>3. CASE ~Steered(todo, i, n) /\ HeadsBy(todo, i, n, directionValue(read(seen[n])))
    <3>1. n # m
      <4>1. 1 \in 1..(i - 1) /\ todo[1] = Head(todo)
        BY <1>2, <1>3, PositionsReplaced
      <4> QED
        BY <1>2, <1>4, <2>3, <4>1 DEF Steered
    <3>2. ~Steered(rest \o Tail(todo), Len(rest) + i - 1, n)
      <4>1. \A j \in 1..Len(rest) : rest[j].do # "steer"
        BY <1>10 DEF MotorPins
      <4> QED
        BY <1>2, <1>3, <2>3, <4>1, UnsteeredReplaced
    <3>3. PICK v : v = directionValue(read(seen[n]))
      OBVIOUS
    <3>4. HeadsBy(todo, Len(rest) + i - 1, n, v)'
      BY <1>12, <2>3, <3>3, HeadsKept DEF HeadsBy
    <3>5. directionValue(read(seen[n]))' = v
      BY <1>14, <3>1, <3>3
    <3> QED
      BY <1>9, <3>2, <3>4, <3>5 DEF Looped
  <2> QED
    BY <1>15, <2>1, <2>2, <2>3 DEF Looped
<1>16. SleepsInv' /\ CheckLast' /\ RestInv'
  BY <1>2, <1>9, <1>10, <1>13, <1>15, SleepsReplaced DEF LoopInv
<1>17. BridgeTypeOK'
  BY <1>2 DEF bridgeVars, BridgeTypeOK, LoopInv
<1> QED
  BY <1>2, <1>14, <1>16, <1>17 DEF LoopInv, Constructed

(* A new turn of the loop, or the end. *)
LEMMA CheckKeepsLoop ==
  ASSUME MotorsInv, LoopInv, Checks
  PROVE  LoopInv'
<1>1. PICK rest \in {standby, Round} : Proceed(rest)
  BY DEF Checks
<1>2. /\ stage = "run" /\ stage' = "run" /\ todo # <<>> /\ Head(todo).do = "check"
      /\ UNCHANGED bridgeVars
      /\ seen' = [m \in Motors |-> neutralValue]
  BY DEF Checks
<1>3. /\ todo \in Seq(Statements) /\ Tail(todo) \in Seq(Statements)
      /\ Len(todo) \in Nat \ {0} /\ todo[1] = Head(todo) /\ Len(Tail(todo)) = Len(todo) - 1
  BY <1>2 DEF MotorsInv
<1>4. Tail(todo) = <<>>
  <2>1. 1 \in 1..Len(todo) /\ todo[1].do = "check"
    BY <1>2, <1>3
  <2>2. Len(todo) = 1
    BY <2>1 DEF LoopInv, CheckLast
  <2>3. \A s \in Seq(Statements) : Len(s) = 0 => s = <<>>
    OBVIOUS
  <2>4. Len(Tail(todo)) = 0
    BY <1>3, <2>2
  <2> QED
    BY <1>3, <2>3, <2>4
<1>5. rest \in Seq(Statements)
  BY OtherStatements, RoundPositions
<1>6. todo' = rest
  <2>1. todo' = rest \o <<>>
    BY <1>1, <1>4, Zenon DEF Proceed
  <2>2. rest \o <<>> = rest
    BY <1>5
  <2> QED
    BY <2>1, <2>2, Zenon
<1>7. CASE rest = standby
  <2>1. standby = << Write("stby", PAN, 0) >>
    BY DEF standby
  <2>2. Write("stby", PAN, 0).do = "stby"
    BY DEF Write
  <2>3. Len(standby) = 1 /\ standby[1].do = "stby"
    BY <2>1, <2>2
  <2>4. \A k \in 1..Len(todo') : todo'[k].do = "stby"
    BY <1>6, <1>7, <2>3
  <2> QED
    BY <1>2, <2>4 DEF LoopInv, SleepsInv, CheckLast, RestInv, BridgeTypeOK, bridgeVars,
                      Constructed
<1>8. CASE rest = Round
  <2>1. \A k \in 1..Len(todo') :
          k = 1 \/ k = 2 \/ k = 3 \/ k = 4 \/ k \in 5..10 \/ k = 11
    BY <1>6, <1>8, RoundPositions
  <2>2. ASSUME NEW k \in 1..Len(todo'), todo'[k].do = "sleep"
        PROVE  k = 4
    BY <1>6, <1>8, <2>1, <2>2, RoundPositions
  <2>3. ASSUME NEW k \in 1..Len(todo'), todo'[k].do = "check"
        PROVE  k = Len(todo')
    BY <1>6, <1>8, <2>1, <2>3, RoundPositions
  <2>4. /\ Len(todo') = 11 /\ todo'[Len(todo')].do = "check"
        /\ \A m \in Motors : Looped(todo, 4, m)'
    BY <1>6, <1>8, RoundPositions, RoundSteers DEF Looped
  <2>5. SleepsInv'
    BY <2>2, <2>4 DEF SleepsInv
  <2>6. CheckLast' /\ RestInv'
    BY <1>2, <2>3 DEF CheckLast, RestInv
  <2> QED
    BY <1>2, <2>5, <2>6 DEF LoopInv, BridgeTypeOK, bridgeVars, Constructed
<1> QED
  BY <1>7, <1>8

(* run is called: the script comes before the first turn of the loop.      *)
LEMMA StartKeepsLoop ==
  ASSUME MotorsInv, LoopInv, ReadChannels(Channels)
  PROVE  LoopInv'
<1>1. /\ stage = "joystick" /\ stage' = "run" /\ todo' = Script \o Round
      /\ UNCHANGED bridgeVars /\ seen' = seen
  BY DEF ReadChannels
<1>2. \A m \in Motors : duty[m] = 0 /\ duty'[m] = 0
  BY <1>1 DEF LoopInv, RestInv, bridgeVars
<1>3. Script \in Seq(Statements) /\ Round \in Seq(Statements) /\ Len(Round) = 11
  BY ScriptPlaysWell, RoundPositions DEF PlaysWell
<1>4. /\ Len(Script \o Round) = Len(Script) + 11 /\ Len(Script) \in Nat
      /\ \A k \in 1..11 : (Script \o Round)[Len(Script) + k] = Round[k]
  <2>1. /\ Len(Script \o Round) = Len(Script) + Len(Round) /\ Len(Script) \in Nat
        /\ \A k \in 1..Len(Round) : (Script \o Round)[Len(Script) + k] = Round[k]
    BY <1>3, Joined, Zenon
  <2> QED
    BY <1>3, <2>1, Zenon
<1>5. ASSUME NEW k \in 1..Len(todo')
      PROVE  \/ k \in 1..Len(Script) /\ todo'[k] = Script[k]
             \/ \E j \in 1..11 : k = Len(Script) + j /\ todo'[k] = Round[j]
  <2>1. k \in 1..(Len(Script) + 11)
    BY <1>1, <1>4, Zenon
  <2>2. k \in 1..(Len(Script) + Len(Round))
    BY <1>3, <2>1, Zenon
  <2>3. \/ k \in 1..Len(Script) /\ (Script \o Round)[k] = Script[k]
        \/ \E j \in 1..Len(Round) : k = Len(Script) + j /\ (Script \o Round)[k] = Round[j]
    BY <1>3, <2>2, JoinedPosition, Zenon
  <2> QED
    BY <1>1, <1>3, <2>3, Zenon
<1>6. todo'[Len(todo')].do = "check"
  BY <1>1, <1>4, RoundPositions
<1>7. \A j \in 1..11 :
        /\ Round[j].do = "sleep" => j = 4
        /\ Round[j].do = "check" => j = 11
  <2>1. \A j \in 1..11 : j = 1 \/ j = 2 \/ j = 3 \/ j = 4 \/ j \in 5..10 \/ j = 11
    OBVIOUS
  <2> QED
    BY <2>1, RoundPositions
<1>8. ASSUME NEW k \in 1..Len(todo'), todo'[k].do = "sleep"
      PROVE  /\ Len(todo') - k >= 11 => Scripted(todo, k)'
             /\ Len(todo') - k < 11 => \A m \in Motors : Looped(todo, k, m)'
  <2>1. CASE k \in 1..Len(Script) /\ todo'[k] = Script[k]
    <3>0. Script[k].do = "sleep"
      BY <1>8, <2>1
    <3>1. Moving(Script, k) /\ k \in 1..(Len(Script) + 1)
      BY <1>4, <2>1, <3>0, ScriptPlaysWell DEF PlaysWell
    <3>2. Moving(Script \o Round, k)
      BY <1>3, <3>1, MovingBefore
    <3>3. Scripted(todo, k)'
      BY <1>1, <1>2, <3>2 DEF Moving, Scripted, Heads, Will, Level
    <3> QED
      BY <1>1, <1>4, <2>1, <3>3
  <2>2. CASE \E j \in 1..11 : k = Len(Script) + j /\ todo'[k] = Round[j]
    <3>1. k = Len(Script) + 4
      BY <1>7, <1>8, <2>2
    <3>2. ASSUME NEW m \in Motors
          PROVE  Pending(Script \o Round, Len(Script) + 4, m)
      <4>1. PICK j \in 1..(4 - 1) :
              /\ Round[j].do = "steer" /\ Round[j].motor = m
              /\ \A l \in (j + 1)..(4 - 1) : \A p \in Pins : ~Touches(Round[l], p, m)
        BY RoundSteers DEF Pending
      <4> DEFINE u == Script \o Round
      <4>2. /\ \A l \in 1..11 : u[Len(Script) + l] = Round[l]
            /\ Len(Script) \in Nat
        BY <1>4
      <4> HIDE DEF u
      <4>3. ASSUME NEW l \in (Len(Script) + j + 1)..(Len(Script) + 4 - 1), NEW p \in Pins
            PROVE  ~Touches(u[l], p, m)
        <5>1. l - Len(Script) \in (j + 1)..(4 - 1) /\ l - Len(Script) \in 1..11
                /\ l = Len(Script) + (l - Len(Script))
          <6>1. PICK length \in Nat : length = Len(Script)
            BY <4>2
          <6>2. l \in (length + j + 1)..(length + 4 - 1)
            BY <6>1
          <6> QED
            BY <6>1, <6>2
        <5>2. u[Len(Script) + (l - Len(Script))] = Round[l - Len(Script)]
          BY <4>2, <5>1
        <5> QED
          BY <4>1, <5>1, <5>2
      <4>4. Len(Script) + j \in 1..(Len(Script) + 4 - 1) /\ j \in 1..11
        <5>1. PICK length \in Nat : length = Len(Script)
          BY <4>2
        <5>2. length + j \in 1..(length + 4 - 1) /\ j \in 1..11
          OBVIOUS
        <5> QED
          BY <5>1, <5>2
      <4>5. Pending(u, Len(Script) + 4, m)
        <5>1. PICK q : q = Len(Script) + j
          OBVIOUS
        <5>2. u[q].do = "steer" /\ u[q].motor = m
          BY <4>1, <4>2, <4>4, <5>1
        <5>3. /\ q \in 1..(Len(Script) + 4 - 1)
              /\ \A l \in (q + 1)..(Len(Script) + 4 - 1) : \A p \in Pins : ~Touches(u[l], p, m)
          BY <4>3, <4>4, <5>1
        <5> QED
          BY <5>2, <5>3 DEF Pending
      <4> QED
        BY <4>5 DEF u
    <3> QED
      BY <1>1, <1>4, <3>1, <3>2 DEF Looped
  <2> QED
    BY <1>5, <2>1, <2>2
<1>9. ASSUME NEW k \in 1..Len(todo'), todo'[k].do = "check"
      PROVE  k = Len(todo')
  <2>1. ~(k \in 1..Len(Script) /\ todo'[k] = Script[k])
    BY <1>9, ScriptPlaysWell DEF PlaysWell
  <2>2. k = Len(Script) + 11
    BY <1>5, <1>7, <1>9, <2>1
  <2> QED
    BY <1>1, <1>4, <2>2
<1>10. SleepsInv'
  BY <1>6, <1>8 DEF SleepsInv
<1>11. CheckLast' /\ RestInv'
  BY <1>1, <1>9 DEF CheckLast, RestInv
<1> QED
  BY <1>1, <1>10, <1>11 DEF LoopInv, BridgeTypeOK, bridgeVars, Constructed

LEMMA TracksKeepLoop ==
  ASSUME MotorsInv, LoopInv, Tracks
  PROVE  LoopInv'
<1>1. CASE ConstructMotors \/ OpenSpi
  BY <1>1 DEF ConstructMotors, OpenSpi, LoopInv, BridgeTypeOK, bridgeVars, SleepsInv,
              CheckLast, RestInv, Constructed
<1>2. CASE ReadChannels(Channels)
  BY <1>2, StartKeepsLoop
<1>3. CASE WriteStep
  <2>1. /\ stage = "run" /\ stage' = "run" /\ todo # <<>> /\ seen' = seen
        /\ Head(todo).do \in Pins /\ todo' = <<>> \o Tail(todo)
        /\ WriteDone(Head(todo)) \/ (Head(todo).do = "stby" /\ UNCHANGED bridgeVars)
    BY <1>3 DEF WriteStep, Proceed
  <2>2. Head(todo).do \notin {"check", "steer"}
    BY <2>1 DEF Pins
  <2>3. \/ WriteDone(Head(todo)) /\ Head(todo).do \in Pins
        \/ UNCHANGED bridgeVars /\ Head(todo).do \notin MotorPins
    BY <2>1 DEF MotorPins
  <2> QED
    BY <2>1, <2>2, <2>3, PopKeepsLoop
<1>4. CASE Waits
  <2>1. /\ stage = "run" /\ stage' = "run" /\ todo # <<>> /\ seen' = seen
        /\ Head(todo).do \in {"sleep", "glance"} /\ todo' = <<>> \o Tail(todo)
        /\ UNCHANGED bridgeVars
    BY <1>4 DEF Waits, Proceed
  <2>2. Head(todo).do \notin {"check", "steer"} /\ Head(todo).do \notin MotorPins
    BY <2>1 DEF MotorPins
  <2> QED
    BY <2>1, <2>2, PopKeepsLoop
<1>5. CASE Steers
  BY <1>5, SteerKeepsLoop
<1>6. CASE Checks
  BY <1>6, CheckKeepsLoop
<1>7. CASE Returns
  BY <1>7 DEF Returns, LoopInv, BridgeTypeOK, bridgeVars, SleepsInv, CheckLast, RestInv,
              Constructed
<1>8. CASE Throws
  <2>1. Len(todo') = 0 /\ stage' = "thrown" /\ UNCHANGED <<in1, in2, duty, stby, seen>>
    BY <1>8 DEF Throws, bridgeVars
  <2> QED
    BY <2>1 DEF LoopInv, BridgeTypeOK, SleepsInv, CheckLast, RestInv, Constructed
<1>9. CASE Destroys
  BY <1>9 DEF Destroys, LoopInv, BridgeTypeOK, bridgeVars, SleepsInv, CheckLast, RestInv,
              Constructed
<1> QED
  BY <1>1, <1>2, <1>3, <1>4, <1>5, <1>6, <1>7, <1>8, <1>9 DEF Tracks, ControllerStep

ControllerInv == MotorsInv /\ LoopInv /\ spi \in BOOLEAN

LEMMA ControllerBegins == Init => ControllerInv
<1> SUFFICES ASSUME Init PROVE ControllerInv
  OBVIOUS
<1>1. /\ stage = "none" /\ todo = <<>> /\ spi = FALSE
      /\ seen = [m \in Motors |-> neutralValue]
      /\ in1 \in [Motors -> {0, 1}] /\ in2 \in [Motors -> {0, 1}]
      /\ duty = [m \in Motors |-> 0] /\ stby \in {0, 1}
  BY DEF Init, ControllerInit, BridgeInit
<1>2. <<>> \in Seq(Statements) /\ Len(<<>>) = 0
  OBVIOUS
<1>3. MotorsInv
  BY <1>1, <1>2 DEF MotorsInv
<1>4. LoopInv
  BY <1>1, <1>2 DEF LoopInv, BridgeTypeOK, SleepsInv, CheckLast, RestInv, Constructed
<1> QED
  BY <1>1, <1>3, <1>4 DEF ControllerInv

LEMMA ControllerKeeps ==
  ASSUME ControllerInv, [Next]_vars
  PROVE  ControllerInv'
<1>1. MotorsInv'
  BY MotorsStep DEF ControllerInv
<1>2. CASE Tracks
  <2>1. LoopInv'
    BY <1>2, TracksKeepLoop DEF ControllerInv
  <2>2. spi' \in BOOLEAN
    BY <1>2 DEF Tracks, ControllerStep, ConstructMotors, OpenSpi, ReadChannels, WriteStep,
                Waits, Steers, Checks, Returns, Throws, Destroys, ControllerInv
  <2> QED
    BY <1>1, <2>1, <2>2 DEF ControllerInv
<1>3. CASE ~Tracks
  <2>1. UNCHANGED <<in1, in2, duty, stby, stage, todo, spi, seen>>
    BY <1>3, OthersLeaveMotors DEF PartVars, bridgeVars
  <2> QED
    BY <1>1, <2>1 DEF ControllerInv, LoopInv, BridgeTypeOK, Constructed, CheckLast,
                      RestInv, SleepsInv, Scripted, Looped, HeadsBy, Heads, Level
<1> QED
  BY <1>2, <1>3

(* What is to be done to the motors before the first statement has been.   *)
LEMMA NothingBeforeFirst ==
  ASSUME NEW m, NEW p, NEW v, NEW x, Will(todo, 1, p, m, v, x)
  PROVE  x = v
BY DEF Will, Written

LEMMA HeadsNow ==
  ASSUME NEW m \in Motors, NEW d, NEW percent, Heads(todo, 1, m, d, percent)
  PROVE  in1[m] = d /\ in2[m] = (d + 1) % 2 /\ duty[m] = percent
<1>1. /\ Level("in1", m) = d /\ Level("in2", m) = (d + 1) % 2
      /\ Level("pwm", m) = percent
  BY NothingBeforeFirst DEF Heads
<1> QED
  BY <1>1 DEF Level

LEMMA SleepsAsTold ==
  ASSUME ControllerInv
  PROVE  MovesAsTold
<1> SUFFICES ASSUME stage = "run", todo # <<>>, Head(todo).do = "sleep"
             PROVE  IF InLoop
                    THEN \A m \in Motors :
                           IF Deflection(m) \in -115..115 THEN duty[m] = 0
                           ELSE /\ IsDriven(m) /\ duty[m] \in 5..20
                                /\ Way(m) * Deflection(m) > 0
                    ELSE \E m \in Motors :
                           IsDriven(m) /\ duty[m] = 50
                             /\ \A n \in Motors \ {m} : duty[n] = 0
  BY DEF MovesAsTold
<1>1. todo \in Seq(Statements) /\ todo[1] = Head(todo) /\ Len(todo) \in Nat \ {0}
  BY DEF ControllerInv, MotorsInv
<1>2. 1 \in 1..Len(todo) /\ todo[1].do = "sleep"
  BY <1>1
<1>3. /\ todo[Len(todo)].do = "check"
      /\ Len(todo) - 1 >= 11 => Scripted(todo, 1)
      /\ Len(todo) - 1 < 11 => \A m \in Motors : Looped(todo, 1, m)
  BY <1>2 DEF ControllerInv, LoopInv, SleepsInv
<1>4. InLoop <=> Len(todo) <= 11
  BY <1>3, RoundPositions DEF InLoop
<1>5. CASE Len(todo) <= 11
  <2>1. Len(todo) - 1 < 11
    BY <1>1, <1>5
  <2>2. ASSUME NEW m \in Motors
        PROVE  IF Deflection(m) \in -115..115 THEN duty[m] = 0
               ELSE /\ IsDriven(m) /\ duty[m] \in 5..20
                    /\ Way(m) * Deflection(m) > 0
    <3>1. Looped(todo, 1, m) /\ ~Pending(todo, 1, m)
      BY <1>3, <2>1 DEF Pending
    <3>2. PICK r \in TenBits : r = seen[m]
      <4>1. neutralValue = 512
        BY DEF neutralValue, maxValue
      <4>2. seen[m] \in Readings \cup {512}
        BY <4>1 DEF ControllerInv, LoopInv
      <4>3. seen[m] \in TenBits
        BY <4>2, ReadingOfTenBits, Zenon
      <4> QED
        BY <4>3, Zenon
    <3>3. PICK v : v = directionValue(read(r))
      OBVIOUS
    <3>4. HeadsBy(todo, 1, m, v)
      BY <3>1, <3>2, <3>3 DEF Looped
    <3>5. /\ v \in -20..20
          /\ r - 512 \in -115..115 => v = 0
          /\ r - 512 > 115 => v \in 5..20
          /\ r - 512 < -115 => v \in -20..-5
      <4>1. Percentage(r, v)
        BY <3>2, <3>3, DirectionOfReading, Zenon
      <4> QED
        BY <4>1, Zenon DEF Percentage
    <3>6. r \in 0..1023 /\ Deflection(m) = r - 512
      <4>1. r \in 0..1023
        BY DEF TenBits
      <4> QED
        BY <3>2, <4>1 DEF Deflection, neutralValue, maxValue
    <3>7. CASE v < 0
      <4>1. Heads(todo, 1, m, 0, -v)
        BY <3>4, <3>7 DEF HeadsBy, CCW
      <4>2. in1[m] = 0 /\ in2[m] = (0 + 1) % 2 /\ duty[m] = -v
        BY <4>1, HeadsNow
      <4>3. r - 512 < -115 /\ v \in -20..-5
        BY <3>5, <3>6, <3>7
      <4>4. Way(m) = -1 /\ IsDriven(m) /\ duty[m] \in 5..20
        BY <4>2, <4>3 DEF Way, IsDriven, Settled
      <4>5. Way(m) * Deflection(m) > 0
        BY <3>6, <4>3, <4>4
      <4> QED
        BY <3>6, <4>3, <4>4, <4>5
    <3>8. CASE ~(v < 0)
      <4>1. Heads(todo, 1, m, 1, v)
        BY <3>4, <3>8 DEF HeadsBy, CW
      <4>2. in1[m] = 1 /\ in2[m] = (1 + 1) % 2 /\ duty[m] = v
        BY <4>1, HeadsNow
      <4>3. CASE Deflection(m) \in -115..115
        BY <3>5, <3>6, <4>2, <4>3
      <4>4. CASE ~(Deflection(m) \in -115..115)
        <5>1. r - 512 > 115 /\ v \in 5..20
          BY <3>5, <3>6, <3>8, <4>4
        <5>2. Way(m) = 1 /\ IsDriven(m) /\ duty[m] \in 5..20
          BY <4>2, <5>1 DEF Way, IsDriven, Settled
        <5>3. Way(m) * Deflection(m) > 0
          BY <3>6, <5>1, <5>2
        <5> QED
          BY <4>4, <5>2, <5>3
      <4> QED
        BY <4>3, <4>4
    <3> QED
      BY <3>7, <3>8
  <2> QED
    BY <1>4, <1>5, <2>2
<1>6. CASE ~(Len(todo) <= 11)
  <2>1. Scripted(todo, 1)
    BY <1>1, <1>3, <1>6
  <2>2. PICK m \in Motors, d \in Directions :
          /\ Heads(todo, 1, m, d, 50)
          /\ \A n \in Motors \ {m} : Will(todo, 1, "pwm", n, 0, Level("pwm", n))
    BY <2>1 DEF Scripted
  <2>3. in1[m] = d /\ in2[m] = (d + 1) % 2 /\ duty[m] = 50
    BY <2>2, HeadsNow
  <2>4. IsDriven(m)
    BY <2>3 DEF IsDriven, Settled, Directions, CCW, CW
  <2>5. \A n \in Motors \ {m} : duty[n] = 0
    <3>1. \A n \in Motors \ {m} : Level("pwm", n) = 0
      BY <2>2, NothingBeforeFirst
    <3> QED
      BY <3>1 DEF Level
  <2> QED
    BY <1>4, <1>6, <2>3, <2>4, <2>5
<1> QED
  BY <1>5, <1>6

LEMMA ControllerTypes ==
  ASSUME ControllerInv
  PROVE  ControllerTypeOK
<1>1. todo \in Seq(AllStatements)
  <2>1. todo \in Seq(Statements) /\ Statements \subseteq AllStatements
    BY DEF ControllerInv, MotorsInv, Statements
  <2> QED
    BY <2>1
<1> QED
  BY <1>1 DEF ControllerInv, LoopInv, Constructed, ControllerTypeOK, AllStatements

(* Controller::run, for any readings of the joystick, any failure of a     *)
(* write and any number of turns of its loop: while it sleeps, the script  *)
(* turns one motor at half of the speed, and the loop each motor the way   *)
(* its stick is held, or not at all when it is held near the middle.       *)
THEOREM MotorsMoveAsTold == Spec => []MovesAsTold
<1>1. Init => ControllerInv
  BY ControllerBegins
<1>2. ControllerInv /\ [Next]_vars => ControllerInv'
  BY ControllerKeeps
<1>3. ControllerInv => MovesAsTold
  BY SleepsAsTold
<1> QED
  BY <1>1, <1>2, <1>3, PTL DEF Spec

-----------------------------------------------------------------------------
(* CaptureCard::detect. *)

LEMMA PrecedesIsOrder ==
  ASSUME NEW d \in Devices, NEW e \in Devices, NEW f \in Devices,
         Precedes(d, e), Precedes(e, f)
  PROVE  Precedes(d, f)
BY DevicesAssumption DEF Precedes

Answer(d) == [bus |-> d.bus, card |-> d.card]

Answers == {<<d, Answer(d)>> : d \in Devices}

(* A card holds the devices of its bus among those that have answered.     *)
IsGroup(card, ans) ==
  LET group == {a \in ToSet(ans) : a[2].bus = card.busInfo}
  IN  /\ IsSorted(card.devNodes, Precedes)
      /\ ToSet(card.devNodes) = {a[1] : a \in group}
      /\ \E a \in group : a[1] = card.devNodes[1] /\ a[2].card = card.card

AreGroups(cards, ans) ==
  /\ {cards[i].busInfo : i \in DOMAIN cards} = {ans[i][2].bus : i \in DOMAIN ans}
  /\ \A i, j \in DOMAIN cards : cards[i].busInfo = cards[j].busInfo => i = j
  /\ \A i \in DOMAIN cards : IsGroup(cards[i], ans)

LEMMA ToSetAppend ==
  ASSUME NEW S, NEW s \in Seq(S), NEW x \in S
  PROVE  /\ Append(s, x) \in Seq(S) /\ Len(Append(s, x)) = Len(s) + 1
         /\ Len(s) \in Nat
         /\ \A i \in 1..Len(s) : Append(s, x)[i] = s[i]
         /\ Append(s, x)[Len(s) + 1] = x
         /\ ToSet(Append(s, x)) = ToSet(s) \cup {x}
<1>1. /\ Append(s, x) \in Seq(S) /\ Len(Append(s, x)) = Len(s) + 1
      /\ Len(s) \in Nat
      /\ \A i \in 1..Len(s) : Append(s, x)[i] = s[i]
      /\ Append(s, x)[Len(s) + 1] = x
      /\ DOMAIN s = 1..Len(s) /\ DOMAIN Append(s, x) = 1..(Len(s) + 1)
  OBVIOUS
<1> DEFINE t == Append(s, x)
           n == Len(s)
<1> HIDE DEF t
<1>2. ToSet(t) = {t[i] : i \in 1..(n + 1)} /\ ToSet(s) = {s[i] : i \in 1..n}
  BY <1>1 DEF ToSet, t
<1>3. \A i \in 1..(n + 1) : i \in 1..n \/ i = n + 1
  BY <1>1
<1>4. n + 1 \in 1..(n + 1) /\ \A i \in 1..n : i \in 1..(n + 1)
  BY <1>1
<1>5. /\ \A i \in 1..n : t[i] = s[i]
      /\ t[n + 1] = x
  BY <1>1 DEF t
<1> HIDE DEF n
<1>6. ToSet(t) = ToSet(s) \cup {x}
  BY <1>2, <1>3, <1>4, <1>5
<1> QED
  BY <1>1, <1>6 DEF t

(* One more device answers, which comes behind those that have.            *)
LEMMA GroupGrows ==
  ASSUME NEW card \in Cards, NEW ans \in Seq(Answers), NEW d \in Devices,
         IsGroup(card, ans), card.busInfo = d.bus, card.devNodes # <<>>,
         \A a \in ToSet(ans) : Precedes(a[1], d)
  PROVE  IsGroup([card EXCEPT !.devNodes = Append(@, d)],
                 Append(ans, <<d, Answer(d)>>))
<1> DEFINE nodes == card.devNodes
           longer == Append(nodes, d)
           more == Append(ans, <<d, Answer(d)>>)
           new == [card EXCEPT !.devNodes = longer]
<1>1. nodes \in Seq(Devices) /\ <<d, Answer(d)>> \in Answers
  BY DEF Cards, Answers
<1>2. new.busInfo = card.busInfo /\ new.card = card.card /\ new.devNodes = longer
  BY DEF Cards
<1>3. /\ Len(longer) = Len(nodes) + 1 /\ Len(nodes) \in Nat \ {0}
      /\ \A i \in 1..Len(nodes) : longer[i] = nodes[i]
      /\ longer[Len(nodes) + 1] = d
      /\ ToSet(longer) = ToSet(nodes) \cup {d}
  <2>1. /\ Len(longer) = Len(nodes) + 1 /\ Len(nodes) \in Nat
        /\ \A i \in 1..Len(nodes) : longer[i] = nodes[i]
        /\ longer[Len(nodes) + 1] = d
        /\ ToSet(longer) = ToSet(nodes) \cup {d}
    BY <1>1, ToSetAppend
  <2>2. Len(nodes) # 0
    BY <1>1
  <2> QED
    BY <2>1, <2>2
<1>4. ToSet(more) = ToSet(ans) \cup {<<d, Answer(d)>>}
  BY <1>1, ToSetAppend
<1>5. Answer(d).bus = d.bus
  BY DEF Answer
<1> DEFINE group == {a \in ToSet(ans) : a[2].bus = card.busInfo}
           larger == {a \in ToSet(more) : a[2].bus = card.busInfo}
<1>6. /\ \A i, j \in 1..Len(nodes) : i < j => Precedes(nodes[i], nodes[j])
      /\ ToSet(nodes) = {a[1] : a \in group}
      /\ \E a \in group : a[1] = nodes[1] /\ a[2].card = card.card
  BY DEF IsGroup, IsSorted
<1>7. larger = group \cup {<<d, Answer(d)>>}
  BY <1>4, <1>5
<1> HIDE DEF longer, more, new
<1>8. \A i \in 1..Len(nodes) : Precedes(nodes[i], d)
  <2>1. \A i \in 1..Len(nodes) : nodes[i] \in ToSet(nodes)
    BY <1>1 DEF ToSet
  <2> QED
    BY <1>6, <2>1
<1> HIDE DEF nodes
<1>9. ASSUME NEW i \in 1..Len(longer), NEW j \in 1..Len(longer), i < j
      PROVE  Precedes(longer[i], longer[j])
  <2>1. i \in 1..Len(nodes)
    BY <1>3, <1>9
  <2>2. j \in 1..Len(nodes) \/ j = Len(nodes) + 1
    BY <1>3
  <2> QED
    BY <1>3, <1>6, <1>8, <1>9, <2>1, <2>2
<1>10. ToSet(longer) = {a[1] : a \in larger}
  <2>1. {a[1] : a \in larger} = {a[1] : a \in group} \cup {d}
    <3> DEFINE x == <<d, Answer(d)>>
    <3>1. x[1] = d /\ larger = group \cup {x}
      BY <1>7
    <3> HIDE DEF group, larger, x
    <3>2. \A y : y \in {a[1] : a \in larger} <=> \E a \in group \cup {x} : y = a[1]
      BY <3>1
    <3>3. \A y : y \in {a[1] : a \in group} \cup {d} <=> \E a \in group \cup {x} : y = a[1]
      BY <3>1
    <3> QED
      BY <3>2, <3>3
  <2> QED
    BY <1>3, <1>6, <2>1
<1>11. \E a \in larger : a[1] = longer[1] /\ a[2].card = card.card
  <2>1. longer[1] = nodes[1]
    BY <1>3
  <2> QED
    BY <1>6, <1>7, <2>1
<1>12. IsSorted(longer, Precedes)
  BY <1>9 DEF IsSorted
<1>13. IsGroup(new, more)
  BY <1>2, <1>10, <1>11, <1>12 DEF IsGroup
<1> QED
  BY <1>13 DEF new, more, longer, nodes

LEMMA GroupStays ==
  ASSUME NEW card \in Cards, NEW ans \in Seq(Answers), NEW d \in Devices,
         IsGroup(card, ans), card.busInfo # d.bus
  PROVE  IsGroup(card, Append(ans, <<d, Answer(d)>>))
<1>1. <<d, Answer(d)>> \in Answers
  BY DEF Answers
<1> DEFINE more == Append(ans, <<d, Answer(d)>>)
<1>2. ToSet(more) = ToSet(ans) \cup {<<d, Answer(d)>>}
  BY <1>1, ToSetAppend
<1>3. Answer(d).bus = d.bus
  BY DEF Answer
<1> HIDE DEF more
<1>4. {a \in ToSet(more) : a[2].bus = card.busInfo}
        = {a \in ToSet(ans) : a[2].bus = card.busInfo}
  BY <1>2, <1>3
<1> QED
  BY <1>4 DEF IsGroup, more

LEMMA GroupBegins ==
  ASSUME NEW ans \in Seq(Answers), NEW d \in Devices,
         \A a \in ToSet(ans) : a[2].bus # d.bus
  PROVE  IsGroup(NewCard(d, Answer(d)), Append(ans, <<d, Answer(d)>>))
<1> DEFINE more == Append(ans, <<d, Answer(d)>>)
           card == NewCard(d, Answer(d))
           one == <<d>>
<1>1. <<d, Answer(d)>> \in Answers
  BY DEF Answers
<1>2. ToSet(more) = ToSet(ans) \cup {<<d, Answer(d)>>}
  BY <1>1, ToSetAppend
<1>3. Answer(d).bus = d.bus /\ Answer(d).card = d.card
  BY DEF Answer
<1>4. card.busInfo = d.bus /\ card.card = d.card /\ card.devNodes = one
  BY <1>3 DEF NewCard
<1>5. Len(one) = 1 /\ one[1] = d /\ ToSet(one) = {d}
  BY DEF ToSet
<1> HIDE DEF more, card, one
<1>6. {a \in ToSet(more) : a[2].bus = d.bus} = {<<d, Answer(d)>>}
  BY <1>2, <1>3
<1>7. IsSorted(one, Precedes)
  BY <1>5 DEF IsSorted
<1>8. IsGroup(card, more)
  <2> DEFINE x == <<d, Answer(d)>>
             group == {a \in ToSet(more) : a[2].bus = card.busInfo}
  <2>1. x[1] = d /\ x[2] = Answer(d)
    OBVIOUS
  <2>2. group = {x}
    BY <1>4, <1>6
  <2> HIDE DEF x, group
  <2>3. {a[1] : a \in group} = {d}
    BY <2>1, <2>2
  <2>4. \E a \in group : a[1] = one[1] /\ a[2].card = card.card
    BY <1>3, <1>4, <1>5, <2>1, <2>2
  <2>5. /\ IsSorted(card.devNodes, Precedes)
        /\ ToSet(card.devNodes) = {a[1] : a \in group}
        /\ \E a \in group : a[1] = card.devNodes[1] /\ a[2].card = card.card
    BY <1>4, <1>5, <1>7, <2>3, <2>4
  <2> QED
    BY <2>5 DEF IsGroup, group
<1> QED
  BY <1>8 DEF card, more

(* The answer of a device is added to the cards there are.                 *)
LEMMA AddKeepsGroups ==
  ASSUME NEW cards \in Seq(Cards), NEW ans \in Seq(Answers), NEW d \in Devices,
         AreGroups(cards, ans),
         \A i \in DOMAIN cards : cards[i].devNodes # <<>>,
         \A a \in ToSet(ans) : Precedes(a[1], d)
  PROVE  LET new == Add(cards, d, Answer(d))
         IN  /\ new \in Seq(Cards)
             /\ \A i \in DOMAIN new : new[i].devNodes # <<>>
             /\ AreGroups(new, Append(ans, <<d, Answer(d)>>))
<1> DEFINE x == <<d, Answer(d)>>
           more == Append(ans, x)
           new == Add(cards, d, Answer(d))
           same == {i \in DOMAIN cards : cards[i].busInfo = d.bus}
           n == Len(cards)
<1>1. x \in Answers /\ x[2] = Answer(d) /\ Answer(d).bus = d.bus /\ Answer(d).card = d.card
  BY DEF Answers, Answer
<1>2. /\ Len(more) = Len(ans) + 1 /\ Len(ans) \in Nat
      /\ \A i \in 1..Len(ans) : more[i] = ans[i]
      /\ more[Len(ans) + 1] = x
      /\ DOMAIN more = 1..(Len(ans) + 1) /\ DOMAIN ans = 1..Len(ans)
  BY <1>1
<1>3. new = IF same = {} THEN Append(cards, NewCard(d, Answer(d)))
            ELSE [cards EXCEPT ![Min(same)].devNodes = Append(@, d)]
  BY <1>1 DEF Add
<1>4. DOMAIN cards = 1..n /\ n \in Nat /\ \A i \in 1..n : cards[i] \in Cards
  OBVIOUS
<1>5. /\ {cards[i].busInfo : i \in 1..n} = {ans[i][2].bus : i \in 1..Len(ans)}
      /\ \A i, j \in 1..n : cards[i].busInfo = cards[j].busInfo => i = j
      /\ \A i \in 1..n : IsGroup(cards[i], ans)
  BY <1>2, <1>4 DEF AreGroups
<1>6. {more[i][2].bus : i \in 1..(Len(ans) + 1)}
        = {ans[i][2].bus : i \in 1..Len(ans)} \cup {d.bus}
  <2>1. \A i \in 1..(Len(ans) + 1) : i \in 1..Len(ans) \/ i = Len(ans) + 1
    BY <1>2
  <2>2. Len(ans) + 1 \in 1..(Len(ans) + 1) /\ \A i \in 1..Len(ans) : i \in 1..(Len(ans) + 1)
    BY <1>2
  <2>3. more[Len(ans) + 1][2].bus = d.bus
    BY <1>1, <1>2
  <2> HIDE DEF more, x
  <2>4. \A y : y \in {more[i][2].bus : i \in 1..(Len(ans) + 1)}
                 <=> \E i \in 1..(Len(ans) + 1) : y = more[i][2].bus
    OBVIOUS
  <2>5. \A y : y \in {ans[i][2].bus : i \in 1..Len(ans)} \cup {d.bus}
                 <=> (\E i \in 1..Len(ans) : y = ans[i][2].bus) \/ y = d.bus
    OBVIOUS
  <2>6. \A y : (\E i \in 1..(Len(ans) + 1) : y = more[i][2].bus)
                 <=> ((\E i \in 1..Len(ans) : y = ans[i][2].bus) \/ y = d.bus)
    BY <1>2, <2>1, <2>2, <2>3
  <2> QED
    BY <2>4, <2>5, <2>6
<1> HIDE DEF new, same, n
<1>7. CASE same = {}
  <2> DEFINE card == NewCard(d, Answer(d))
  <2>1. card \in Cards /\ card.devNodes # <<>> /\ card.busInfo = d.bus
    BY <1>1 DEF NewCard, Cards
  <2>2. new = Append(cards, card)
    BY <1>3, <1>7
  <2>3. \A i \in 1..n : cards[i].busInfo # d.bus
    BY <1>4, <1>7 DEF same
  <2>4. IsGroup(card, more)
    <3>1. \A a \in ToSet(ans) : a[2].bus # d.bus
      <4>1. ASSUME NEW a \in ToSet(ans)
            PROVE  a[2].bus # d.bus
        <5>1. PICK i \in 1..Len(ans) : a = ans[i]
          BY <1>2 DEF ToSet
        <5>2. a[2].bus \in {cards[j].busInfo : j \in 1..n}
          BY <1>5, <5>1
        <5> QED
          BY <2>3, <5>2
      <4> QED
        BY <4>1
    <3> QED
      BY <3>1, GroupBegins
  <2> HIDE DEF card, more, x
  <2>5. /\ new \in Seq(Cards) /\ DOMAIN new = 1..(n + 1)
        /\ new[n + 1] = card /\ \A i \in 1..n : new[i] = cards[i]
    BY <1>4, <2>1, <2>2 DEF n
  <2>6. \A i \in 1..(n + 1) : i \in 1..n \/ i = n + 1
    BY <1>4
  <2>7. ASSUME NEW i \in 1..n
        PROVE  IsGroup(cards[i], more)
    BY <1>4, <1>5, <2>3, GroupStays DEF more, x
  <2>8. /\ \A i \in 1..(n + 1) : new[i].devNodes # <<>> /\ IsGroup(new[i], more)
        /\ \A i, j \in 1..(n + 1) : new[i].busInfo = new[j].busInfo => i = j
    <3>1. \A i \in 1..n : cards[i].devNodes # <<>>
      BY <1>4
    <3>2. ASSUME NEW i \in 1..(n + 1)
          PROVE  new[i].devNodes # <<>> /\ IsGroup(new[i], more)
      BY <2>1, <2>4, <2>5, <2>6, <2>7, <3>1
    <3>3. ASSUME NEW i \in 1..(n + 1), NEW j \in 1..(n + 1), new[i].busInfo = new[j].busInfo
          PROVE  i = j
      BY <1>5, <2>1, <2>3, <2>5, <2>6, <3>3
    <3> QED
      BY <3>2, <3>3
  <2>9. {new[i].busInfo : i \in 1..(n + 1)} = {more[i][2].bus : i \in 1..(Len(ans) + 1)}
    <3> DEFINE old == {cards[i].busInfo : i \in 1..n}
               all == {new[i].busInfo : i \in 1..(n + 1)}
    <3>1. n + 1 \in 1..(n + 1) /\ \A i \in 1..n : i \in 1..(n + 1)
      BY <1>4
    <3>2. \A i \in 1..(n + 1) : new[i].busInfo \in old \cup {d.bus}
      BY <2>1, <2>5, <2>6
    <3>3. \A i \in 1..n : cards[i].busInfo \in all
      BY <2>5, <3>1
    <3>4. d.bus \in all
      BY <2>1, <2>5, <3>1
    <3>5. all \subseteq old \cup {d.bus}
      <4> HIDE DEF old
      <4> QED
        BY <3>2
    <3>6. old \subseteq all
      <4> HIDE DEF all
      <4> QED
        BY <3>3
    <3>7. all = old \cup {d.bus}
      <4> HIDE DEF old, all
      <4> QED
        BY <3>4, <3>5, <3>6
    <3> QED
      BY <1>5, <1>6, <3>7
  <2>10. AreGroups(new, more)
    BY <1>2, <2>5, <2>8, <2>9 DEF AreGroups
  <2> QED
    BY <2>5, <2>8, <2>10 DEF new, more, x
<1>8. CASE same # {}
  <2>1. PICK k \in 1..n : cards[k].busInfo = d.bus
    BY <1>4, <1>8 DEF same
  <2>2. same = {k}
    BY <1>4, <1>5, <2>1 DEF same
  <2>3. Min(same) = k
    BY <2>2 DEF Min
  <2> DEFINE card == [cards[k] EXCEPT !.devNodes = Append(@, d)]
  <2>4. new = [cards EXCEPT ![k] = card]
    BY <1>3, <1>8, <2>3
  <2>5. cards[k] \in Cards /\ cards[k].devNodes \in Seq(Devices)
    BY <1>4 DEF Cards
  <2>6. /\ card \in Cards /\ card.busInfo = d.bus
        /\ card.devNodes = Append(cards[k].devNodes, d)
    <3>1. PICK c \in Cards : c = cards[k]
      BY <2>5
    <3>2. PICK longer \in Seq(Devices) : longer = Append(c.devNodes, d)
      BY <2>5, <3>1, ToSetAppend
    <3>3. card = [c EXCEPT !.devNodes = longer]
      BY <3>1, <3>2
    <3>4. /\ [c EXCEPT !.devNodes = longer] \in Cards
          /\ [c EXCEPT !.devNodes = longer].busInfo = c.busInfo
          /\ [c EXCEPT !.devNodes = longer].devNodes = longer
      BY DEF Cards
    <3> QED
      BY <2>1, <3>1, <3>2, <3>3, <3>4
  <2>7. card.devNodes # <<>>
    BY <2>5, <2>6
  <2>8. IsGroup(card, more)
    <3>1. cards[k].devNodes # <<>> /\ IsGroup(cards[k], ans)
      BY <1>4, <1>5
    <3> HIDE DEF n
    <3> QED
      BY <2>1, <2>5, <3>1, GroupGrows
  <2> HIDE DEF card, more, x
  <2>9. /\ new \in Seq(Cards) /\ DOMAIN new = 1..n
        /\ new[k] = card /\ \A i \in 1..n : i # k => new[i] = cards[i]
    BY <1>4, <2>4, <2>6 DEF n
  <2>10. ASSUME NEW i \in 1..n, i # k
         PROVE  IsGroup(cards[i], more)
    <3>1. cards[i].busInfo # d.bus
      BY <1>5, <2>1, <2>10
    <3> QED
      BY <1>4, <1>5, <3>1, GroupStays DEF more, x
  <2>11. \A i \in 1..n : new[i].busInfo = cards[i].busInfo
    BY <2>1, <2>6, <2>9
  <2>12. ASSUME NEW i \in 1..n
         PROVE  new[i].devNodes # <<>> /\ IsGroup(new[i], more)
    <3>1. cards[i].devNodes # <<>>
      BY <1>4
    <3> QED
      BY <2>7, <2>8, <2>9, <2>10, <3>1
  <2>13. {new[i].busInfo : i \in 1..n} = {more[i][2].bus : i \in 1..(Len(ans) + 1)}
    <3>1. {new[i].busInfo : i \in 1..n} = {cards[i].busInfo : i \in 1..n}
      BY <2>11
    <3>2. d.bus \in {cards[i].busInfo : i \in 1..n}
      BY <2>1
    <3> QED
      BY <1>5, <1>6, <3>1, <3>2
  <2>14. \A i, j \in 1..n : new[i].busInfo = new[j].busInfo => i = j
    BY <1>5, <2>11
  <2>15. AreGroups(new, more)
    BY <1>2, <2>9, <2>12, <2>13, <2>14 DEF AreGroups
  <2> QED
    BY <2>9, <2>12, <2>15 DEF new, more, x
<1> QED
  BY <1>7, <1>8

LEMMA SortedTail ==
  ASSUME NEW s \in Seq(Devices), s # <<>>
  PROVE  /\ Head(s) \in Devices /\ Tail(s) \in Seq(Devices)
         /\ Head(s) \in ToSet(s) /\ ToSet(Tail(s)) \subseteq ToSet(s)
         /\ IsSorted(s, Precedes) =>
              /\ IsSorted(Tail(s), Precedes)
              /\ \A d \in ToSet(Tail(s)) : Precedes(Head(s), d)
<1>1. /\ Head(s) \in Devices /\ Tail(s) \in Seq(Devices)
      /\ Len(Tail(s)) = Len(s) - 1 /\ Len(s) \in Nat \ {0}
      /\ \A i \in 1..Len(Tail(s)) : Tail(s)[i] = s[i + 1]
      /\ Head(s) = s[1]
      /\ DOMAIN s = 1..Len(s) /\ DOMAIN Tail(s) = 1..Len(Tail(s))
  OBVIOUS
<1> DEFINE t == Tail(s)
           h == Head(s)
<1> HIDE DEF t, h
<1>2. PICK n \in Nat : n = Len(t) /\ Len(s) = n + 1
  <2>1. PICK k \in Nat : Len(s) = k /\ k # 0
    BY <1>1
  <2>2. k - 1 \in Nat /\ k = (k - 1) + 1 /\ Len(t) = k - 1
    BY <1>1, <2>1 DEF t
  <2> QED
    BY <2>1, <2>2
<1>3. /\ 1 \in 1..(n + 1) /\ \A i \in 1..n : i + 1 \in 1..(n + 1) /\ 1 < i + 1
      /\ \A i, j \in 1..n : i < j => i + 1 < j + 1
  OBVIOUS
<1>4. h = s[1] /\ \A i \in 1..n : t[i] = s[i + 1]
  BY <1>1, <1>2 DEF t, h
<1>5. ToSet(s) = {s[i] : i \in 1..(n + 1)} /\ ToSet(t) = {t[i] : i \in 1..n}
  BY <1>1, <1>2 DEF ToSet, t
<1>6. h \in ToSet(s) /\ ToSet(t) \subseteq ToSet(s)
  BY <1>3, <1>4, <1>5
<1>7. ASSUME IsSorted(s, Precedes)
      PROVE  /\ IsSorted(t, Precedes)
             /\ \A d \in ToSet(t) : Precedes(h, d)
  <2>1. \A i, j \in 1..(n + 1) : i < j => Precedes(s[i], s[j])
    BY <1>2, <1>7 DEF IsSorted
  <2>2. \A i, j \in 1..n : i < j => Precedes(t[i], t[j])
    BY <1>3, <1>4, <2>1
  <2>3. \A i \in 1..n : Precedes(h, t[i])
    BY <1>3, <1>4, <2>1
  <2> QED
    BY <1>2, <1>5, <2>2, <2>3 DEF IsSorted
<1> QED
  BY <1>1, <1>6, <1>7 DEF t, h

LEMMA ArrangedDevices ==
  ASSUME NEW S \in SUBSET Devices, NEW s \in SetToSeqs(S)
  PROVE  s \in Seq(Devices)
<1>1. Cardinality(S) \in Nat
  BY DevicesAssumption, FS_Subset, FS_CardinalityType
<1> QED
  BY <1>1 DEF SetToSeqs

(* What is known of the devices and cards from Scan to the last Close: the *)
(* devices still to be asked are in order, and behind those that answered. *)
Asked == {"open", "query", "media", "close"}

Currents == [device : SUBSET Devices,
             answer : {<<>>} \cup {<<Answer(d)>> : d \in Devices}]

InOrderSoFar ==
  /\ \A i, j \in DOMAIN answered : i < j => Precedes(answered[i][1], answered[j][1])
  /\ detecting \in Asked =>
       /\ IsSorted(devices, Precedes)
       /\ \A a \in ToSet(answered), d \in ToSet(devices) : Precedes(a[1], d)

CardsInv ==
  /\ detecting \in {"no", "match"} \cup Asked
  /\ present \subseteq Devices
  /\ scan \in Seq(Devices) /\ devices \in Seq(Devices)
  /\ current \in Currents
  /\ answered \in Seq(Answers) /\ captureCards \in Seq(Cards)
  /\ \A i \in DOMAIN captureCards : captureCards[i].devNodes # <<>>
  /\ detecting \notin Asked => answered = <<>> /\ captureCards = <<>>
  /\ detecting \in Asked \ {"open"} => devices # <<>>
  /\ detecting = "close" => current.answer \in {<<>>, <<Answer(Head(devices))>>}
  /\ InOrderSoFar
  /\ AreGroups(captureCards, answered)

LEMMA AnsweredInOrder ==
  ASSUME NEW ans \in Seq(Answers), NEW d \in Devices,
         \A i, j \in DOMAIN ans : i < j => Precedes(ans[i][1], ans[j][1]),
         \A a \in ToSet(ans) : Precedes(a[1], d)
  PROVE  LET more == Append(ans, <<d, Answer(d)>>)
         IN  \A i, j \in DOMAIN more : i < j => Precedes(more[i][1], more[j][1])
<1>1. <<d, Answer(d)>> \in Answers
  BY DEF Answers
<1> DEFINE x == <<d, Answer(d)>>
           more == Append(ans, x)
<1>2. /\ DOMAIN ans = 1..Len(ans) /\ Len(ans) \in Nat
      /\ DOMAIN more = 1..(Len(ans) + 1)
      /\ \A i \in 1..Len(ans) : more[i] = ans[i]
      /\ more[Len(ans) + 1] = x
  BY <1>1
<1>3. x[1] = d
  OBVIOUS
<1>4. \A i \in 1..Len(ans) : Precedes(ans[i][1], d)
  BY <1>2 DEF ToSet
<1> HIDE DEF more, x
<1>5. PICK n \in Nat : n = Len(ans)
  BY <1>2
<1>6. ASSUME NEW i \in 1..(n + 1), NEW j \in 1..(n + 1), i < j
      PROVE  Precedes(more[i][1], more[j][1])
  <2>1. i \in 1..n /\ (j \in 1..n \/ j = n + 1)
    BY <1>6
  <2> QED
    BY <1>2, <1>3, <1>4, <1>5, <1>6, <2>1
<1> QED
  BY <1>2, <1>5, <1>6 DEF more, x

LEMMA CardsBegin == Init => CardsInv
<1> SUFFICES ASSUME CardsInit PROVE CardsInv
  BY DEF Init
<1>1. <<>> \in Seq(Devices) /\ <<>> \in Seq(Answers) /\ <<>> \in Seq(Cards)
  OBVIOUS
<1>2. current \in Currents
  BY DEF CardsInit, NoDevice, Currents
<1>3. DOMAIN captureCards = {} /\ DOMAIN answered = {} /\ detecting = "no"
  BY DEF CardsInit
<1>4. AreGroups(captureCards, answered)
  BY <1>3 DEF AreGroups
<1> QED
  BY <1>1, <1>2, <1>3, <1>4 DEF CardsInit, CardsInv, InOrderSoFar, Asked

LEMMA CloseKeepsCards ==
  ASSUME CardsInv, Close
  PROVE  CardsInv'
<1> DEFINE d == Head(devices)
<1>1. /\ detecting = "close" /\ detecting' = "open" /\ current' = NoDevice
      /\ devices' = Tail(devices) /\ UNCHANGED <<present, scan>>
  BY DEF Close
<1>2. /\ devices # <<>> /\ devices \in Seq(Devices)
      /\ answered \in Seq(Answers) /\ captureCards \in Seq(Cards)
      /\ \A i \in DOMAIN captureCards : captureCards[i].devNodes # <<>>
      /\ current.answer \in {<<>>, <<Answer(d)>>}
      /\ IsSorted(devices, Precedes)
      /\ AreGroups(captureCards, answered)
      /\ \A i, j \in DOMAIN answered : i < j => Precedes(answered[i][1], answered[j][1])
      /\ \A a \in ToSet(answered), e \in ToSet(devices) : Precedes(a[1], e)
  BY <1>1 DEF CardsInv, InOrderSoFar, Asked
<1>3. /\ d \in Devices /\ Tail(devices) \in Seq(Devices) /\ d \in ToSet(devices)
      /\ ToSet(Tail(devices)) \subseteq ToSet(devices)
      /\ IsSorted(Tail(devices), Precedes)
      /\ \A e \in ToSet(Tail(devices)) : Precedes(d, e)
  BY <1>2, SortedTail
<1>4. current' \in Currents
  BY <1>1 DEF NoDevice, Currents
<1> HIDE DEF d
<1> DEFINE Result(cards, ans) ==
      /\ ans \in Seq(Answers) /\ cards \in Seq(Cards)
      /\ \A i \in DOMAIN cards : cards[i].devNodes # <<>>
      /\ AreGroups(cards, ans)
      /\ \A i, j \in DOMAIN ans : i < j => Precedes(ans[i][1], ans[j][1])
      /\ \A a \in ToSet(ans), e \in ToSet(Tail(devices)) : Precedes(a[1], e)
<1>5. PICK newCards, newAns : newCards = captureCards' /\ newAns = answered'
  OBVIOUS
<1>6. ASSUME current.answer = <<>>
      PROVE  Result(newCards, newAns)
  <2>1. newCards = captureCards /\ newAns = answered
    BY <1>6, <1>5 DEF Close
  <2>2. Result(captureCards, answered)
    BY <1>2, <1>3
  <2> HIDE DEF Result
  <2> QED
    BY <2>1, <2>2
<1>7. ASSUME current.answer = <<Answer(d)>>
      PROVE  Result(newCards, newAns)
  <2> DEFINE x == <<d, Answer(d)>>
             cards == Add(captureCards, d, Answer(d))
             ans == Append(answered, x)
  <2>1. newCards = cards /\ newAns = ans
    BY <1>7, <1>5 DEF Close, d
  <2>2. \A a \in ToSet(answered) : Precedes(a[1], d)
    BY <1>2, <1>3
  <2>3. /\ cards \in Seq(Cards)
        /\ \A i \in DOMAIN cards : cards[i].devNodes # <<>>
        /\ AreGroups(cards, ans)
    BY <1>2, <1>3, <2>2, AddKeepsGroups
  <2>4. \A i, j \in DOMAIN ans : i < j => Precedes(ans[i][1], ans[j][1])
    BY <1>2, <1>3, <2>2, AnsweredInOrder
  <2>5. x \in Answers /\ x[1] = d
    BY <1>3 DEF Answers
  <2> HIDE DEF x
  <2>6. ans \in Seq(Answers) /\ ToSet(ans) = ToSet(answered) \cup {x}
    BY <1>2, <2>5, ToSetAppend
  <2> HIDE DEF ans, cards
  <2>7. \A a \in ToSet(ans), e \in ToSet(Tail(devices)) : Precedes(a[1], e)
    BY <1>2, <1>3, <2>5, <2>6
  <2>8. Result(cards, ans)
    BY <2>3, <2>4, <2>6, <2>7
  <2> HIDE DEF Result
  <2> QED
    BY <2>1, <2>8
<1>8. Result(newCards, newAns)
  <2> HIDE DEF Result
  <2> QED
    BY <1>2, <1>6, <1>7
<1> QED
  BY <1>1, <1>3, <1>4, <1>8, <1>5 DEF CardsInv, InOrderSoFar, Asked

LEMMA DetectKeepsCards ==
  ASSUME CardsInv, DetectStep \/ \E d \in Devices : Replug(d)
  PROVE  CardsInv'
<1>1. CASE \E d \in Devices : Replug(d)
  <2>1. /\ present' \subseteq Devices
        /\ UNCHANGED <<detecting, scan, devices, current, captureCards, answered>>
    BY <1>1 DEF Replug, CardsInv
  <2> QED
    BY <2>1 DEF CardsInv, InOrderSoFar
<1>2. CASE Scan
  <2>1. /\ scan' \in SetToSeqs(present) /\ detecting = "no" /\ detecting' = "match"
        /\ UNCHANGED <<present, devices, current, captureCards, answered>>
    BY <1>2 DEF Scan
  <2>2. scan' \in Seq(Devices)
    BY <2>1, ArrangedDevices DEF CardsInv
  <2> QED
    BY <2>1, <2>2 DEF CardsInv, InOrderSoFar, Asked
<1>3. CASE Match
  <2>1. /\ detecting = "match" /\ scan # <<>> /\ scan' = Tail(scan)
        /\ devices' \in {devices, Append(devices, Head(scan))}
        /\ UNCHANGED <<detecting, present, current, captureCards, answered>>
    BY <1>3 DEF Match
  <2>2. Head(scan) \in Devices /\ Tail(scan) \in Seq(Devices)
    BY <2>1, SortedTail DEF CardsInv
  <2>3. devices' \in Seq(Devices)
    <3>1. devices \in Seq(Devices)
      BY DEF CardsInv
    <3>2. Append(devices, Head(scan)) \in Seq(Devices)
      BY <2>2, <3>1
    <3> QED
      BY <2>1, <3>1, <3>2
  <2> QED
    BY <2>1, <2>2, <2>3 DEF CardsInv, InOrderSoFar, Asked
<1>4. CASE Sort
  <2>1. /\ detecting = "match" /\ detecting' = "open"
        /\ devices' \in SetToSeqs(ToSet(devices)) /\ IsSorted(devices', Precedes)
        /\ UNCHANGED <<present, scan, current, captureCards, answered>>
    BY <1>4 DEF Sort
  <2>2. ToSet(devices) \in SUBSET Devices /\ answered = <<>>
    BY <2>1 DEF CardsInv, ToSet, Asked
  <2>3. devices' \in Seq(Devices)
    BY <2>1, <2>2, ArrangedDevices
  <2>4. ToSet(answered') = {}
    BY <2>1, <2>2 DEF ToSet
  <2> QED
    BY <2>1, <2>3, <2>4 DEF CardsInv, InOrderSoFar, Asked
<1>5. CASE Open
  <2>1. /\ detecting = "open" /\ detecting' = "query" /\ devices # <<>>
        /\ current' = [device |-> {Head(devices)}, answer |-> <<>>]
        /\ UNCHANGED <<present, scan, devices, captureCards, answered>>
    BY <1>5 DEF Open
  <2>2. Head(devices) \in Devices
    BY <2>1, SortedTail DEF CardsInv
  <2>3. current' \in Currents
    BY <2>1, <2>2 DEF Currents
  <2> QED
    BY <2>1, <2>3 DEF CardsInv, InOrderSoFar, Asked
<1>6. CASE CannotOpen
  <2>1. /\ detecting = "open" /\ devices # <<>> /\ devices' = Tail(devices)
        /\ UNCHANGED <<detecting, present, scan, current, captureCards, answered>>
    BY <1>6 DEF CannotOpen
  <2>2. /\ Tail(devices) \in Seq(Devices) /\ IsSorted(Tail(devices), Precedes)
        /\ ToSet(Tail(devices)) \subseteq ToSet(devices)
    BY <2>1, SortedTail DEF CardsInv, InOrderSoFar, Asked
  <2> QED
    BY <2>1, <2>2 DEF CardsInv, InOrderSoFar, Asked
<1>7. CASE QueryCap \/ MediaInfo
  <2>1. PICK kind \in {"v4l2", "media"} :
          /\ current' = [current EXCEPT !.answer = Reply(kind)]
          /\ detecting \in Asked \ {"open"} /\ detecting' \in {"media", "close"}
          /\ UNCHANGED <<present, scan, devices, captureCards, answered>>
    BY <1>7 DEF QueryCap, MediaInfo, Asked
  <2>2. devices # <<>> /\ Head(devices) \in Devices
    BY <2>1, SortedTail DEF CardsInv
  <2>3. Reply(kind) \in {<<>>, <<Answer(Head(devices))>>}
    BY DEF Reply, Answer
  <2>4. PICK c \in Currents : c = current
    BY DEF CardsInv
  <2>5. PICK r \in {<<>>} \cup {<<Answer(d)>> : d \in Devices} :
          r = Reply(kind) /\ r \in {<<>>, <<Answer(Head(devices))>>}
    BY <2>2, <2>3
  <2>6. current' = [c EXCEPT !.answer = r]
    BY <2>1, <2>4, <2>5
  <2>7. [c EXCEPT !.answer = r] \in Currents /\ [c EXCEPT !.answer = r].answer = r
    BY DEF Currents
  <2> QED
    BY <2>1, <2>2, <2>5, <2>6, <2>7 DEF CardsInv, InOrderSoFar, Asked
<1>8. CASE Close
  BY <1>8, CloseKeepsCards
<1> QED
  BY <1>1, <1>2, <1>3, <1>4, <1>5, <1>6, <1>7, <1>8 DEF DetectStep

LEMMA OthersLeaveCards ==
  ASSUME [Next]_vars, ~Detects
  PROVE  UNCHANGED cardVars
<1> USE DEF cardVars
<1>1. CASE ParseOptions \/ Runs \/ PrintsHelp \/ PrintsVersion \/ Refuses
  BY <1>1 DEF ParseOptions, Runs, PrintsHelp, PrintsVersion, Refuses, partsUnchanged
<1>2. CASE ServerStep
  BY <1>2 DEF ServerStep, CannotDetect, Serves, ServerEnds, partsUnchanged
<1>3. CASE TrackerStep
  BY <1>3 DEF TrackerStep, gpioInitialise, CannotInitialise, Tracks, Asserts,
              gpioTerminate, partsUnchanged
<1>4. CASE GtkStep
  BY <1>4 DEF GtkStep, Constructs, LacksWidget, ListsCameras, RunThrows, WindowCloses,
              partsUnchanged
<1>5. CASE QtStep
  BY <1>5 DEF QtStep, Shown, QtExits, partsUnchanged
<1>6. CASE UNCHANGED vars
  BY <1>6 DEF vars
<1> QED
  BY <1>1, <1>2, <1>3, <1>4, <1>5, <1>6 DEF Next

LEMMA CardsKeep == CardsInv /\ [Next]_vars => CardsInv'
<1>1. ASSUME CardsInv, UNCHANGED cardVars PROVE CardsInv'
  BY <1>1 DEF CardsInv, InOrderSoFar, cardVars
<1>2. Detects => DetectStep \/ \E d \in Devices : Replug(d)
  BY DEF Detects
<1> QED
  BY <1>1, <1>2, DetectKeepsCards, OthersLeaveCards

LEMMA CardsTypes == CardsInv => CardsTypeOK
BY DEF CardsInv, CardsTypeOK, Currents, Asked

(* CaptureCard::detect, for any devices, in any order udev lists them, and *)
(* whatever is plugged and unplugged meanwhile: one card for each bus that *)
(* answered, with all of its devices once, in the order of their names.    *)
THEOREM CardsGrouped == Spec => []CardsAreGroups
<1>1. Init => CardsInv
  BY CardsBegin
<1>2. CardsInv /\ [Next]_vars => CardsInv'
  BY CardsKeep
<1>3. CardsInv => CardsAreGroups
  BY DEF CardsInv, InOrderSoFar, AreGroups, IsGroup, CardsAreGroups, OnBus
<1> QED
  BY <1>1, <1>2, <1>3, PTL DEF Spec

-----------------------------------------------------------------------------
(* The Qt client. The window exists from before the reader starts until    *)
(* after it has ended, because the main thread joins it in between.        *)

WindowInv ==
  /\ gui \in {"engine", "start", "exec", "closed", "failed", "join",
              "join, failed", "returned", "thrown"}
  /\ gui \in {"engine", "start"} => reader = "none"
  /\ gui \notin {"engine", "returned", "thrown"} => window
  /\ gui \in {"returned", "thrown"} => reader \in {"none", "ended"}

LEMMA ShownKeeps ==
  ASSUME WindowInv, Shown
  PROVE  WindowInv'
<1> USE DEF WindowInv
<1>1. CASE guiStep \/ CannotStart \/ Closes
  BY <1>1 DEF guiStep, LoadEngine, start, StopsLoader, Joins, DestroysEngine, CannotStart,
              Closes
<1>2. CASE readerStep
  <2>1. UNCHANGED <<gui, window>> /\ reader \notin {"none", "ended"}
    BY <1>2 DEF readerStep, ReadFile, TestStop, Takes, EndOfFile, ReadSize, Save, Shows,
                readerUnchanged, Reading
  <2> QED
    BY <2>1
<1>3. CASE Arrives \/ Breaks
  BY <1>3 DEF Arrives, Breaks
<1> QED
  BY <1>1, <1>2, <1>3 DEF Shown

LEMMA OthersLeaveQt ==
  ASSUME [Next]_vars, ~Shown
  PROVE  UNCHANGED qtVars
<1> USE DEF qtVars
<1>1. CASE ParseOptions \/ Runs \/ PrintsHelp \/ PrintsVersion \/ Refuses
  BY <1>1 DEF ParseOptions, Runs, PrintsHelp, PrintsVersion, Refuses, partsUnchanged
<1>2. CASE ServerStep
  BY <1>2 DEF ServerStep, Detects, CannotDetect, Serves, ServerEnds, partsUnchanged
<1>3. CASE TrackerStep
  BY <1>3 DEF TrackerStep, gpioInitialise, CannotInitialise, Tracks, Asserts,
              gpioTerminate, partsUnchanged
<1>4. CASE GtkStep
  BY <1>4 DEF GtkStep, Constructs, LacksWidget, ListsCameras, RunThrows, WindowCloses,
              partsUnchanged
<1>5. CASE QtExits
  BY <1>5 DEF QtExits, partsUnchanged
<1>6. CASE UNCHANGED vars
  BY <1>6 DEF vars
<1> QED
  BY <1>1, <1>2, <1>3, <1>4, <1>5, <1>6 DEF Next, QtStep

(* rckamGui, for any images, however they come: the preview that the reader *)
(* is about to draw into exists, whenever the window is closed.            *)
THEOREM ReaderHasPreview == Spec => []PreviewOutlivesReader
<1>1. Init => WindowInv
  BY DEF Init, QtInit, WindowInv
<1>2. WindowInv /\ [Next]_vars => WindowInv'
  <2>1. ASSUME WindowInv, UNCHANGED <<gui, window, reader>> PROVE WindowInv'
    BY <2>1 DEF WindowInv
  <2> QED
    BY <2>1, ShownKeeps, OthersLeaveQt DEF qtVars
<1>3. WindowInv => PreviewOutlivesReader
  BY DEF WindowInv, PreviewOutlivesReader
<1> QED
  BY <1>1, <1>2, <1>3, PTL DEF Spec

-----------------------------------------------------------------------------
(* What TCP delivers, and what the reader makes of it.                     *)

(* The n-th piece that comes after the images before i, counted from 0.    *)
Here(i, n) ==
  IF i \in DOMAIN Sizes /\ n = Sizes[i] + 2 THEN Piece(i + 1, -1) ELSE Piece(i, n - 1)

LEMMA SizesAre ==
  /\ DOMAIN Sizes = 1..Len(Sizes) /\ Len(Sizes) \in Nat
  /\ \A i \in DOMAIN Sizes : Sizes[i] \in Nat
BY SizesAssumption

LEMMA PieceIs ==
  ASSUME NEW i, NEW b
  PROVE  Piece(i, b).image = i /\ Piece(i, b).byte = b
BY DEF Piece

LEMMA PieceHas ==
  ASSUME NEW p \in Pieces
  PROVE  /\ p = Piece(p.image, p.byte)
         /\ p.image \in DOMAIN Sizes /\ p.byte \in -1..Sizes[p.image]
<1>1. PICK i \in DOMAIN Sizes : p \in {Piece(i, b) : b \in -1..Sizes[i]}
  BY DEF Pieces
<1>2. PICK b \in -1..Sizes[i] : p = Piece(i, b)
  BY <1>1
<1> QED
  BY <1>2, PieceIs

LEMMA IsPiece ==
  ASSUME NEW i \in DOMAIN Sizes, NEW b \in -1..Sizes[i]
  PROVE  Piece(i, b) \in Pieces
BY DEF Pieces

LEMMA AfterIsNext ==
  ASSUME NEW p \in Pieces
  PROVE  /\ After(p) \in Pieces \cup {End}
         /\ \A n \in Nat : p = Here(p.image, n) /\ n <= Sizes[p.image] + 1
              => After(p) = Here(p.image, n + 1)
<1> DEFINE i == p.image
           b == p.byte
<1>1. i \in DOMAIN Sizes /\ b \in -1..Sizes[i] /\ p = Piece(i, b)
  BY PieceHas
<1>2. p.image = i /\ p.byte = b
  OBVIOUS
<1>3. i \in Nat /\ Len(Sizes) \in Nat /\ DOMAIN Sizes = 1..Len(Sizes) /\ Sizes[i] \in Nat
  BY <1>1, SizesAre
<1> HIDE DEF i, b
<1>4. After(p) = IF b = Sizes[i] THEN Piece(i + 1, -1) ELSE Piece(i, b + 1)
  BY <1>2 DEF After
<1>5. After(p) \in Pieces \cup {End}
  <2>1. CASE b # Sizes[i]
    <3>1. b + 1 \in -1..Sizes[i]
      BY <1>1, <1>3, <2>1
    <3>2. Piece(i, b + 1) \in Pieces
      BY <1>1, <3>1, IsPiece
    <3> QED
      BY <1>4, <2>1, <3>2
  <2>2. CASE b = Sizes[i] /\ i = Len(Sizes)
    BY <1>4, <2>2 DEF End
  <2>3. CASE b = Sizes[i] /\ i # Len(Sizes)
    <3>1. i + 1 \in DOMAIN Sizes
      BY <1>1, <1>3, <2>3
    <3>2. -1 \in -1..Sizes[i + 1]
      BY <3>1, SizesAre
    <3>3. Piece(i + 1, -1) \in Pieces
      BY <3>1, <3>2, IsPiece
    <3> QED
      BY <1>4, <2>3, <3>3
  <2> QED
    BY <2>1, <2>2, <2>3
<1>6. ASSUME NEW n \in Nat, p = Here(p.image, n), n <= Sizes[p.image] + 1
      PROVE  After(p) = Here(p.image, n + 1)
  <2>1. p = Piece(i, n - 1)
    BY <1>1, <1>2, <1>3, <1>6 DEF Here
  <2>2. b = n - 1
    BY <1>2, <2>1, PieceIs
  <2>3. (b = Sizes[i] <=> n + 1 = Sizes[i] + 2) /\ b + 1 = (n + 1) - 1
    BY <1>3, <2>2
  <2>4. Here(i, n + 1) = IF b = Sizes[i] THEN Piece(i + 1, -1) ELSE Piece(i, b + 1)
    BY <1>1, <2>3 DEF Here
  <2> QED
    BY <1>2, <1>4, <2>4
<1> QED
  BY <1>5, <1>6

(* The pieces s in the socket, and then the piece c unless nothing more    *)
(* comes, are p and those after it.                                        *)
StreamFrom(p, s, c) ==
  /\ s # <<>> => s[1] = p
  /\ \A k \in 1..(Len(s) - 1) : s[k + 1] = After(s[k])
  /\ c # End => c = IF s = <<>> THEN p ELSE After(s[Len(s)])

LEMMA StreamArrives ==
  ASSUME NEW p, NEW s \in Seq(Pieces), NEW c \in Pieces, c # End, StreamFrom(p, s, c)
  PROVE  StreamFrom(p, Append(s, c), After(c))
<1> DEFINE t == Append(s, c)
<1>1. /\ Len(t) = Len(s) + 1 /\ Len(s) \in Nat /\ t # <<>>
      /\ \A k \in 1..Len(s) : t[k] = s[k]
      /\ t[Len(s) + 1] = c
      /\ s = <<>> <=> Len(s) = 0
  OBVIOUS
<1>2. /\ s # <<>> => s[1] = p
      /\ \A k \in 1..(Len(s) - 1) : s[k + 1] = After(s[k])
      /\ c = IF s = <<>> THEN p ELSE After(s[Len(s)])
  BY DEF StreamFrom
<1> HIDE DEF t
<1>3. PICK n \in Nat : n = Len(s) /\ Len(t) = n + 1
  BY <1>1
<1>4. t[1] = p
  BY <1>1, <1>2, <1>3
<1>5. ASSUME NEW k \in 1..n
      PROVE  t[k + 1] = After(t[k])
  <2>1. CASE k = n
    <3>1. s # <<>> /\ t[k] = s[n] /\ t[k + 1] = c
      BY <1>1, <1>3, <2>1
    <3> QED
      BY <1>2, <1>3, <3>1
  <2>2. CASE k # n
    <3>1. k \in 1..(n - 1) /\ k + 1 \in 1..n
      BY <2>2
    <3> QED
      BY <1>1, <1>2, <1>3, <3>1
  <2> QED
    BY <2>1, <2>2
<1>6. Len(t) - 1 = n
  BY <1>3
<1> QED
  BY <1>1, <1>3, <1>4, <1>5, <1>6 DEF StreamFrom, t

LEMMA StreamTaken ==
  ASSUME NEW p, NEW s \in Seq(Pieces), NEW c, s # <<>>, StreamFrom(p, s, c)
  PROVE  /\ Head(s) = p /\ p \in Pieces /\ Tail(s) \in Seq(Pieces)
         /\ StreamFrom(After(p), Tail(s), c)
<1> DEFINE t == Tail(s)
<1>1. /\ t \in Seq(Pieces) /\ Head(s) = s[1] /\ s[1] \in Pieces
      /\ Len(t) = Len(s) - 1 /\ Len(s) \in Nat \ {0}
      /\ \A k \in 1..Len(t) : t[k] = s[k + 1]
  OBVIOUS
<1>2. /\ s[1] = p
      /\ \A k \in 1..(Len(s) - 1) : s[k + 1] = After(s[k])
      /\ c # End => c = After(s[Len(s)])
  BY DEF StreamFrom
<1> HIDE DEF t
<1>3. PICK n \in Nat : Len(s) = n + 1
  <2>1. PICK k \in Nat : Len(s) = k /\ k # 0
    BY <1>1
  <2>2. k - 1 \in Nat /\ k = (k - 1) + 1
    BY <2>1
  <2> QED
    BY <2>1, <2>2
<1>4. Len(t) = n /\ Len(s) - 1 = n
  BY <1>1, <1>3
<1>5. /\ t # <<>> => 1 \in 1..n /\ n \in 1..n
      /\ t = <<>> => n = 0
  <2>1. t = <<>> <=> n = 0
    BY <1>1, <1>4, EmptySeq
  <2> QED
    BY <2>1
<1>6. t # <<>> => t[1] = After(p)
  BY <1>1, <1>2, <1>4, <1>5
<1>7. ASSUME NEW k \in 1..(n - 1)
      PROVE  t[k + 1] = After(t[k])
  <2>1. k \in 1..n /\ k + 1 \in 1..n
    OBVIOUS
  <2>2. t[k] = s[k + 1] /\ t[k + 1] = s[(k + 1) + 1]
    BY <1>1, <1>4, <2>1
  <2> QED
    BY <1>2, <1>4, <2>1, <2>2
<1>8. c # End => c = IF t = <<>> THEN After(p) ELSE After(t[n])
  <2>1. CASE t = <<>>
    BY <1>2, <1>3, <1>5, <2>1
  <2>2. CASE t # <<>>
    BY <1>1, <1>2, <1>3, <1>4, <1>5, <2>2
  <2> QED
    BY <2>1, <2>2
<1>9. StreamFrom(After(p), t, c)
  BY <1>4, <1>6, <1>7, <1>8 DEF StreamFrom
<1> QED
  BY <1>1, <1>2, <1>9 DEF t

LEMMA FileSaved ==
  ASSUME NEW S, NEW fs \in Seq(S), NEW n \in 0..Len(fs), NEW x \in S
  PROVE  LET new == IF n < Len(fs) THEN [fs EXCEPT ![n + 1] = x] ELSE Append(fs, x)
         IN  /\ new \in Seq(S) /\ n + 1 \in 0..Len(new)
             /\ new[n + 1] = x
             /\ \A k \in 1..n : new[k] = fs[k]
<1>1. CASE n < Len(fs)
  <2> DEFINE new == [fs EXCEPT ![n + 1] = x]
  <2>1. new \in Seq(S) /\ Len(new) = Len(fs) /\ n + 1 \in 1..Len(fs)
    BY <1>1
  <2>2. new[n + 1] = x /\ \A k \in 1..n : new[k] = fs[k]
    BY <1>1, <2>1
  <2> QED
    BY <1>1, <2>1, <2>2
<1>2. CASE ~(n < Len(fs))
  <2>1. n = Len(fs)
    BY <1>2
  <2> QED
    BY <1>2, <2>1
<1> QED
  BY <1>1, <1>2

(* Where in the stream the reader is: it expects the first piece after     *)
(* what it has read of the size, or of the image, of the next file.        *)
Position ==
  IF reader = "size" THEN Len(buffer)
  ELSE IF reader = "image" THEN Len(buffer) + 2 ELSE 0

Expected == Here(saved + 1, Position)

BufferInv ==
  /\ reader = "size" =>
       /\ count = 2 /\ Len(buffer) \in 0..2
       /\ \A k \in 1..Len(buffer) : buffer[k] = Piece(saved + 1, k - 2)
  /\ reader = "image" =>
       /\ saved + 1 \in DOMAIN Sizes
       /\ count = Sizes[saved + 1] /\ Len(buffer) \in 0..count
       /\ \A k \in 1..Len(buffer) : buffer[k] = Piece(saved + 1, k)

QtTypes ==
  /\ {window, stop} \subseteq BOOLEAN
  /\ reader \in {"none", "read file", "test", "size", "image", "show", "ended"}
  /\ socket \in Seq(Pieces) /\ buffer \in Seq(Pieces) /\ coming \in Pieces \cup {End}
  /\ count \in Nat /\ saved \in 0..Len(files)
  /\ files \in Seq({OldFile} \cup Seq(Pieces))

QtInv ==
  /\ WindowInv
  /\ QtTypes
  /\ BufferInv
  /\ reader # "ended" => StreamFrom(Expected, socket, coming)
  /\ SavedAsSent

LEMMA QtBegins == Init => QtInv
<1> SUFFICES ASSUME QtInit PROVE QtInv
  BY DEF Init
<1> DEFINE Files == {OldFile} \cup Seq(Pieces)
<1>1. <<>> \in Seq(Pieces) /\ Len(<<>>) = 0
  OBVIOUS
<1>2. coming \in Pieces \cup {End} /\ coming = Piece(1, -1)
  <2>1. CASE Len(Sizes) = 0
    BY <2>1 DEF QtInit, End
  <2>2. CASE Len(Sizes) # 0
    <3>1. 1 \in DOMAIN Sizes
      BY <2>2, SizesAre
    <3>2. -1 \in -1..Sizes[1]
      BY <3>1, SizesAre
    <3>3. Piece(1, -1) \in Pieces
      BY <3>1, <3>2, IsPiece
    <3> QED
      BY <3>3 DEF QtInit
  <2> QED
    BY <2>1, <2>2
<1>3. Expected = Piece(1, -1)
  <2>1. saved + 1 = 1 /\ Position = 0
    BY DEF QtInit, Position
  <2>2. 1 \in DOMAIN Sizes => Sizes[1] + 2 # 0
    BY SizesAre
  <2>3. Here(1, 0) = Piece(1, -1)
    BY <2>2 DEF Here
  <2> QED
    BY <2>1, <2>3 DEF Expected
<1>4. files \in Seq(Files) /\ saved \in 0..Len(files)
  <2>1. OldFile \in Files
    OBVIOUS
  <2> HIDE DEF Files
  <2>2. <<>> \in Seq(Files) /\ <<OldFile>> \in Seq(Files)
    BY <2>1
  <2>3. 0 \in 0..Len(<<>>) /\ 0 \in 0..Len(<<OldFile>>)
    OBVIOUS
  <2>4. files = <<>> \/ files = <<OldFile>>
    BY DEF QtInit
  <2>5. saved = 0
    BY DEF QtInit
  <2> HIDE DEF OldFile
  <2> QED
    BY <2>2, <2>3, <2>4, <2>5
<1>5. StreamFrom(Expected, socket, coming)
  BY <1>1, <1>2, <1>3 DEF StreamFrom, QtInit
<1>6. SavedAsSent
  BY DEF QtInit, SavedAsSent
<1> QED
  BY <1>1, <1>2, <1>4, <1>5, <1>6 DEF QtInit, QtInv, WindowInv, QtTypes, BufferInv

(* A piece comes, or nothing more will.                                    *)
LEMMA NetworkKeepsQt ==
  ASSUME QtInv, Arrives \/ Breaks
  PROVE  QtInv'
<1>1. UNCHANGED <<gui, window, stop, reader, count, buffer, files, saved>>
  BY DEF Arrives, Breaks, readVars
<1>2. WindowInv' /\ BufferInv' /\ SavedAsSent' /\ Expected' = Expected
  BY <1>1 DEF QtInv, WindowInv, BufferInv, SavedAsSent, Expected, Position
<1>3. CASE Arrives
  <2>1. socket' = Append(socket, coming) /\ coming' = After(coming)
        /\ coming \in Pieces /\ coming # End /\ socket \in Seq(Pieces)
    BY <1>3 DEF Arrives, QtInv, QtTypes
  <2>2. socket' \in Seq(Pieces) /\ coming' \in Pieces \cup {End}
    BY <2>1, AfterIsNext
  <2>3. reader # "ended" => StreamFrom(Expected, socket', coming')
    BY <2>1, StreamArrives DEF QtInv
  <2> QED
    BY <1>1, <1>2, <2>2, <2>3 DEF QtInv, QtTypes
<1>4. CASE Breaks
  <2>1. coming' = End /\ socket' = socket
    BY <1>4 DEF Breaks, readVars
  <2>2. reader # "ended" => StreamFrom(Expected, socket', coming')
    BY <2>1 DEF QtInv, StreamFrom
  <2> QED
    BY <1>1, <1>2, <2>1, <2>2 DEF QtInv, QtTypes
<1> QED
  BY <1>3, <1>4

(* What the main thread does, of which only start concerns the reader.     *)
LEMMA GuiKeepsQt ==
  ASSUME QtInv, WindowInv', guiStep \/ CannotStart \/ Closes
  PROVE  QtInv'
<1>1. /\ UNCHANGED <<socket, count, buffer, coming, files, saved>>
      /\ {window', stop'} \subseteq BOOLEAN
      /\ \/ reader' = reader
         \/ reader = "none" /\ reader' = "read file"
  BY DEF guiStep, LoadEngine, start, StopsLoader, Joins, DestroysEngine, CannotStart,
         Closes, readVars, QtInv, QtTypes, WindowInv
<1>2. BufferInv' /\ SavedAsSent' /\ QtTypes'
  BY <1>1 DEF QtInv, BufferInv, SavedAsSent, QtTypes
<1>3. Expected' = Expected
  BY <1>1 DEF Expected, Position
<1>4. reader' # "ended" => StreamFrom(Expected', socket', coming')
  BY <1>1, <1>3 DEF QtInv
<1> QED
  BY <1>2, <1>4 DEF QtInv

LEMMA TakesKeepsQt ==
  ASSUME QtInv, WindowInv', Takes
  PROVE  QtInv'
<1> DEFINE i == saved + 1
           p == Head(socket)
<1>1. /\ socket # <<>> /\ socket' = Tail(socket)
      /\ buffer' = Append(buffer, p) /\ Len(buffer) # count
      /\ reader \in {"size", "image"}
      /\ UNCHANGED <<reader, count, files, saved, window, stop, coming>>
  BY DEF Takes, Reading, HasRead, readerUnchanged
<1>2. /\ socket \in Seq(Pieces) /\ buffer \in Seq(Pieces)
      /\ StreamFrom(Expected, socket, coming)
      /\ BufferInv /\ saved \in Nat
  <2> DEFINE Files == {OldFile} \cup Seq(Pieces)
  <2>1. saved \in 0..Len(files) /\ files \in Seq(Files)
    BY DEF QtInv, QtTypes
  <2> HIDE DEF Files
  <2>2. saved \in Nat
    BY <2>1
  <2>3. socket \in Seq(Pieces) /\ buffer \in Seq(Pieces)
    BY DEF QtInv, QtTypes
  <2>4. reader # "ended"
    BY <1>1
  <2>5. StreamFrom(Expected, socket, coming) /\ BufferInv
    BY <2>4 DEF QtInv
  <2> QED
    BY <2>2, <2>3, <2>5
<1>3. /\ p = Expected /\ p \in Pieces /\ socket' \in Seq(Pieces)
      /\ StreamFrom(After(p), socket', coming)
  BY <1>1, <1>2, StreamTaken
<1>4. i \in Nat /\ Position \in Nat /\ p = Here(i, Position)
  BY <1>1, <1>2, <1>3 DEF Position, Expected
<1>5. PICK n \in Nat : n = Len(buffer)
  BY <1>2
<1>6. /\ buffer' \in Seq(Pieces) /\ Len(buffer') = n + 1
      /\ buffer'[n + 1] = p /\ \A k \in 1..n : buffer'[k] = buffer[k]
  BY <1>1, <1>2, <1>3, <1>5
<1> HIDE DEF p, i
<1>7. /\ reader = "size" => count = 2 /\ n \in 0..1 /\ Position = n
      /\ reader = "image" => /\ i \in DOMAIN Sizes /\ count = Sizes[i]
                             /\ n \in 0..(count - 1) /\ Position = n + 2
  <2>1. CASE reader = "size"
    BY <1>1, <1>2, <1>5, <2>1 DEF BufferInv, Position
  <2>2. CASE reader = "image"
    <3>1. i \in DOMAIN Sizes /\ count = Sizes[i] /\ n \in 0..count
      BY <1>2, <1>5, <2>2 DEF BufferInv, i
    <3>2. count \in Nat
      BY <3>1, SizesAre
    <3> QED
      BY <1>1, <1>5, <2>2, <3>1, <3>2 DEF Position
  <2> QED
    BY <1>1, <2>1, <2>2
<1>8. i \in DOMAIN Sizes => Sizes[i] \in Nat
  BY SizesAre
<1>9. p = Piece(i, Position - 1)
  BY <1>4, <1>7, <1>8, <1>1 DEF Here
<1>10. p.image = i /\ i \in DOMAIN Sizes
  BY <1>3, <1>9, PieceIs, PieceHas
<1>11. After(p) = Here(i, Position + 1)
  <2>1. Position <= Sizes[i] + 1
    BY <1>1, <1>7, <1>8, <1>10
  <2> QED
    BY <1>3, <1>4, <1>10, <2>1, AfterIsNext
<1>12. Expected' = Here(i, Position + 1)
  <2>1. Position' = Position + 1
    BY <1>1, <1>5, <1>6 DEF Position
  <2> QED
    BY <1>1, <2>1 DEF Expected, i
<1>13. BufferInv'
  <2>1. CASE reader = "size"
    <3>1. n + 1 \in 0..2 /\ count = 2
      BY <1>7, <2>1
    <3>2. ASSUME NEW k \in 1..(n + 1) PROVE buffer'[k] = Piece(i, k - 2)
      <4>1. CASE k = n + 1
        <5>1. k - 2 = Position - 1
          BY <1>7, <2>1, <4>1
        <5> QED
          BY <1>6, <1>9, <4>1, <5>1
      <4>2. CASE k # n + 1
        <5>1. k \in 1..n
          BY <4>2
        <5> QED
          BY <1>2, <1>5, <1>6, <2>1, <5>1 DEF BufferInv, i
      <4> QED
        BY <4>1, <4>2
    <3> QED
      BY <1>1, <1>6, <2>1, <3>1, <3>2 DEF BufferInv, i
  <2>2. CASE reader = "image"
    <3>1. n + 1 \in 0..count /\ count = Sizes[i] /\ i \in DOMAIN Sizes
      BY <1>7, <1>8, <2>2
    <3>2. ASSUME NEW k \in 1..(n + 1) PROVE buffer'[k] = Piece(i, k)
      <4>1. CASE k = n + 1
        <5>1. k = Position - 1
          BY <1>7, <2>2, <4>1
        <5> QED
          BY <1>6, <1>9, <4>1, <5>1
      <4>2. CASE k # n + 1
        <5>1. k \in 1..n
          BY <4>2
        <5> QED
          BY <1>2, <1>5, <1>6, <2>2, <5>1 DEF BufferInv, i
      <4> QED
        BY <4>1, <4>2
    <3> QED
      BY <1>1, <1>6, <2>2, <3>1, <3>2 DEF BufferInv, i
  <2> QED
    BY <1>1, <2>1, <2>2
<1>14. QtTypes' /\ SavedAsSent'
  BY <1>1, <1>3, <1>6 DEF QtInv, QtTypes, SavedAsSent
<1>15. StreamFrom(Expected', socket', coming')
  BY <1>1, <1>3, <1>11, <1>12
<1> QED
  BY <1>13, <1>14, <1>15 DEF QtInv

LEMMA ReadSizeKeepsQt ==
  ASSUME QtInv, WindowInv', ReadSize
  PROVE  QtInv'
<1> DEFINE i == saved + 1
<1>1. /\ reader = "size" /\ reader' = "image" /\ Len(buffer) = count
      /\ count' = Sizes[Last(buffer).image] /\ buffer' = <<>>
      /\ UNCHANGED <<socket, files, saved, window, stop, coming>>
  BY DEF ReadSize, HasRead, readerUnchanged
<1>2. buffer \in Seq(Pieces) /\ saved \in Nat /\ StreamFrom(Expected, socket, coming)
  BY <1>1 DEF QtInv, QtTypes
<1>3. Len(buffer) = 2 /\ \A k \in 1..2 : buffer[k] = Piece(i, k - 2)
  BY <1>1 DEF QtInv, BufferInv
<1>4. Last(buffer) = Piece(i, 0) /\ Last(buffer) \in Pieces
  <2>1. Last(buffer) = buffer[2] /\ 2 \in 1..2 /\ 2 - 2 = 0
    BY <1>3 DEF Last
  <2>2. buffer[2] \in Pieces
    <3>1. 2 \in 1..Len(buffer)
      BY <1>3
    <3> QED
      BY <1>2, <3>1
  <2> QED
    BY <1>3, <2>1, <2>2
<1>5. i \in DOMAIN Sizes /\ count' = Sizes[i] /\ Sizes[i] \in Nat
  BY <1>1, <1>4, PieceIs, PieceHas, SizesAre
<1>6. Len(buffer') = 0 /\ buffer' \in Seq(Pieces)
  BY <1>1
<1>7. Expected' = Expected
  BY <1>1, <1>3, <1>6 DEF Expected, Position
<1>8. BufferInv'
  BY <1>1, <1>5, <1>6 DEF BufferInv
<1>9. QtTypes' /\ SavedAsSent'
  BY <1>1, <1>5, <1>6 DEF QtInv, QtTypes, SavedAsSent
<1> QED
  BY <1>1, <1>2, <1>7, <1>8, <1>9 DEF QtInv

LEMMA SaveKeepsQt ==
  ASSUME QtInv, WindowInv', Save
  PROVE  QtInv'
<1> DEFINE i == saved + 1
           Files == {OldFile} \cup Seq(Pieces)
<1>1. /\ reader = "image" /\ reader' = "show" /\ Len(buffer) = count
      /\ files' = IF saved < Len(files) THEN [files EXCEPT ![saved + 1] = buffer]
                  ELSE Append(files, buffer)
      /\ saved' = i
      /\ UNCHANGED <<socket, count, buffer, window, stop, coming>>
  BY DEF Save, HasRead, readerUnchanged, readVars
<1>2. /\ buffer \in Seq(Pieces) /\ saved \in 0..Len(files) /\ files \in Seq(Files)
      /\ StreamFrom(Expected, socket, coming)
      /\ i \in DOMAIN Sizes /\ Len(buffer) = Sizes[i]
      /\ \A k \in 1..Len(buffer) : buffer[k] = Piece(i, k)
  BY <1>1 DEF QtInv, QtTypes, BufferInv
<1>3. buffer = Image(i)
  <2>1. buffer = [k \in 1..Sizes[i] |-> buffer[k]]
    BY <1>2
  <2>2. \A k \in 1..Sizes[i] : buffer[k] = Piece(i, k)
    BY <1>2
  <2> QED
    BY <2>1, <2>2 DEF Image
<1>4. buffer \in Files
  BY <1>2
<1> HIDE DEF Files
<1>5. /\ files' \in Seq(Files) /\ saved' \in 0..Len(files')
      /\ files'[i] = buffer /\ \A k \in 1..saved : files'[k] = files[k]
  BY <1>1, <1>2, <1>4, FileSaved
<1>6. SavedAsSent'
  <2>1. saved \in Nat
    BY <1>2
  <2>2. \A k \in 1..(saved + 1) : k \in 1..saved \/ k = saved + 1
    BY <2>1
  <2>3. \A k \in 1..saved : files[k] = Image(k)
    BY DEF QtInv, SavedAsSent
  <2>4. \A k \in 1..(saved + 1) : files'[k] = Image(k)
    BY <1>3, <1>5, <2>2, <2>3
  <2> QED
    BY <1>1, <2>4 DEF SavedAsSent
<1>7. Expected' = Expected
  <2>1. Sizes[i] \in Nat /\ saved \in Nat
    BY <1>2, SizesAre
  <2>2. Expected = Here(i, Sizes[i] + 2)
    BY <1>1, <1>2 DEF Expected, Position
  <2>3. Expected = Piece(i + 1, -1)
    BY <1>2, <2>2 DEF Here
  <2>4. Expected' = Here(i + 1, 0)
    BY <1>1 DEF Expected, Position
  <2>5. i + 1 \in DOMAIN Sizes => Sizes[i + 1] + 2 # 0
    BY SizesAre
  <2>6. Here(i + 1, 0) = Piece(i + 1, -1)
    BY <2>5 DEF Here
  <2> QED
    BY <2>3, <2>4, <2>6
<1>8. BufferInv'
  BY <1>1 DEF BufferInv
<1>9. QtTypes'
  BY <1>1, <1>5 DEF QtInv, QtTypes, Files
<1> QED
  BY <1>1, <1>2, <1>6, <1>7, <1>8, <1>9 DEF QtInv

(* What is left of the reader's loop.                                      *)
LEMMA LoopKeepsQt ==
  ASSUME QtInv, WindowInv', ReadFile \/ TestStop \/ EndOfFile \/ Shows
  PROVE  QtInv'
<1>1. CASE EndOfFile
  <2>1. reader' = "ended" /\ UNCHANGED <<window, stop, coming, socket, count, buffer, files, saved>>
    BY <1>1 DEF EndOfFile, readerUnchanged, readVars
  <2> QED
    BY <2>1 DEF QtInv, QtTypes, BufferInv, SavedAsSent
<1>2. CASE ReadFile \/ TestStop \/ Shows
  <2>1. /\ UNCHANGED <<window, stop, coming, socket, files, saved>>
        /\ reader \in {"read file", "test", "show"}
        /\ reader' \in {"ended", "test", "size"}
        /\ reader' = "size" => count' = 2 /\ buffer' = <<>>
        /\ count' \in Nat /\ buffer' \in Seq(Pieces)
    <3>1. count \in Nat /\ buffer \in Seq(Pieces)
      BY DEF QtInv, QtTypes
    <3>2. <<>> \in Seq(Pieces) /\ 2 \in Nat
      OBVIOUS
    <3> QED
      BY <1>2, <3>1, <3>2 DEF ReadFile, TestStop, Shows, readerUnchanged, readVars
  <2>2. reader' = "size" => Len(buffer') = 0 /\ count' = 2
    <3>1. Len(<<>>) = 0
      OBVIOUS
    <3> QED
      BY <2>1, <3>1
  <2>3. Expected' = Expected /\ BufferInv'
    <3>1. reader' # "image" /\ Position = 0 /\ Position' = 0
      BY <2>1, <2>2 DEF Position
    <3>2. 0 \in 0..2 /\ \A k \in 1..0 : FALSE
      OBVIOUS
    <3>3. BufferInv'
      BY <2>2, <3>1, <3>2 DEF BufferInv
    <3> QED
      BY <2>1, <3>1, <3>3 DEF Expected
  <2> QED
    BY <2>1, <2>3 DEF QtInv, QtTypes, SavedAsSent
<1> QED
  BY <1>1, <1>2

LEMMA QtKeeps == QtInv /\ [Next]_vars => QtInv'
<1>1. ASSUME QtInv, UNCHANGED qtVars PROVE QtInv'
  BY <1>1 DEF qtVars, readVars, QtInv, WindowInv, QtTypes, BufferInv, Expected, Position,
              SavedAsSent
<1>2. ASSUME QtInv, Shown PROVE QtInv'
  <2>1. WindowInv'
    BY <1>2, ShownKeeps DEF QtInv
  <2> QED
    BY <1>2, <2>1, NetworkKeepsQt, GuiKeepsQt, TakesKeepsQt, ReadSizeKeepsQt,
       SaveKeepsQt, LoopKeepsQt DEF Shown, readerStep
<1> QED
  BY <1>1, <1>2, OthersLeaveQt

LEMMA QtTyped == QtInv => QtTypeOK
<1> SUFFICES ASSUME QtInv PROVE QtTypeOK
  OBVIOUS
<1>1. ToSet(files) \subseteq {OldFile} \cup Seq(Pieces)
  <2> DEFINE Files == {OldFile} \cup Seq(Pieces)
  <2>1. files \in Seq(Files)
    BY DEF QtInv, QtTypes
  <2> HIDE DEF Files
  <2>2. ToSet(files) \subseteq Files
    BY <2>1 DEF ToSet
  <2> QED
    BY <2>2 DEF Files
<1> QED
  BY <1>1 DEF QtInv, QtTypes, WindowInv, QtTypeOK

(* ImageLoader::read of the Qt client, for images of any number and sizes, *)
(* in whatever pieces they come and wherever the stream ends: the files    *)
(* that the reader has written are the images sent, whole and in order.    *)
THEOREM ImagesSaved == Spec => []SavedAsSent
<1>1. Init => QtInv
  BY QtBegins
<1>2. QtInv /\ [Next]_vars => QtInv'
  BY QtKeeps
<1>3. QtInv => SavedAsSent
  BY DEF QtInv
<1> QED
  BY <1>1, <1>2, <1>3, PTL DEF Spec

-----------------------------------------------------------------------------
(* The options. *)

IsGood(options) ==
  \A n \in DOMAIN options.defaults : options.defaults[n] # Bad

LEMMA OptionsAreGood ==
  IsGood(ServerOptions) /\ IsGood(TrackerOptions) /\ IsGood(ClientOptions) /\ IsGood(QtOptions)
<1>1. IsGood(ServerOptions)
  BY DEF IsGood, ServerOptions, CommonOptions, Bad
<1>2. IsGood(TrackerOptions)
  BY DEF IsGood, TrackerOptions, CommonOptions, Bad
<1>3. IsGood(ClientOptions) /\ IsGood(QtOptions)
  BY DEF IsGood, ClientOptions, QtOptions, Bad, dataPort
<1> QED
  BY <1>1, <1>2, <1>3

(* An argument that boost has not refused has a value.                     *)
LEMMA AcceptedValue ==
  ASSUME NEW options, NEW a, NEW given, ~IsRefused(options, a, given),
         NEW n \in Names(a), n \notin DOMAIN given
  PROVE  ValueIn(a, n) # Bad
<1>1. PICK i \in DOMAIN a : a[i].name = n
  BY DEF Names
<1> DEFINE k == CHOOSE j \in DOMAIN a : a[j].name = n
<1>2. k \in DOMAIN a /\ a[k].name = n
  BY <1>1
<1>3. a[k].value # Bad
  BY <1>2 DEF IsRefused
<1> QED
  BY <1>3 DEF ValueIn

(* Options::parse: of two arguments of one name the one on the command line *)
(* counts, and what boost refuses does not run.                            *)
LEMMA ParsedValue ==
  ASSUME NEW options, IsGood(options), NEW a, NEW f,
         Parse(options, a, f).action = "RUN"
  PROVE  LET given == Parse(options, a, f).given
         IN  /\ options.required \subseteq DOMAIN given
             /\ \A n \in options.required \cup DOMAIN options.defaults :
                  /\ ValueOf(options, given, n) # Bad
                  /\ ValueOf(options, given, n) =
                       IF n \in Names(a) THEN ValueIn(a, n)
                       ELSE IF "response-file" \in Names(a) /\ n \in Names(f.args)
                            THEN ValueIn(f.args, n)
                            ELSE options.defaults[n]
<1> DEFINE first   == Store(a, Nothing)
           hasFile == "response-file" \in DOMAIN first
           given   == IF hasFile THEN Store(f.args, first) ELSE first
           aborts  == \/ IsRefused(options, a, Nothing)
                      \/ hasFile /\ f.state \in {"missing", "unreadable"}
                      \/ hasFile /\ IsRefused(options, f.args, first)
                      \/ ~(options.required \subseteq DOMAIN given)
<1>1. Parse(options, a, f) = IF aborts THEN [action |-> "ABORT", given |-> Nothing]
                             ELSE [action |-> ActionOf(given), given |-> given]
  BY DEF Parse
<1>2. DOMAIN Nothing = {}
  BY DEF Nothing
<1>3. DOMAIN first = Names(a) /\ \A n \in Names(a) : first[n] = ValueIn(a, n)
  BY <1>2 DEF Store
<1>4. DOMAIN Store(f.args, first) = Names(a) \cup Names(f.args)
  BY <1>3 DEF Store
<1>5. \A n \in Names(a) \cup Names(f.args) :
        Store(f.args, first)[n] = IF n \in Names(a) THEN ValueIn(a, n) ELSE ValueIn(f.args, n)
  BY <1>3 DEF Store
<1> HIDE DEF first
<1>6. ~aborts
  <2> HIDE DEF aborts
  <2> QED
    BY <1>1
<1>7. Parse(options, a, f).given = given
  <2> HIDE DEF aborts, given
  <2> QED
    BY <1>1, <1>6
<1>8. \A n \in Names(a) : ValueIn(a, n) # Bad
  BY <1>2, <1>6, AcceptedValue
<1>9. hasFile => \A n \in Names(f.args) \ Names(a) : ValueIn(f.args, n) # Bad
  BY <1>3, <1>6, AcceptedValue
<1>10. hasFile <=> "response-file" \in Names(a)
  BY <1>3
<1>11. DOMAIN given = Names(a) \cup (IF hasFile THEN Names(f.args) ELSE {})
  BY <1>3, <1>4
<1>12. \A n \in DOMAIN given :
         given[n] = IF n \in Names(a) THEN ValueIn(a, n) ELSE ValueIn(f.args, n)
  BY <1>3, <1>4, <1>5
<1>13. options.required \subseteq DOMAIN given
  BY <1>6
<1> HIDE DEF given, hasFile, aborts
<1>14. ASSUME NEW n \in options.required \cup DOMAIN options.defaults
       PROVE  /\ ValueOf(options, given, n) # Bad
              /\ ValueOf(options, given, n) =
                   IF n \in Names(a) THEN ValueIn(a, n)
                   ELSE IF "response-file" \in Names(a) /\ n \in Names(f.args)
                        THEN ValueIn(f.args, n)
                        ELSE options.defaults[n]
  <2>1. CASE n \in DOMAIN given
    BY <1>8, <1>9, <1>10, <1>11, <1>12, <2>1 DEF ValueOf
  <2>2. CASE n \notin DOMAIN given
    BY <1>10, <1>11, <1>13, <2>2 DEF ValueOf, IsGood
  <2> QED
    BY <2>1, <2>2
<1> QED
  BY <1>7, <1>13, <1>14

ParsedInv ==
  /\ program \in ProgramNames
  /\ at = "main" => parsed = NotParsed
  /\ at = "dispatch" => parsed = Parse(OptionsOf(program), args, file)

LEMMA OptionsOfPrograms ==
  ASSUME program \in ProgramNames
  PROVE  /\ IsGood(OptionsOf(program))
         /\ (CASE program = "server"  -> ServerParse(args, file)
              [] program = "tracker" -> TrackerParse(args, file)
              [] program = "gtk"     -> ClientParse(args, file)
              [] program = "qt"      -> QtParse(args, file))
              = Parse(OptionsOf(program), args, file)
<1>1. CASE program = "server"
  BY <1>1, OptionsAreGood, Zenon DEF OptionsOf, ServerParse
<1>2. CASE program = "tracker"
  BY <1>2, OptionsAreGood, Zenon DEF OptionsOf, TrackerParse
<1>3. CASE program = "gtk"
  BY <1>3, OptionsAreGood, Zenon DEF OptionsOf, ClientParse
<1>4. CASE program = "qt"
  BY <1>4, OptionsAreGood, Zenon DEF OptionsOf, QtParse
<1> QED
  BY <1>1, <1>2, <1>3, <1>4 DEF ProgramNames

LEMMA ParsedStep ==
  ASSUME ParsedInv, [Next]_vars
  PROVE  ParsedInv'
<1> USE DEF ParsedInv
<1>1. CASE ParseOptions
  <2>1. /\ UNCHANGED <<program, args, file>> /\ at' = "dispatch"
        /\ parsed' = Parse(OptionsOf(program), args, file)
    BY <1>1, OptionsOfPrograms DEF ParseOptions
  <2>2. OptionsOf(program)' = OptionsOf(program)
    BY <2>1 DEF OptionsOf
  <2>3. Parse(OptionsOf(program), args, file)' = Parse(OptionsOf(program), args, file)
    BY <2>1, <2>2
  <2> QED
    BY <2>1, <2>3
<1>2. CASE UNCHANGED mainVars
  <2>1. (OptionsOf(program) = OptionsOf(program)')
    BY <1>2 DEF mainVars, OptionsOf
  <2>2. Parse(OptionsOf(program), args, file)' = Parse(OptionsOf(program), args, file)
    BY <1>2, <2>1 DEF mainVars
  <2> QED
    BY <1>2, <2>2 DEF mainVars
<1>3. CASE program' = program /\ at' \notin {"main", "dispatch"}
  BY <1>3
<1>4. CASE Runs \/ PrintsHelp \/ PrintsVersion \/ Refuses
  BY <1>3, <1>4 DEF Runs, PrintsHelp, PrintsVersion, Refuses, Exits, Leaves
<1>5. CASE ServerStep
  BY <1>2, <1>3, <1>5 DEF ServerStep, Detects, CannotDetect, Serves, ServerEnds, Exits, Leaves
<1>6. CASE TrackerStep
  <2>1. CASE gpioInitialise
    BY <1>3, <2>1 DEF gpioInitialise, IsRunning
  <2>2. CASE TrackerStep /\ ~gpioInitialise
    BY <1>2, <1>3, <2>2 DEF TrackerStep, CannotInitialise, Tracks, Asserts, gpioTerminate,
                            Exits, Leaves
  <2> QED
    BY <1>6, <2>1, <2>2
<1>7. CASE GtkStep
  BY <1>3, <1>7 DEF GtkStep, Constructs, LacksWidget, ListsCameras, RunThrows,
                    WindowCloses, Exits, Leaves
<1>8. CASE QtStep
  BY <1>2, <1>3, <1>8 DEF QtStep, Shown, QtExits, Exits, Leaves
<1>9. CASE UNCHANGED vars
  BY <1>2, <1>9 DEF vars
<1> QED
  BY <1>1, <1>4, <1>5, <1>6, <1>7, <1>8, <1>9 DEF Next

(* Options::parse, for any command lines and response files of the four    *)
(* programs: the command line goes before the response file, that before   *)
(* the defaults, and nothing runs without what it requires.                *)
THEOREM CommandLineWins == Spec => []ExplicitWins
<1>1. Init => ParsedInv
  BY DEF Init, ParsedInv
<1>2. ParsedInv /\ [Next]_vars => ParsedInv'
  BY ParsedStep
<1>3. ParsedInv => ExplicitWins
  <2> DEFINE options == OptionsOf(program)
  <2> SUFFICES ASSUME ParsedInv, at = "dispatch", parsed.action = "RUN"
               PROVE  ExplicitWins
    BY DEF ExplicitWins
  <2>1. parsed = Parse(options, args, file) /\ IsGood(options)
    BY OptionsOfPrograms DEF ParsedInv
  <2> HIDE DEF options
  <2>2. /\ options.required \subseteq DOMAIN parsed.given
        /\ \A n \in options.required \cup DOMAIN options.defaults :
             /\ ValueOf(options, parsed.given, n) # Bad
             /\ ValueOf(options, parsed.given, n) =
                  IF n \in Names(args) THEN ValueIn(args, n)
                  ELSE IF "response-file" \in Names(args) /\ n \in Names(file.args)
                       THEN ValueIn(file.args, n)
                       ELSE options.defaults[n]
    BY <2>1, ParsedValue
  <2> QED
    BY <2>2 DEF ExplicitWins, options
<1> QED
  BY <1>1, <1>2, <1>3, PTL DEF Spec

(* Options::usage, on a terminal of any width or none: boost asserts       *)
(* that the description of an option is narrower by more than one than the *)
(* line it is on, of unsigned numbers that must not have been negative.    *)
THEOREM HelpFitsTerminal ==
  ASSUME NEW format \in {"text", "markdown"}, NEW columns \in Nat,
         NEW terminal \in {{}, {columns}}
  PROVE  LET help == HelpLine(format, terminal)
         IN  help.description \in 0..(help.line - 2)
<1>1. TerminalColumns(terminal) \in Nat
  BY DEF TerminalColumns, DefaultLine
<1> DEFINE width == TerminalColumns(terminal)
<1>2. HelpLine(format, terminal) =
        CASE format = "markdown" ->
               [line |-> MARKDOWN_LINE_LENGTH - 2, description |-> MARKDOWN_LINE_LENGTH - 52]
          [] format = "text" /\ width < 50 ->
               [line |-> DefaultLine, description |-> DefaultLine \div 2]
          [] OTHER -> [line |-> width, description |-> width - 50]
  BY DEF HelpLine
<1> HIDE DEF width
<1>3. CASE format = "markdown"
  BY <1>2, <1>3 DEF MARKDOWN_LINE_LENGTH
<1>4. CASE format = "text" /\ width < 50
  BY <1>2, <1>4 DEF DefaultLine
<1>5. CASE format = "text" /\ ~(width < 50)
  <2>1. width \in Nat /\ width - 50 \in 0..(width - 2)
    BY <1>1, <1>5 DEF width
  <2> QED
    BY <1>2, <1>5, <2>1
<1> QED
  BY <1>3, <1>4, <1>5

-----------------------------------------------------------------------------
(* The main functions. *)

Places == {"main", "dispatch", "run", "serving", "listing", "window", "exited"}

Actions == {"none", "RUN", "HELP", "VERSION", "ABORT"}

Texts == {"nothing", "version", "defaults", "markdown", "text"}

(* What parse returned. *)
IsParsed(result) == \E a \in Actions : \E g : result = [action |-> a, given |-> g]

MainInv ==
  /\ program \in ProgramNames
  /\ at \in Places
  /\ IsParsed(parsed)
  /\ printed \in Texts
  /\ gpio \in BOOLEAN
  /\ status \in Statuses /\ (status = Running <=> at # "exited")

LEMMA ParsesToAction ==
  ASSUME NEW options, NEW a, NEW f
  PROVE  IsParsed(Parse(options, a, f))
<1>1. \A g : ActionOf(g) \in Actions
  BY DEF ActionOf, Actions
<1>2. "ABORT" \in Actions
  BY DEF Actions
<1>3. Parse(options, a, f) = [action |-> "ABORT", given |-> Nothing]
      \/ \E g : Parse(options, a, f) = [action |-> ActionOf(g), given |-> g]
  <2> DEFINE first   == Store(a, Nothing)
             hasFile == "response-file" \in DOMAIN first
             given   == IF hasFile THEN Store(f.args, first) ELSE first
             aborts  == \/ IsRefused(options, a, Nothing)
                        \/ hasFile /\ f.state \in {"missing", "unreadable"}
                        \/ hasFile /\ IsRefused(options, f.args, first)
                        \/ ~(options.required \subseteq DOMAIN given)
  <2>1. Parse(options, a, f) = IF aborts THEN [action |-> "ABORT", given |-> Nothing]
                               ELSE [action |-> ActionOf(given), given |-> given]
    BY DEF Parse
  <2> HIDE DEF aborts, given
  <2> QED
    BY <2>1
<1> QED
  BY <1>1, <1>2, <1>3 DEF IsParsed

LEMMA LeavingKeepsMain ==
  ASSUME MainInv, NEW code \in Statuses \ {Running}, NEW text \in Texts, Leaves(code, text)
  PROVE  MainInv'
BY DEF MainInv, Leaves, Places

LEMMA MainKeeps == MainInv /\ [Next]_vars => MainInv'
<1> SUFFICES ASSUME MainInv, [Next]_vars PROVE MainInv'
  OBVIOUS
<1>1. ASSUME NEW code \in Statuses \ {Running}, Exits(code) PROVE MainInv'
  BY <1>1, LeavingKeepsMain DEF Exits, MainInv
<1>2. ASSUME /\ UNCHANGED <<program, printed, status>> /\ gpio' \in BOOLEAN
             /\ at # "exited" /\ at' \in Places \ {"exited"}
             /\ parsed' = parsed \/ IsParsed(parsed')
      PROVE  MainInv'
  <2>1. IsParsed(parsed')
    BY <1>2 DEF MainInv
  <2> QED
    BY <1>2, <2>1 DEF MainInv
<1>3. ASSUME UNCHANGED mainVars PROVE MainInv'
  BY <1>3 DEF mainVars, MainInv
<1>4. {0, 1, MinusOne, Aborted} \subseteq Statuses \ {Running}
  BY DEF Statuses, Running, MinusOne, Aborted
<1>5. CASE ParseOptions
  <2>1. parsed' = Parse(OptionsOf(program), args, file)
    BY <1>5, OptionsOfPrograms DEF ParseOptions, MainInv
  <2>2. IsParsed(parsed')
    BY <2>1, ParsesToAction
  <2> QED
    BY <1>2, <1>5, <2>2 DEF ParseOptions, MainInv, Places
<1>6. CASE Runs
  <2>1. PICK a \in Actions : \E g : parsed = [action |-> a, given |-> g]
    BY DEF MainInv, IsParsed
  <2>2. PICK g : parsed = [action |-> a, given |-> g]
    BY <2>1
  <2>3. parsed' = [action |-> a, given |-> OnlyChannels(g)]
    BY <1>6, <2>2 DEF Runs
  <2>4. IsParsed(parsed')
    BY <2>3 DEF IsParsed
  <2> QED
    BY <1>2, <1>6, <2>4 DEF Runs, MainInv, Places
<1>7. CASE PrintsHelp \/ PrintsVersion \/ Refuses
  <2>1. UsageOf(program, parsed.given) \in Texts /\ "version" \in Texts
    BY DEF UsageOf, ServerUsage, TrackerUsage, Usage, Texts
  <2>2. AbortStatus \in {1, MinusOne}
    BY DEF AbortStatus
  <2> QED
    BY <1>1, <1>4, <1>7, <2>1, <2>2, LeavingKeepsMain
       DEF PrintsHelp, PrintsVersion, Refuses
<1>8. CASE ServerStep
  BY <1>1, <1>2, <1>3, <1>4, <1>8
     DEF ServerStep, Detects, CannotDetect, Serves, ServerEnds, IsRunning, Places, MainInv
<1>9. CASE TrackerStep
  <2>1. CASE gpioInitialise
    BY <1>2, <2>1 DEF gpioInitialise, IsRunning, Places
  <2>2. CASE CannotInitialise \/ Asserts
    BY <1>1, <1>4, <2>2 DEF CannotInitialise, Asserts
  <2>3. CASE Tracks
    BY <1>3, <2>3 DEF Tracks
  <2>4. CASE gpioTerminate
    BY <1>4, <2>4 DEF gpioTerminate, MainInv, Places, Running
  <2> QED
    BY <1>9, <2>1, <2>2, <2>3, <2>4 DEF TrackerStep
<1>10. CASE GtkStep
  <2>1. StatusOf("rckam") = 1
    BY DEF StatusOf, Bases
  <2> QED
    BY <1>1, <1>2, <1>4, <1>10, <2>1
       DEF GtkStep, Constructs, LacksWidget, ListsCameras, RunThrows, WindowCloses,
           IsRunning, Places, MainInv
<1>11. CASE QtStep
  <2>1. \A kind : StatusOf(kind) \in Statuses \ {Running}
    BY DEF StatusOf, Statuses, Running, MinusOne, Aborted
  <2> QED
    BY <1>1, <1>3, <1>4, <1>11, <2>1 DEF QtStep, Shown, QtExits
<1>12. CASE UNCHANGED vars
  BY <1>3, <1>12 DEF vars
<1> QED
  BY <1>5, <1>6, <1>7, <1>8, <1>9, <1>10, <1>11, <1>12 DEF Next

(* The four programs, for any command lines, devices and readings, and any *)
(* stream: the variables of the main functions, of the capture cards, of   *)
(* the controller and of the Qt client keep their types, and a program     *)
(* has a status exactly when it has exited.                                *)
THEOREM TypeCorrect == Spec => []TypeOK
<1> DEFINE Inv == MainInv /\ CardsInv /\ ControllerInv /\ QtInv
<1>1. Init => Inv
  <2>1. Init => MainInv
    BY DEF Init, MainInv, IsParsed, Places, Actions, Texts, NotParsed, Statuses, Running
  <2> QED
    BY <2>1, CardsBegin, ControllerBegins, QtBegins
<1>2. Inv /\ [Next]_vars => Inv'
  BY MainKeeps, CardsKeep, ControllerKeeps, QtKeeps
<1>3. Inv => TypeOK
  <2>1. MainInv => parsed.action \in Actions
    BY DEF MainInv, IsParsed
  <2> QED
    BY <2>1, CardsTypes, ControllerTypes, QtTyped DEF MainInv, TypeOK, Places, Texts, Actions
<1> QED
  BY <1>1, <1>2, <1>3, PTL DEF Spec

=============================================================================
