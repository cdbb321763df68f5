--------------------------- MODULE Encoder_proofs ---------------------------
(***************************************************************************)
(* Proofs about Encoder, for every bound on the turns of the shaft, when   *)
(* it reverses only in phase 0.                                            *)
(***************************************************************************)
EXTENDS Encoder, TLAPS

-----------------------------------------------------------------------------
(* What the debouncing relies on, in terms of the way the shaft has come   *)
(* from the phase 0 it left last.                                          *)

(* How many quarters of a cycle it is away from there. *)
Away ==
  IF heading = 1 \/ phase = 0 THEN phase ELSE 4 - phase

(* The turn it left. *)
Left ==
  IF heading = 1 \/ phase = 0 THEN turns ELSE turns + 1

(* The contact of the first and third edge, and of the second and fourth. *)
First  == IF heading = 1 THEN "B" ELSE "A"
Second == IF heading = 1 THEN "A" ELSE "B"

(* lastGpio tells an edge that goes on from one that bounces. *)
LastGpioInv ==
  /\ ~bouncing /\ Away \in {1, 3} => lastGpio = First
  /\ ~bouncing /\ Away = 2 => lastGpio = Second
  /\ bouncing /\ Away \in {1, 3} => lastGpio = Second
  /\ bouncing /\ Away = 2 => lastGpio = First

(* The turns counted are those completed. A contact that bounces on        *)
(* arrival is not one turn less.                                           *)
CountInv ==
  /\ pc = "idle" =>
       zero + counter = IF bouncing /\ Away = 3 THEN Left + heading ELSE Left
  /\ pc = "store" =>
       /\ phase = 0
       /\ zero + loaded + increment = turns

IInv == TypeOK /\ LastGpioInv /\ CountInv

-----------------------------------------------------------------------------
LEMMA InitInv == Init => IInv
<1> SUFFICES ASSUME Init PROVE IInv
  OBVIOUS
<1>1. Away = 0 /\ Left = 0
  BY DEF Init, Away, Left
<1>2. \A gpio \in Gpios : Level(gpio, phase) = 1
  BY DEF Init, Level, HighPhases
<1>3. TypeOK
  <2>1. states = [gpio \in Gpios |-> Level(gpio, phase)]
    BY <1>2 DEF Init
  <2>2. bouncing \in BOOLEAN
    BY DEF Init
  <2>3. phase \in Phases /\ turns \in Int /\ loaded \in Int /\ counter \in Int
        /\ zero \in Int /\ increment \in {1, -1}
    BY DEF Init, Phases
  <2> QED
    BY <2>1, <2>2, <2>3 DEF Init, TypeOK
<1>4. LastGpioInv /\ CountInv
  BY <1>1 DEF Init, LastGpioInv, CountInv
<1> QED
  BY <1>3, <1>4 DEF IInv

(* The shaft in terms of the way it is turning: the contacts take turns.   *)
LEMMA ShaftStep ==
  ASSUME heading \in {1, -1}, phase \in Phases, turns \in Int,
         heading' = heading,
         NEW d \in {1, -1}, phase' = PhaseAfter(d), turns' = TurnsAfter(d)
  PROVE  /\ Away \in Phases /\ Left \in Int /\ First # Second
         /\ First' = First /\ Second' = Second
         /\ phase' \in Phases
         /\ phase' = 0 <=> Away' = 0
         /\ phase = 0 <=> Away = 0
         /\ d = heading =>
              /\ Away' = IF Away = 3 THEN 0 ELSE Away + 1
              /\ Left' = IF Away = 3 THEN Left + heading ELSE Left
              /\ Contact(d) = IF Away \in {0, 2} THEN First ELSE Second
         /\ d = -heading =>
              /\ Away' = IF Away = 0 THEN 3 ELSE Away - 1
              /\ Left = IF Away = 0 THEN Left' + heading ELSE Left'
              /\ Contact(d) = IF Away \in {1, 3} THEN First ELSE Second
<1>1. CASE heading = 1 /\ d = 1
  BY <1>1 DEF Away, Left, First, Second, Contact, PhaseAfter, TurnsAfter, Phases
<1>2. CASE heading = 1 /\ d = -1
  <2>1. CASE phase = 0
    BY <1>2, <2>1
       DEF Away, Left, First, Second, Contact, PhaseAfter, TurnsAfter, Phases
  <2>2. CASE phase # 0
    BY <1>2, <2>2
       DEF Away, Left, First, Second, Contact, PhaseAfter, TurnsAfter, Phases
  <2> QED
    BY <2>1, <2>2
<1>3. CASE heading = -1 /\ d = 1
  BY <1>3 DEF Away, Left, First, Second, Contact, PhaseAfter, TurnsAfter, Phases
<1>4. CASE heading = -1 /\ d = -1
  BY <1>4 DEF Away, Left, First, Second, Contact, PhaseAfter, TurnsAfter, Phases
<1> QED
  BY <1>1, <1>2, <1>3, <1>4

(* One contact changes at a time. *)
LEMMA OtherContact ==
  ASSUME phase \in Phases, NEW d \in {1, -1}, phase' = PhaseAfter(d)
  PROVE  \A g \in Gpios :
           g # Contact(d) => Level(g, phase') = Level(g, phase)
<1>1. CASE phase = 0
  <2>1. d = 1 => Contact(d) = "B" /\ phase' = 1
    BY <1>1 DEF Contact, PhaseAfter
  <2>2. d = -1 => Contact(d) = "A" /\ phase' = 3
    BY <1>1 DEF Contact, PhaseAfter
  <2> QED
    BY <1>1, <2>1, <2>2 DEF Level, HighPhases, Gpios
<1>2. CASE phase = 1
  <2>1. d = 1 => Contact(d) = "A" /\ phase' = 2
    BY <1>2 DEF Contact, PhaseAfter
  <2>2. d = -1 => Contact(d) = "B" /\ phase' = 0
    BY <1>2 DEF Contact, PhaseAfter
  <2> QED
    BY <1>2, <2>1, <2>2 DEF Level, HighPhases, Gpios
<1>3. CASE phase = 2
  <2>1. d = 1 => Contact(d) = "B" /\ phase' = 3
    BY <1>3 DEF Contact, PhaseAfter
  <2>2. d = -1 => Contact(d) = "A" /\ phase' = 1
    BY <1>3 DEF Contact, PhaseAfter
  <2> QED
    BY <1>3, <2>1, <2>2 DEF Level, HighPhases, Gpios
<1>4. CASE phase = 3
  <2>1. d = 1 => Contact(d) = "A" /\ phase' = 0
    BY <1>4 DEF Contact, PhaseAfter
  <2>2. d = -1 => Contact(d) = "B" /\ phase' = 2
    BY <1>4 DEF Contact, PhaseAfter
  <2> QED
    BY <1>4, <2>1, <2>2 DEF Level, HighPhases, Gpios
<1> QED
  BY <1>1, <1>2, <1>3, <1>4 DEF Phases

(* A quarter of a cycle either way leaves every variable with its type, and *)
(* states_ in step with the contacts: only one of them changes, and the    *)
(* edge is reported with its level.                                        *)
LEMMA EdgeType ==
  ASSUME TypeOK, NEW d \in {1, -1}, Move(d), Interrupt(d),
         heading' = heading, bouncing' \in BOOLEAN
  PROVE  TypeOK'
<1> DEFINE gpio == Contact(d)
           level == Level(gpio, PhaseAfter(d))
<1>1. phase' = PhaseAfter(d) /\ phase' \in Phases /\ turns' \in Int
  BY DEF Move, PhaseAfter, TurnsAfter, TypeOK, Phases
<1>2. gpio \in Gpios
  BY DEF Contact, Gpios
<1>3. \A g \in Gpios : g # gpio => Level(g, phase') = Level(g, phase)
  BY OtherContact DEF Move, TypeOK
<1>4. states' = StatesAfter(gpio, level)
  BY DEF Interrupt, Ignore, Count
<1>5. states' = [g \in Gpios |-> Level(g, phase')]
  BY <1>1, <1>2, <1>3, <1>4 DEF StatesAfter, TypeOK
<1>6. /\ pc' \in {"idle", "store"}
      /\ loaded' \in Int /\ increment' \in {1, -1}
      /\ counter' \in Int /\ zero' \in Int
  BY DEF Interrupt, Ignore, Count, TypeOK
<1>7. lastGpio' = gpio
  BY DEF Interrupt, Ignore, Count
<1> QED
  BY <1>1, <1>2, <1>5, <1>6, <1>7 DEF TypeOK

(* An edge is counted exactly if it goes back to phase 0 and its contact   *)
(* is not the one that changed last.                                       *)
LEMMA EdgeCount ==
  ASSUME TypeOK, NEW d \in {1, -1}, Move(d)
  PROVE  IsCount(Contact(d), Level(Contact(d), PhaseAfter(d)))
           <=> phase' = 0 /\ Contact(d) # lastGpio
<1> DEFINE gpio == Contact(d)
           level == Level(gpio, PhaseAfter(d))
<1>1. phase' = PhaseAfter(d) /\ phase' \in Phases
  BY DEF Move, PhaseAfter, TypeOK, Phases
<1>2. gpio \in Gpios
  BY DEF Contact, Gpios
<1>3. \A g \in Gpios : g # gpio => Level(g, phase') = Level(g, phase)
  BY OtherContact DEF Move, TypeOK
<1>4. \A g \in Gpios : StatesAfter(gpio, level)[g] = Level(g, phase')
  BY <1>1, <1>2, <1>3 DEF StatesAfter, TypeOK
<1>5. (\A g \in Gpios : Level(g, phase') = 1) <=> phase' = 0
  BY <1>1 DEF Level, HighPhases, Gpios, Phases
<1> QED
  BY <1>4, <1>5 DEF IsCount

(* The shaft goes on. *)
LEMMA TurnInv ==
  ASSUME IInv, Turn, Interrupt(heading)
  PROVE  LastGpioInv' /\ CountInv'
<1>1. heading \in {1, -1} /\ heading' = heading /\ bouncing' = FALSE
  BY DEF IInv, TypeOK, Turn
<1>2. Move(heading)
  BY DEF Turn
<1>3. lastGpio' = Contact(heading) /\ zero' = zero /\ counter' = counter
  BY DEF Interrupt, Ignore, Count
<1>4. pc = "idle" /\ phase \in Phases /\ turns \in Int /\ zero \in Int
      /\ counter \in Int /\ bouncing \in BOOLEAN
  BY DEF Interrupt, Ignore, Count, IInv, TypeOK
<1>5. phase' = PhaseAfter(heading) /\ turns' = TurnsAfter(heading)
  BY <1>2 DEF Move
<1>6. /\ Away \in Phases /\ Left \in Int /\ First # Second
      /\ First' = First /\ Second' = Second
      /\ phase' = 0 <=> Away' = 0
      /\ Away' = IF Away = 3 THEN 0 ELSE Away + 1
      /\ Left' = IF Away = 3 THEN Left + heading ELSE Left
      /\ Contact(heading) = IF Away \in {0, 2} THEN First ELSE Second
  BY <1>1, <1>4, <1>5, ShaftStep
<1>7. LastGpioInv'
  BY <1>1, <1>3, <1>6 DEF LastGpioInv, Phases
<1>8. LastGpioInv
  BY DEF IInv
<1>9. zero + counter = IF bouncing /\ Away = 3 THEN Left + heading ELSE Left
  BY <1>4 DEF IInv, CountInv
<1>10. TypeOK
  BY DEF IInv
<1>11. CASE phase' = 0 /\ Contact(heading) # lastGpio
  <2>1. /\ pc' = "store" /\ loaded' = counter
        /\ increment' = IF Contact(heading) = "A" THEN 1 ELSE -1
    BY <1>1, <1>2, <1>10, <1>11, EdgeCount DEF Interrupt, Ignore, Count
  <2>2. Away = 3
    BY <1>6, <1>11 DEF Phases
  <2>3. Contact(heading) = Second /\ ~bouncing
    BY <1>4, <1>6, <1>8, <1>11, <2>2 DEF LastGpioInv
  <2>4. increment' = heading
    BY <1>1, <2>1, <2>3 DEF Second
  <2>5. turns' = Left'
    BY <1>11 DEF Left
  <2>6. zero' + loaded' + increment' = turns'
    BY ONLY <1>1, <1>3, <1>4, <1>6, <1>9, <2>1, <2>2, <2>3, <2>4, <2>5
  <2> QED
    BY <1>7, <1>11, <2>1, <2>6 DEF CountInv
<1>12. CASE ~(phase' = 0 /\ Contact(heading) # lastGpio)
  <2>1. pc' = "idle"
    BY <1>1, <1>2, <1>4, <1>10, <1>12, EdgeCount DEF Interrupt, Ignore, Count
  <2>2. Away = 3 => bouncing
    BY <1>4, <1>6, <1>8, <1>12 DEF LastGpioInv
  <2>3. zero' + counter' = Left'
    BY <1>3, <1>6, <1>9, <2>2
  <2> QED
    BY <1>1, <1>7, <2>1, <2>3 DEF CountInv
<1> QED
  BY <1>11, <1>12

(* A contact bounces. *)
LEMMA BounceInv ==
  ASSUME IInv, Bounce, Interrupt(-heading)
  PROVE  LastGpioInv' /\ CountInv'
<1>1. heading \in {1, -1} /\ -heading \in {1, -1} /\ heading' = heading
      /\ bouncing = FALSE /\ bouncing' = TRUE
  BY DEF IInv, TypeOK, Bounce
<1>2. Move(-heading)
  BY DEF Bounce
<1>3. lastGpio' = Contact(-heading) /\ zero' = zero /\ counter' = counter
  BY DEF Interrupt, Ignore, Count
<1>4. pc = "idle" /\ phase \in Phases /\ turns \in Int /\ zero \in Int
      /\ counter \in Int
  BY DEF Interrupt, Ignore, Count, IInv, TypeOK
<1>5. phase' = PhaseAfter(-heading) /\ turns' = TurnsAfter(-heading)
  BY <1>2 DEF Move
<1>6. /\ Away \in Phases /\ Left \in Int /\ First # Second
      /\ First' = First /\ Second' = Second
      /\ phase' = 0 <=> Away' = 0
      /\ Away' = IF Away = 0 THEN 3 ELSE Away - 1
      /\ Left = IF Away = 0 THEN Left' + heading ELSE Left'
      /\ Contact(-heading) = IF Away \in {1, 3} THEN First ELSE Second
  BY <1>1, <1>4, <1>5, ShaftStep
<1>7. LastGpioInv'
  BY <1>1, <1>3, <1>6 DEF LastGpioInv, Phases
<1>8. phase' = 0 => Contact(-heading) = lastGpio
  BY <1>1, <1>6 DEF IInv, LastGpioInv, Phases
<1>9. pc' = "idle"
  <2>1. TypeOK
    BY DEF IInv
  <2> QED
    BY <1>1, <1>2, <1>4, <1>8, <2>1, EdgeCount DEF Interrupt, Ignore, Count
<1>10. zero + counter = Left
  BY <1>1, <1>4 DEF IInv, CountInv
<1>11. Away' = 3 <=> Away = 0
  BY <1>6 DEF Phases
<1>12. CountInv'
  BY <1>1, <1>3, <1>6, <1>9, <1>10, <1>11 DEF CountInv
<1> QED
  BY <1>7, <1>12

(* Every step preserves the invariant. *)
LEMMA NextInv ==
  ASSUME FreeShaft = FALSE, IInv, [Next]_vars
  PROVE  IInv'
<1>1. CASE Turn /\ Interrupt(heading)
  <2>1. heading \in {1, -1} /\ heading' = heading /\ bouncing' \in BOOLEAN
    BY <1>1 DEF IInv, TypeOK, Turn
  <2>2. TypeOK'
    BY <1>1, <2>1, EdgeType DEF IInv, Turn
  <2> QED
    BY <1>1, <2>2, TurnInv DEF IInv
<1>2. CASE Bounce /\ Interrupt(-heading)
  <2>1. -heading \in {1, -1} /\ heading' = heading /\ bouncing' \in BOOLEAN
    BY <1>2 DEF IInv, TypeOK, Bounce
  <2>2. TypeOK'
    BY <1>2, <2>1, EdgeType DEF IInv, Bounce
  <2> QED
    BY <1>2, <2>2, BounceInv DEF IInv
<1>3. CASE Reverse
  <2>1. phase = 0 /\ phase' = 0 /\ turns' = turns
    BY <1>3 DEF Reverse
  <2>2. TypeOK'
    <3>1. heading' \in {1, -1}
      <4>1. heading \in {1, -1} /\ heading' = -heading
        BY <1>3 DEF Reverse, IInv, TypeOK
      <4> QED
        BY ONLY <4>1
    <3>2. states' = [gpio \in Gpios |-> Level(gpio, phase')]
      BY <1>3, <2>1 DEF Reverse, IInv, TypeOK
    <3>3. bouncing' \in BOOLEAN
      BY <1>3 DEF Reverse
    <3> QED
      BY <1>3, <3>1, <3>2, <3>3 DEF Reverse, IInv, TypeOK
  <2>3. LastGpioInv'
    BY <2>1 DEF LastGpioInv, Away
  <2>4. CountInv'
    BY <1>3, <2>1 DEF Reverse, IInv, CountInv, Away, Left
  <2> QED
    BY <2>2, <2>3, <2>4 DEF IInv
<1>4. CASE Store
  <2>1. TypeOK'
    BY <1>4 DEF Store, shaftVars, IInv, TypeOK, Gpios, Level, HighPhases
  <2>2. LastGpioInv'
    BY <1>4 DEF Store, shaftVars, IInv, LastGpioInv, Away, First, Second
  <2>3. zero' + counter' = turns' /\ phase' = 0 /\ pc' = "idle"
    <3>1. zero + loaded + increment = turns /\ phase = 0
      BY <1>4 DEF Store, IInv, CountInv
    <3>2. zero \in Int /\ loaded \in Int /\ increment \in Int
      BY DEF IInv, TypeOK
    <3>3. zero' = zero /\ counter' = loaded + increment /\ turns' = turns
          /\ phase' = phase /\ pc' = "idle"
      BY <1>4 DEF Store, shaftVars
    <3> QED
      BY ONLY <3>1, <3>2, <3>3
  <2>4. CountInv'
    BY <2>3 DEF CountInv, Away, Left
  <2> QED
    BY <2>1, <2>2, <2>4 DEF IInv
<1>5. CASE Reset
  <2>1. TypeOK'
    BY <1>5 DEF Reset, shaftVars, IInv, TypeOK, Gpios, Level, HighPhases
  <2>2. LastGpioInv'
    BY <1>5 DEF Reset, shaftVars, IInv, LastGpioInv, Away, First, Second
  <2>3. CountInv'
    <3>1. /\ UNCHANGED <<shaftVars, pc, loaded, increment>>
          /\ counter' = 0
          /\ zero' = IF pc = "idle" THEN zero + counter ELSE zero
      BY <1>5 DEF Reset
    <3>2. zero \in Int /\ counter \in Int
      BY DEF IInv, TypeOK
    <3> QED
      BY <3>1, <3>2 DEF IInv, CountInv, shaftVars, Away, Left
  <2> QED
    BY <2>1, <2>2, <2>3 DEF IInv
<1>6. CASE UNCHANGED vars
  BY <1>6 DEF vars, shaftVars, IInv, TypeOK, LastGpioInv, CountInv, Away,
              Left, First, Second, Gpios, Level, HighPhases
<1> QED
  BY <1>1, <1>2, <1>3, <1>4, <1>5, <1>6 DEF Next, Edge

(* The invariant holds in every reachable state, when the shaft reverses   *)
(* in phase 0 only.                                                        *)
THEOREM Invariance ==
  ASSUME FreeShaft = FALSE
  PROVE  Spec => []IInv
<1>1. Init => IInv
  BY InitInv
<1>2. IInv /\ [Next]_vars => IInv'
  BY NextInv
<1> QED
  BY <1>1, <1>2, PTL DEF Spec

-----------------------------------------------------------------------------
(* The variables keep their types, and states_ the levels of the contacts. *)
THEOREM TypeCorrect ==
  ASSUME FreeShaft = FALSE
  PROVE  Spec => []TypeOK
<1>1. IInv => TypeOK
  BY DEF IInv
<1> QED
  BY <1>1, Invariance, PTL

(* However often contacts bounce, the shaft turns back in phase 0 and the  *)
(* main thread resets the counter, it counts the turns of the shaft.       *)
THEOREM CountCorrect ==
  ASSUME FreeShaft = FALSE
  PROVE  Spec => []CounterIsPosition
<1>1. IInv => CounterIsPosition
  BY DEF IInv, TypeOK, CountInv, CounterIsPosition, Away, Left, Phases
<1> QED
  BY <1>1, Invariance, PTL

=============================================================================
