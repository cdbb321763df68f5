------------------------------- MODULE Encoder ------------------------------
(***************************************************************************)
(* tracker/Encoder: counts the turns of a shaft from the edges of two      *)
(* contacts, A and B, that close a quarter of a cycle apart.               *)
(*                                                                         *)
(* pigpio calls interrupt once for every edge, in order, on its own        *)
(* thread; the main thread may reset the counter at any time, without the  *)
(* mutex. The shaft below is where the edges reported so far have taken    *)
(* it: the real one may be ahead. A cycle has four phases:                 *)
(*                                                                         *)
(*     phase   0     1     2     3                                         *)
(*     A       high  high  low   low                                       *)
(*     B       high  low   low   high                                      *)
(***************************************************************************)
EXTENDS Integers

CONSTANTS
  MaxTurns,    \* bound: how far the shaft turns either way, a number
  FreeShaft    \* a Boolean: it may turn back anywhere, not only in phase 0

VARIABLES
  turns, phase,   \* the shaft
  heading,        \* the way it is turning, 1 or -1
  bouncing,       \* a contact has just opened or closed again
  pc,             \* interrupt: "idle", or "store" between reading and
                  \* writing the counter
  loaded,         \* the value it read
  increment,      \* what it adds
  states,         \* states_
  lastGpio,       \* lastGpio_, "none" at first
  counter,        \* counter_
  zero            \* turns of the shaft at which the counter is zero

shaftVars == <<turns, phase, heading, bouncing>>
vars == <<shaftVars, pc, loaded, increment, states, lastGpio, counter, zero>>

Phases == 0..3

Gpios == {"A", "B"}

HighPhases(gpio) == IF gpio = "A" THEN {0, 1} ELSE {0, 3}

Level(gpio, p) == IF p \in HighPhases(gpio) THEN 1 ELSE 0

Init ==
  /\ turns = 0 /\ phase = 0
  /\ heading \in {1, -1}
  /\ bouncing = FALSE
  /\ pc = "idle"
  /\ loaded = 0
  /\ increment = 1
  /\ states = [gpio \in Gpios |-> 1]
  /\ lastGpio = "none"
  /\ counter = 0
  /\ zero = 0

-----------------------------------------------------------------------------
(* The shaft: a quarter of a cycle forth (d = 1) or back (d = -1). *)

PhaseAfter(d) ==
  IF d = 1 THEN IF phase = 3 THEN 0 ELSE phase + 1
  ELSE IF phase = 0 THEN 3 ELSE phase - 1

TurnsAfter(d) ==
  IF d = 1 /\ phase = 3 THEN turns + 1
  ELSE IF d = -1 /\ phase = 0 THEN turns - 1
  ELSE turns

(* The contact that opens or closes on the way. *)
Contact(d) ==
  IF phase \in (IF d = 1 THEN {0, 2} ELSE {1, 3}) THEN "B" ELSE "A"

Move(d) ==
  /\ turns' = TurnsAfter(d)
  /\ turns' \in -MaxTurns..MaxTurns
  /\ phase' = PhaseAfter(d)

(* On its way, or back to where it was before a contact bounced. *)
Turn ==
  /\ Move(heading)
  /\ bouncing' = FALSE
  /\ UNCHANGED heading

(* The contact that has just changed changes back for a moment. *)
Bounce ==
  /\ ~bouncing
  /\ Move(-heading)
  /\ bouncing' = TRUE
  /\ UNCHANGED heading

(* The other way from now on: in phase 0, unless the shaft is free. *)
Reverse ==
  /\ FreeShaft \/ phase = 0
  /\ heading' = -heading
  /\ bouncing' = FALSE
  /\ UNCHANGED <<turns, phase, pc, loaded, increment, states, lastGpio,
                 counter, zero>>

-----------------------------------------------------------------------------
(* Encoder::interrupt *)

(* The level is stored under the wrong index. *)
StatesSwapped(gpio, level) ==
  [states EXCEPT ![IF gpio = "A" THEN "B" ELSE "A"] = level]

StatesAfter(gpio, level) == [states EXCEPT ![gpio] = level]

(* Without the debouncing. *)
IsCountBouncing(gpio, level) ==
  \A g \in Gpios : StatesAfter(gpio, level)[g] = 1

IsCount(gpio, level) ==
  /\ gpio # lastGpio
  /\ \A g \in Gpios : StatesAfter(gpio, level)[g] = 1

(* An edge that is not counted. *)
Ignore(gpio, level) ==
  /\ pc = "idle"
  /\ ~IsCount(gpio, level)
  /\ states' = StatesAfter(gpio, level)
  /\ lastGpio' = gpio
  /\ UNCHANGED <<pc, loaded, increment, counter, zero>>

(* An edge that is: up to reading the counter. lastGpio_ is assigned at the *)
(* end of interrupt, but nobody else looks at it.                          *)
Count(gpio, level) ==
  /\ pc = "idle"
  /\ IsCount(gpio, level)
  /\ states' = StatesAfter(gpio, level)
  /\ increment' = IF gpio = "A" THEN 1 ELSE -1
  /\ loaded' = counter
  /\ pc' = "store"
  /\ lastGpio' = gpio
  /\ UNCHANGED <<counter, zero>>

Interrupt(d) ==
  LET gpio == Contact(d)
      level == Level(gpio, PhaseAfter(d))
  IN  Ignore(gpio, level) \/ Count(gpio, level)

Edge ==
  \/ Turn /\ Interrupt(heading)
  \/ Bounce /\ Interrupt(-heading)

Store ==
  /\ pc = "store"
  /\ counter' = loaded + increment
  /\ pc' = "idle"
  /\ UNCHANGED <<shaftVars, loaded, increment, states, lastGpio, zero>>

(* reset, by the main thread. One that falls between the reading and the   *)
(* writing of the counter is overwritten, and moves no zero.               *)
Reset ==
  /\ counter' = 0
  /\ zero' = IF pc = "idle" THEN zero + counter ELSE zero
  /\ UNCHANGED <<shaftVars, pc, loaded, increment, states, lastGpio>>

-----------------------------------------------------------------------------
Next == Edge \/ Reverse \/ Store \/ Reset

Spec == Init /\ [][Next]_vars

-----------------------------------------------------------------------------
(* The variables keep their types, and states_ keeps up with the contacts. *)
TypeOK ==
  /\ turns \in Int
  /\ phase \in Phases
  /\ heading \in {1, -1}
  /\ bouncing \in BOOLEAN
  /\ pc \in {"idle", "store"}
  /\ loaded \in Int
  /\ increment \in {1, -1}
  /\ states = [gpio \in Gpios |-> Level(gpio, phase)]
  /\ lastGpio \in Gpios \union {"none"}
  /\ counter \in Int
  /\ zero \in Int

(* The counter is the number of turns since the last reset that was not    *)
(* lost: exactly when the shaft is in phase 0, and within the turn that is *)
(* under way elsewhere. Bouncing contacts, reversals in phase 0 and lost   *)
(* resets never add or lose a count.                                       *)
CounterIsPosition ==
  pc = "idle" =>
    /\ phase = 0 => zero + counter = turns
    /\ zero + counter \in {turns, turns + 1}

=============================================================================
