-------------------------- MODULE HdmiCapture_proofs ------------------------
(***************************************************************************)
(* Proofs about HdmiCapture, for every number of calls.                    *)
(***************************************************************************)
EXTENDS HdmiCapture, TLAPS

(* What a call that is being set up finds: as long as nobody has requested *)
(* buffers none is queued, and past its first ioctl nobody else has.       *)
SetUpInv ==
  /\ at # "idle" => call # 0
  /\ owner = 0 => slot = "free"
  /\ at \in SetUp \ {"format"} => slot = "free"
  /\ at = "request" => owner = 0
  /\ at \in {"querybuf", "streamon", "clear"} => owner = call
  /\ at = "clear" => streaming

IInv == TypeOK /\ BufferAlternates /\ SetUpInv

USE DEF SetUp, Loop, Ended

-----------------------------------------------------------------------------
LEMMA InitInv == Init => IInv
<1> SUFFICES ASSUME Init PROVE IInv
  OBVIOUS
<1>1. TypeOK
  <2>1. stop \in BOOLEAN /\ plugged \in BOOLEAN /\ streaming \in BOOLEAN
    BY DEF Init
  <2>2. at = "idle" /\ call \in Nat /\ owner \in 0..call /\ slot = "free"
    BY DEF Init
  <2> QED
    BY <2>1, <2>2 DEF TypeOK
<1>2. BufferAlternates /\ SetUpInv
  BY DEF Init, BufferAlternates, SetUpInv
<1> QED
  BY <1>1, <1>2 DEF IInv

(* A step of startHdmiCapture: each statement finds buffer 0 as the one    *)
(* before has left it.                                                     *)
LEMMA CallStep ==
  ASSUME IInv, Open \/ startHdmiCapture \/ Fails
  PROVE  IInv'
<1> USE DEF IInv, TypeOK, BufferAlternates, SetUpInv, driver, Then
<1>1. CASE Open
  BY <1>1 DEF Open
<1>2. CASE SetFormat
  BY <1>2 DEF SetFormat
<1>3. CASE RequestBuffers
  BY <1>3 DEF RequestBuffers
<1>4. CASE QueryBuffer
  BY <1>4 DEF QueryBuffer
<1>5. CASE StreamOn
  BY <1>5 DEF StreamOn
<1>6. CASE ClearStop
  BY <1>6 DEF ClearStop
<1>7. CASE Test
  BY <1>7 DEF Test
<1>8. CASE Queue
  <2>1. TypeOK'
    BY <1>8 DEF Queue
  <2>2. at' = "select" /\ slot' = "queued"
    BY <1>8 DEF Queue
  <2>3. streaming' /\ owner' = call'
    BY <1>8 DEF Queue
  <2>4. SetUpInv'
    BY <1>8, <2>2, <2>3 DEF Queue
  <2> QED
    BY <2>1, <2>2, <2>3, <2>4
<1>9. CASE Select
  BY <1>9 DEF Select
<1>10. CASE Dequeue
  BY <1>10 DEF Dequeue
<1>11. CASE StreamOnAgain
  BY <1>11 DEF StreamOnAgain
<1>12. CASE Fails
  BY <1>12 DEF Fails
<1> QED
  BY <1>1, <1>2, <1>3, <1>4, <1>5, <1>6, <1>7, <1>8, <1>9, <1>10, <1>11, <1>12
     DEF startHdmiCapture

(* What the driver, the user and the other thread do meanwhile. *)
LEMMA OtherStep ==
  ASSUME IInv, stopHdmiCapture \/ Frame \/ Unplug
  PROVE  IInv'
<1> USE DEF IInv, TypeOK, BufferAlternates, SetUpInv, driver
<1>1. CASE stopHdmiCapture
  BY <1>1 DEF stopHdmiCapture
<1>2. CASE Frame
  BY <1>2 DEF Frame
<1>3. CASE Unplug
  BY <1>3 DEF Unplug
<1> QED
  BY <1>1, <1>2, <1>3

LEMMA NextInv == IInv /\ [Next]_vars => IInv'
<1> SUFFICES ASSUME IInv, [Next]_vars PROVE IInv'
  OBVIOUS
<1>1. CASE Next
  BY <1>1, CallStep, OtherStep DEF Next
<1>2. CASE UNCHANGED vars
  BY <1>2 DEF IInv, TypeOK, BufferAlternates, SetUpInv, vars
<1> QED
  BY <1>1, <1>2

LEMMA Invariance == Spec => []IInv
  BY InitInv, NextInv, PTL DEF Spec

(* The variables of HdmiCapture keep their types. *)
THEOREM TypeCorrect == Spec => []TypeOK
<1>1. IInv => TypeOK
  BY DEF IInv
<1> QED
  BY Invariance, <1>1, PTL

(* startHdmiCapture and the driver agree on whose buffer 0 is, over any     *)
(* number of calls, failures and unpluggings.                              *)
THEOREM BufferIsShared == Spec => []BufferAlternates
<1>1. IInv => BufferAlternates
  BY DEF IInv
<1> QED
  BY Invariance, <1>1, PTL

=============================================================================
