----------------------------- MODULE HdmiCapture ----------------------------
(***************************************************************************)
(* server/CameraController: the capture of an HDMI stream through V4L2.    *)
(*                                                                         *)
(* startHdmiCapture is one call that opens the device, sets it up, and     *)
(* then hands buffer 0 to the driver and takes it back until another       *)
(* thread has called stopHdmiCapture. The driver fills the buffer it has   *)
(* while it streams. Every ioctl may fail; all of them do once the device  *)
(* is unplugged. A descriptor belongs to one call and is never closed.     *)
(***************************************************************************)
EXTENDS Integers

CONSTANT MaxCalls    \* bound: calls of startHdmiCapture

VARIABLES
  at,         \* the next statement of startHdmiCapture, or how it ended
  call,       \* how many calls have been made; the descriptor of this one
  stop,       \* stopHdmiCapture_, a plain bool read by one thread only
  plugged,    \* the device is there
  owner,      \* the descriptor that requested the buffers, 0 if none
  streaming,  \* the driver streams
  slot        \* buffer 0: "free", or "queued" or "filled" and the driver's

vars == <<at, call, stop, plugged, owner, streaming, slot>>
driver == <<plugged, owner, streaming, slot>>

SetUp == {"format", "request", "querybuf", "streamon", "clear"}
Loop  == {"test", "queue", "select", "dequeue"}
Ended == {"idle", "returned", "thrown"}

Init ==
  /\ at = "idle"
  /\ call = 0
  /\ stop \in BOOLEAN
  /\ plugged \in BOOLEAN
  /\ owner = 0
  /\ streaming = FALSE
  /\ slot = "free"

-----------------------------------------------------------------------------
(* startHdmiCapture, from top to bottom. *)

(* open is not checked: without a device the next ioctl fails. *)
Open ==
  /\ at \in Ended /\ call < MaxCalls
  /\ call' = call + 1
  /\ at' = "format"
  /\ UNCHANGED <<stop, driver>>

Then(next) == at' = next /\ UNCHANGED <<call, stop, plugged>>

(* The format cannot be changed while anyone has buffers. *)
SetFormat ==
  /\ at = "format" /\ plugged /\ owner = 0
  /\ Then("request")
  /\ UNCHANGED <<owner, streaming, slot>>

RequestBuffers ==
  /\ at = "request" /\ plugged
  /\ owner' = call
  /\ Then("querybuf")
  /\ UNCHANGED <<streaming, slot>>

(* QUERYBUF, and mmap, whose result is neither checked nor used. *)
QueryBuffer ==
  /\ at = "querybuf" /\ plugged
  /\ Then("streamon")
  /\ UNCHANGED <<owner, streaming, slot>>

StreamOn ==
  /\ at = "streamon" /\ plugged
  /\ streaming' = TRUE
  /\ Then("clear")
  /\ UNCHANGED <<owner, slot>>

(* stopHdmiCapture_ = false: a stop that came before is forgotten. *)
ClearStop ==
  /\ at = "clear"
  /\ stop' = FALSE
  /\ at' = "test"
  /\ UNCHANGED <<call, driver>>

(* The loop never looks at the flag. *)
TestNothing ==
  /\ at = "test"
  /\ Then("queue")
  /\ UNCHANGED <<owner, streaming, slot>>

Test ==
  /\ at = "test"
  /\ Then(IF stop THEN "streamoff" ELSE "queue")
  /\ UNCHANGED <<owner, streaming, slot>>

Queue ==
  /\ at = "queue" /\ plugged
  /\ slot = "free"
  /\ slot' = "queued"
  /\ Then("select")
  /\ UNCHANGED <<owner, streaming>>

(* A time-out starts the loop again. *)
SelectRetries ==
  /\ at = "select"
  /\ Then(IF slot = "queued" /\ plugged THEN "test" ELSE "dequeue")
  /\ UNCHANGED <<owner, streaming, slot>>

(* A frame is there, or 2 seconds have passed, which select reports by a 0 *)
(* that is not told apart.                                                 *)
Select ==
  /\ at = "select"
  /\ Then("dequeue")
  /\ UNCHANGED <<owner, streaming, slot>>

(* The descriptor blocks: DQBUF waits for a frame. *)
Dequeue ==
  /\ at = "dequeue" /\ plugged
  /\ slot = "filled"
  /\ slot' = "free"
  /\ Then("test")
  /\ UNCHANGED <<owner, streaming>>

(* The ioctl after the loop is STREAMON again: of a device that streams it *)
(* changes nothing.                                                        *)
StreamOnAgain ==
  /\ at = "streamoff" /\ plugged
  /\ Then("returned")
  /\ UNCHANGED <<owner, streaming, slot>>

(* An ioctl or select returns -1. The format string of its message has no  *)
(* place for what is put in it, so that the exception is boost's.          *)
Fails ==
  /\ at \in (SetUp \ {"clear"}) \cup (Loop \ {"test"}) \cup {"streamoff"}
  /\ Then("thrown")
  /\ UNCHANGED <<owner, streaming, slot>>

startHdmiCapture ==
  \/ SetFormat \/ RequestBuffers \/ QueryBuffer \/ StreamOn \/ ClearStop
  \/ Test \/ Queue \/ Select \/ Dequeue \/ StreamOnAgain

-----------------------------------------------------------------------------
stopHdmiCapture ==
  /\ ~stop
  /\ stop' = TRUE
  /\ UNCHANGED <<at, call, driver>>

(* The driver fills the buffer it was given. *)
Frame ==
  /\ plugged /\ streaming /\ slot = "queued"
  /\ slot' = "filled"
  /\ UNCHANGED <<at, call, stop, plugged, owner, streaming>>

(* The device goes, and stays away. *)
Unplug ==
  /\ plugged
  /\ plugged' = FALSE
  /\ UNCHANGED <<at, call, stop, owner, streaming, slot>>

Next ==
  \/ Open
  \/ startHdmiCapture
  \/ Fails
  \/ stopHdmiCapture
  \/ Frame
  \/ Unplug

Spec == Init /\ [][Next]_vars

(* An ioctl that cannot succeed. *)
Refused == ~plugged \/ (at = "format" /\ owner # 0)

(* The thread in startHdmiCapture runs, what cannot succeed fails, and a    *)
(* camera that streams delivers frames.                                    *)
Fairness ==
  /\ WF_vars(startHdmiCapture)
  /\ WF_vars(Fails /\ Refused)
  /\ WF_vars(Frame)

FairSpec == Spec /\ Fairness

-----------------------------------------------------------------------------
(* The variables keep their types. *)
TypeOK ==
  /\ at \in SetUp \cup Loop \cup Ended \cup {"streamoff"}
  /\ call \in Nat
  /\ stop \in BOOLEAN /\ plugged \in BOOLEAN /\ streaming \in BOOLEAN
  /\ owner \in 0..call
  /\ slot \in {"free", "queued", "filled"}

(* The program and the driver agree on whose buffer 0 is, whenever frames   *)
(* come and whichever ioctl fails: it is never queued while the driver has *)
(* it, never waited for when the driver has not, and nobody else captures. *)
BufferAlternates ==
  /\ at \in Loop \cup {"streamoff"} => streaming /\ owner = call
  /\ at \in {"test", "queue", "streamoff"} => slot = "free"
  /\ at \in {"select", "dequeue"} => slot # "free"
  /\ at \in SetUp /\ owner # 0 => owner = call \/ at = "format"

(* stopHdmiCapture ends a capture that has entered its loop, as long as the *)
(* camera delivers frames or has gone.                                     *)
StopEnds == (at \in Loop /\ stop) ~> at \in Ended

=============================================================================
