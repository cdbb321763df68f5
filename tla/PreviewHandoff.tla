--------------------------- MODULE PreviewHandoff ---------------------------
(***************************************************************************)
(* What the preview pipeline of the client promises, without threads,      *)
(* mutexes or buffers: the complete images that arrive are queued, at most *)
(* Capacity at a time, and the widget shows them one by one in order of    *)
(* arrival, each exactly once.  ImageLoader implements it with two         *)
(* buffers.                                                                *)
(***************************************************************************)
EXTENDS Naturals, Sequences

CONSTANTS Capacity,   \* images that may be waiting to be shown
          MaxImages   \* bound: images that arrive in a behaviour

VARIABLES produced,   \* number of images queued so far; they are 1..produced
          queue,      \* images waiting to be shown, oldest first
          shown       \* images the widget has shown, in order

vars == <<produced, queue, shown>>

Init ==
  /\ produced = 0
  /\ queue = <<>>
  /\ shown = <<>>

(* One more image has arrived in full. *)
Publish ==
  /\ produced < MaxImages
  /\ Len(queue) < Capacity
  /\ produced' = produced + 1
  /\ queue' = Append(queue, produced + 1)
  /\ UNCHANGED shown

(* The oldest waiting image is shown. *)
Show ==
  /\ queue # <<>>
  /\ shown' = Append(shown, Head(queue))
  /\ queue' = Tail(queue)
  /\ UNCHANGED produced

Next == Publish \/ Show

Spec == Init /\ [][Next]_vars

=============================================================================
