--------------------------- MODULE PreviewChannel ---------------------------
(***************************************************************************)
(* What the stream of previews promises over a network that loses but      *)
(* keeps the order, without packets, ids or offsets: images are sent one   *)
(* after the other, any of them may be damaged on its way, and those that  *)
(* are not are returned, whole, once and in order; a damaged one costs no  *)
(* other.  PreviewTransfer implements it with datagrams.                   *)
(***************************************************************************)
EXTENDS Naturals

CONSTANTS
  Last,   \* the last image
  Spoilt  \* images that cannot be returned, even if none of them is lost

VARIABLES current,   \* the image being sent
          damaged,   \* images that cannot be returned
          returned   \* images that have been

vars == <<current, damaged, returned>>

Init ==
  /\ current = 1
  /\ damaged = Spoilt
  /\ returned = {}

Send ==
  /\ current <= Last
  /\ current' = current + 1
  /\ UNCHANGED <<damaged, returned>>

Damage(k) ==
  /\ k \notin returned
  /\ damaged' = damaged \cup {k}
  /\ UNCHANGED <<current, returned>>

(* Nothing that could be returned has been left out. *)
Return(k) ==
  /\ k \notin damaged \cup returned
  /\ 1..(k - 1) \subseteq damaged \cup returned
  /\ returned' = returned \cup {k}
  /\ UNCHANGED <<current, damaged>>

Next ==
  \/ Send
  \/ \E k \in 1..Last : k <= current /\ (Damage(k) \/ Return(k))

Spec == Init /\ [][Next]_vars

=============================================================================
