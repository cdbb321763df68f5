-------------------------- MODULE MCPreviewTransfer -------------------------
(* Instances of PreviewTransfer for TLC: with two bytes in a packet, each  *)
(* sequence has images that fill their last packet and images that do not. *)
EXTENDS PreviewTransfer

\* The two pieces of image 2 have the same size, and image 3 is empty.
UnlikeImages == <<3, 4, 0, 2>>

\* With ids modulo 4, image 1 runs out of packet ids, and image 2 is empty.
SpoiltImages == <<8, 0, 3, 2>>

\* With ids modulo 3, image 4 has the id of image 1 and its first packet,
\* and its second packet is as long.
CollidingImages == <<4, 2, 2, 4>>
=============================================================================
