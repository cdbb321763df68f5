----------------------------- MODULE MCEncoder ------------------------------
(* Instances of Encoder for TLC; the .cfg files give the bounds.           *)
EXTENDS Encoder
=============================================================================
