---------------------------- MODULE MCImageLoader ---------------------------
(* Instances of ImageLoader for TLC; the .cfg files give MaxImages. *)
EXTENDS ImageLoader
=============================================================================
