------------------------------ MODULE MCVideoDL ------------------------------
(* VideoDL on two videos and two workers. *)
EXTENDS VideoDL
=============================================================================
