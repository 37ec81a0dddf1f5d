------------------------------ MODULE MCUploader ------------------------------
(* Uploader on two or three items and a channel of two places.              *)
EXTENDS Uploader
=============================================================================
