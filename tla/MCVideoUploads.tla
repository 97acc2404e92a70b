--------------------------- MODULE MCVideoUploads ---------------------------
(* Instances of VideoUploads for TLC. *)
EXTENDS VideoUploads, TLC
=============================================================================
