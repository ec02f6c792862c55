------------------------------ MODULE MCUpload ------------------------------
(* The instance of Upload for TLC: three uploads of one content by two users. *)
EXTENDS Upload
=============================================================================
