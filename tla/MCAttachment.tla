---------------------------- MODULE MCAttachment ----------------------------
(* Attachment for TLC: no symmetry, since liveness is checked.             *)
EXTENDS Attachment
=============================================================================
