--------------------------- MODULE MCOsloDelivery ---------------------------
(* OsloDelivery for TLC; the notifications that can be read are             *)
(* interchangeable.                                                         *)
EXTENDS OsloDelivery, TLC

BatchSymmetry == Permutations(Batches \ Unreadable)
=============================================================================
