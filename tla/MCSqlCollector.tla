---------------------------- MODULE MCSqlCollector ----------------------------
(* SqlCollector for TLC. *)
EXTENDS SqlCollector
=============================================================================
