--------------------------- MODULE MCMeterLifecycle ---------------------------
(* MeterLifecycle for TLC. *)
EXTENDS MeterLifecycle
=============================================================================
