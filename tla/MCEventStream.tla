---------------------------- MODULE MCEventStream ----------------------------
(* EventStream for TLC.  Threads are interchangeable.  Clients only share   *)
(* the store, which none of them writes: one stands for any number.         *)
EXTENDS EventStream, TLC

ThreadSymmetry == Permutations(Threads)
=============================================================================
