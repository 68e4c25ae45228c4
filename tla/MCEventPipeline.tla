--------------------------- MODULE MCEventPipeline ---------------------------
(* EventPipeline for TLC.  Producers are interchangeable: nothing orders    *)
(* them, so their permutations are a symmetry of the safety runs.           *)
EXTENDS EventPipeline, TLC

ProducerSymmetry == Permutations(Producers)
=============================================================================
