---------------------------- MODULE MCFlowListing ----------------------------
(* FlowListing for TLC.  Runs are ordered by their ids, so no permutation   *)
(* of them is a symmetry.                                                   *)
EXTENDS FlowListing
=============================================================================
