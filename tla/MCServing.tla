------------------------------ MODULE MCServing ------------------------------
(* Serving for TLC.  /a, /api and a run's own path are mount points that    *)
(* are themselves the beginning of the meter's paths.                       *)
EXTENDS Serving

MCMounts == {<<>>, <<"/", "m">>, <<"/", "a">>, <<"/", "a", "pi">>,
             FLOWS \o <<"/", "r1">>}
MCForwarded == {<<>>, <<"/", "edge">>}
=============================================================================
