--------------------------- MODULE MCRtcpReports ---------------------------
(* Rounds without items, with two, and with three: more than a packet holds *)
EXTENDS RtcpReports, TLC

MCItems == <<"NAME", "EMAIL", "LOC">>
MCInterval == ("NAME" :> 2) @@ ("EMAIL" :> 2) @@ ("LOC" :> 4)
Symmetry == Permutations(Sources \ {Own})

=============================================================================
