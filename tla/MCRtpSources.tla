---------------------------- MODULE MCRtpSources ----------------------------
(* Two identifiers; two addresses on one host and one on another.          *)
EXTENDS RtpSources, TLC

CONSTANTS a1, a2, b1, hostA, hostB

MCHostOf == (a1 :> hostA) @@ (a2 :> hostA) @@ (b1 :> hostB)
Symmetry == Permutations(SSRC)

=============================================================================
