------------------------------- MODULE MCPcap -------------------------------
(* Two writers are symmetric; only for runs without liveness properties.    *)
EXTENDS Pcap, TLC

Symmetry == Permutations(Writer)
=============================================================================
