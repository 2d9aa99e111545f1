-------------------------- MODULE MCProxyReconnect --------------------------
(* Instances of ProxyReconnect for TLC. *)
EXTENDS ProxyReconnect, TLC

Symmetry == Permutations(Starts)
=============================================================================
