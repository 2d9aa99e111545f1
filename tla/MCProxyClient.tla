--------------------------- MODULE MCProxyClient ---------------------------
(* Instances of ProxyClient for TLC. *)
EXTENDS ProxyClient, TLC

Symmetry == Permutations(Reals) \cup Permutations(Proxies) \cup Permutations(Users)
=============================================================================
