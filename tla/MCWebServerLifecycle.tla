------------------------ MODULE MCWebServerLifecycle ------------------------
(* Instances of WebServerLifecycle for TLC. *)
EXTENDS WebServerLifecycle, TLC

Symmetry == Permutations(Servers) \cup Permutations(Workers)
=============================================================================
