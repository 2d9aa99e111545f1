----------------------------- MODULE MCTerminal -----------------------------
(* Instances of Terminal for TLC. *)
EXTENDS Terminal, TLC

Symmetry == Permutations(Sessions) \cup Permutations(Shells)
=============================================================================
