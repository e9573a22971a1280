----------------------------- MODULE MCFederation -----------------------------
(* Small instances of the federation for TLC. *)
EXTENDS Federation, TLC

(* Followers, keys and edits are interchangeable. *)
Symmetry == Permutations(Followers) \cup Permutations(Keys) \cup Permutations(Edits)

=============================================================================
