----------------------------- MODULE MCRegistry -----------------------------
(* Small instances of Registry for TLC. *)
EXTENDS Registry, TLC

Symmetry == Permutations(Users) \cup Permutations(Tasks)
              \cup Permutations(Codes)

=============================================================================
