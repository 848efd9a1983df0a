------------------------------- MODULE MCRegistry -------------------------------
(* Instances of Registry for TLC. *)
EXTENDS Registry, TLC

CONSTANTS m1, m2, f1, r1, r2, r3, s1, s2

Symmetry == Permutations(Requests) \cup Permutations(Models)

==============================================================================
