----------------------------- MODULE MCMutation -----------------------------
(* Instances of Mutation for TLC. *)
EXTENDS Mutation, TLC

CONSTANTS p1, p2, root, nested, f, g, a, b

MCSize == (a :> 1) @@ (b :> 2)
Symmetric == Permutations(Procs) \cup Permutations(Targets)
=============================================================================
