------------------------- MODULE MCPolicyLifecycle -------------------------
(***************************************************************************)
(* Instances of PolicyLifecycle for TLC: two revisions of one policy that  *)
(* share an artifact, and one revision of another policy.                  *)
(***************************************************************************)
EXTENDS PolicyLifecycle, TLC

TwoPolicies == <<"app", "app", "db">>
SharedLocks == <<{1, 2}, {2, 3}, {3}>>

Symmetry == Permutations(Users) \cup Permutations(Groups)
=============================================================================
