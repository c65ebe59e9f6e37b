--------------------------- MODULE MCTaskPolicies ---------------------------
(* A small instance of TaskPolicies for TLC. *)
EXTENDS TaskPolicies, TLC

CONSTANTS ann, bob

(* ann administers by her role, bob only by an override. *)
MCRoles == (ann :> {"OWNER"}) @@ (bob :> {"VIEWER"})

Symmetry == Permutations(Calls)
=============================================================================
