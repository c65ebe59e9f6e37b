----------------------------- MODULE MCBulkJobs -----------------------------
(* Small instances of BulkJobs for TLC. *)
EXTENDS BulkJobs, TLC

NoneBad == {{}}
LastOrNoneBad == {{}, {Total}}

Symmetry == Permutations(Workers) \cup Permutations(Admins)
=============================================================================
