---------------------------- MODULE MCUpdateJobs ----------------------------
(* Instances of UpdateJobs for TLC.                                          *)
EXTENDS UpdateJobs, TLC

\* The backup ids of one kind of asker are interchangeable, and so are the updates of a kind.
Symmetry == Permutations(Disturbed) \union Permutations(Updates \ Disturbed)
            \union Permutations(OwnerJobs) \union Permutations(Jobs \ OwnerJobs)
=============================================================================
