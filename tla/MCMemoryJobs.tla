---------------------------- MODULE MCMemoryJobs ----------------------------
(* One conversation with two or three runs, a worker process of two jobs.  *)
EXTENDS MemoryJobs, TLC

CONSTANTS w1, w2

Symmetry == Permutations(Workers)

=============================================================================
