--------------------------- MODULE MCInteractions ---------------------------
(* One conversation with two runs; each cfg bounds handlers and faults.    *)
EXTENDS Interactions, TLC

CONSTANTS h1, h2

Symmetry == Permutations(Handlers)

=============================================================================
