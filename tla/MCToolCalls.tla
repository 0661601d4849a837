---------------------------- MODULE MCToolCalls ----------------------------
(* Two calls and two concurrent workers; each cfg says how the calls are   *)
(* routed.  Workers and opaque values are interchangeable.                 *)
EXTENDS ToolCalls, TLC

CONSTANTS c1, c2, w1, w2, id1, id2, a1, a2, r1, r2

Symmetry == Permutations({w1, w2}) \cup Permutations({id1, id2})
              \cup Permutations({a1, a2}) \cup Permutations({r1, r2})

=============================================================================
