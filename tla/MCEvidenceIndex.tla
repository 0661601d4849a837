--------------------------- MODULE MCEvidenceIndex ---------------------------
(* Values of the constants of EvidenceIndex for TLC.                       *)
EXTENDS EvidenceIndex

(* The second experience has no evidence, or the only evidence.            *)
TwoLibraries == {[ready |-> {1}, owner |-> <<1, 1>>, labels |-> <<{"s"}, {}>>],
                 [ready |-> {1, 2}, owner |-> <<1, 2>>, labels |-> <<{}, {"s"}>>]}
=============================================================================
