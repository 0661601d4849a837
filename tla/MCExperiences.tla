---------------------------- MODULE MCExperiences ----------------------------
(* Values of the constants of Experiences for TLC.                         *)
EXTENDS Experiences, TLC

CONSTANTS c1, c2

TwoClients == {c1, c2}
ClientSymmetry == Permutations(TwoClients)

Filled(fs) == [f \in Fields |-> IF f \in fs THEN 1 ELSE 0]

SomeDrafts == {[fields |-> Filled({}), contents |-> <<>>],
               [fields |-> Filled({"role", "end_date"}), contents |-> <<1, 0>>],
               [fields |-> Filled({"role", "is_current"}), contents |-> <<1>>]}

AllOperations == {"patch", "save", "add", "change", "remove", "reorder", "mark_ready",
                  "archive", "restore", "delete", "assist"}
=============================================================================
