---------------------------- MODULE MCGeneration ----------------------------
(* Values of the constants of Generation for TLC.                          *)
EXTENDS Generation, TLC

CONSTANTS k1, k2

TwoClients == {k1, k2}
ClientSymmetry == Permutations(TwoClients)

(* One skill, which is the text of one of two items.                       *)
TwoItems == {"a", "b"}
OneMust == [a |-> "nice", b |-> "must"]
OneMention == {<<"s", "a">>}

(* Two experiences compete for one place.                                  *)
BothWork == [x \in {1, 2} |-> "workExperience"]
OnePlace == [workExperience |-> 1, personalProjects |-> 1]

TwoReady == {[ready |-> {1, 2}, owner |-> <<1, 2>>, labels |-> <<{}, {"s"}>>]}
=============================================================================
