------------------------------ MODULE MCGated ------------------------------
(* Instances of Gated for TLC: connections are model values.               *)
EXTENDS Gated, TLC

CONSTANTS g1, g2, s1, c1, c2

OneGamed == {g1}
TwoGameds == {g1, g2}
OneStray == {s1}
OneClient == {c1}
TwoClients == {c1, c2}
None == {}

GamedSymmetry == Permutations(TwoGameds)
ClientSymmetry == Permutations(TwoClients)
=============================================================================
