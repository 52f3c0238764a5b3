---------------------------- MODULE MCGatedLoop ----------------------------
(* Instances of GatedLoop for TLC: connections are model values.           *)
EXTENDS GatedLoop

CONSTANTS g1, c1, c2

OneGamed == {g1}
TwoClients == {c1, c2}
=============================================================================
