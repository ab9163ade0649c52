----------------------------- MODULE RelayDialMC -----------------------------
(* RelayDial for TLC: one dial that rings two legs, two inbound calls; the *)
(* legs, and the inbound calls, are interchangeable.                       *)
EXTENDS RelayDial, TLC

CONSTANTS t1, c1, c2, i1, i2

TwoLegs  == [t \in {t1} |-> {c1, c2}]
Symmetry == Permutations({c1, c2}) \cup Permutations({i1, i2})
=============================================================================
