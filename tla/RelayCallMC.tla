----------------------------- MODULE RelayCallMC -----------------------------
(* RelayCall for TLC: two actions of the given kinds.                      *)
EXTENDS RelayCall

CONSTANTS a1, a2

CollectAndDetect == [a \in {a1, a2} |-> IF a = a1 THEN "collect" ELSE "detect"]
PlayAndFax       == [a \in {a1, a2} |-> IF a = a1 THEN "play" ELSE "fax"]
=============================================================================
