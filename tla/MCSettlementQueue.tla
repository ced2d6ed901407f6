------------------------- MODULE MCSettlementQueue -------------------------
(* Instances of SettlementQueue; the constants are in the .cfg files.       *)
EXTENDS SettlementQueue

Symmetry == Permutations(Drains)
=============================================================================
