---------------------------- MODULE MCPriceRaise ----------------------------
(* Instances of PriceRaise; the constants are in the .cfg files.           *)
EXTENDS PriceRaise

Symmetry == Permutations(Sweeps) \cup Permutations(Resumes)
Raising == {"cancel", "cancelling", "post"}
AroundCancel == {"cancel", "post"}
Claimed == {"Accepted"}
=============================================================================
