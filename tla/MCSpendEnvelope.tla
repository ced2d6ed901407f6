-------------------------- MODULE MCSpendEnvelope --------------------------
(* An instance of SpendEnvelope: the envelopes an owner may set.            *)
EXTENDS SpendEnvelope, TLC

Tight == [perTx |-> 2, daily |-> 3, auto |-> 2]
Loose == [perTx |-> 3, daily |-> 4, auto |-> 1]
OwnerChoices == {Tight, Loose}
Symmetry == Permutations(ToolCalls) \cup Permutations(Bonds)
=============================================================================
