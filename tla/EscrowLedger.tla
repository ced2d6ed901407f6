----------------------------- MODULE EscrowLedger -----------------------------
(***************************************************************************)
(* What an escrow promises, whatever its states, deadlines and parties: a  *)
(* vault in which every unit is in exactly one pot, owed to one account,   *)
(* or lost.  A pot is closed once, and pays out no more than it holds.     *)
(***************************************************************************)
EXTENDS Integers, FiniteSets, FiniteSetsExt

CONSTANTS Pots, Accounts

VARIABLES
    stage,      \* of each pot: "unused", "open" or "closed"
    pot,        \* the money locked in each pot
    owed,       \* what each account may collect
    vault,      \* the money actually held
    lost        \* the part of it nobody can claim

ledger == <<stage, pot, owed, vault, lost>>

Sum(f) == MapThenSumSet(LAMBDA x : f[x], DOMAIN f)

Init ==
    /\ stage = [p \in Pots |-> "unused"]
    /\ pot = [p \in Pots |-> 0]
    /\ owed = [a \in Accounts |-> 0]
    /\ vault = 0
    /\ lost = 0

Gains == /\ owed' \in [Accounts -> Nat]
         /\ \A a \in Accounts : owed'[a] >= owed[a]

(* Money for the pot and a fee for somebody come in together. *)
Fund(p) ==
    /\ stage[p] = "unused"
    /\ stage' = [stage EXCEPT ![p] = "open"]
    /\ pot'[p] > 0 /\ pot' = [pot EXCEPT ![p] = pot'[p]]
    /\ Gains
    /\ vault' = vault + pot'[p] + (Sum(owed') - Sum(owed))
    /\ UNCHANGED lost

Stake(p) ==
    /\ stage[p] = "open"
    /\ pot'[p] > pot[p] /\ pot' = [pot EXCEPT ![p] = pot'[p]]
    /\ vault' = vault + (pot'[p] - pot[p])
    /\ UNCHANGED <<stage, owed, lost>>

(* The pot is emptied into what accounts are owed; the rest is lost. *)
Settle(p) ==
    /\ stage[p] = "open"
    /\ stage' = [stage EXCEPT ![p] = "closed"]
    /\ pot' = [pot EXCEPT ![p] = 0]
    /\ Gains
    /\ lost' >= lost
    /\ (Sum(owed') - Sum(owed)) + (lost' - lost) = pot[p]
    /\ UNCHANGED vault

(* An account takes all it is owed, and nothing else moves. *)
Collect(a) ==
    /\ owed[a] > 0
    /\ owed' = [owed EXCEPT ![a] = 0]
    /\ vault' = vault - owed[a]
    /\ UNCHANGED <<stage, pot, lost>>

Stray ==
    /\ vault' > vault
    /\ lost' - lost = vault' - vault
    /\ UNCHANGED <<stage, pot, owed>>

Next ==
    \/ \E p \in Pots : Fund(p) \/ Stake(p) \/ Settle(p)
    \/ \E a \in Accounts : Collect(a)
    \/ Stray

Spec == Init /\ [][Next]_ledger
=============================================================================
