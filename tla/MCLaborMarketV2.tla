--------------------------- MODULE MCLaborMarketV2 ---------------------------
(***************************************************************************)
(* Instances of LaborMarketV2 for TLC.  The clock stops while no unsettled *)
(* job has a deadline ahead of it: every guard compares `now' with such a  *)
(* deadline, so a later instant would only repeat the same behaviours.     *)
(***************************************************************************)
EXTENDS LaborMarketV2Props, TLC

CONSTANTS o, a, b, c        \* the operator, and three interchangeable users

Everyone == {o, a, b, c}
Pair == {o, a}
Trio == {o, a, b}
Users == Permutations({a, b, c})

Waiting == \E j \in JobIds : Live(j) /\ now < Deadline(j)

MCNext == Transact \/ (Waiting /\ Tick)
MCSpec == Init /\ [][MCNext]_vars

(* No keeper at all until a stranger comes; the clock runs to MaxTime. *)
MaxTime == MAX_OPEN_WINDOW + FullLife + 1
SlowSpec == Init /\ [][Transact \/ (now < MaxTime /\ Tick)]_vars
=============================================================================
