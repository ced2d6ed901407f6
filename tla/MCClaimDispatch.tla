--------------------------- MODULE MCClaimDispatch ---------------------------
(* A miner and an external worker compete for a job, with two requests       *)
(* between them.  Nothing but a claim can happen first, and the requests'    *)
(* names do not matter: the run begins after a claim by p1.                  *)
EXTENDS ClaimDispatch, TLC
CONSTANTS w1, w2, p1, p2
MCWorkers == {w1, w2}
MCMiners == {w1}
MCProcs == {p1, p2}
MCInit ==
    /\ job = [status |-> "Open", by |-> NoWorker, work |-> NoWork, runway |-> TRUE]
    /\ spec \in {[claim |-> w, task |-> NONE, worker |-> NoWorker, tries |-> 0] : w \in Workers}
    /\ tasks = <<>>
    /\ proc = (p1 :> [Idle EXCEPT !.pc = "accept", !.me = spec.claim]) @@ (p2 :> Idle)
    /\ ops = {} /\ judges = {}
    /\ sentBack = {} /\ astray = {}
    /\ late = {} /\ blind = FALSE /\ doubled = FALSE
    /\ mishaps = 0
MCSpec == MCInit /\ [][Next]_vars /\ Fairness
=============================================================================
