---------------------------- MODULE MCAdvanceDesk ----------------------------
(* AdvanceDesk for TLC.  The roles are fixed: one account posts the job and *)
(* rules on it, one borrows and two lend, to a first-time borrower or to    *)
(* one that finished six delegations of at most $4.                         *)
EXTENDS AdvanceDesk, TLC

CONSTANTS req, wrk, la, lb, r1, r2
MCAddr == {req, wrk, la, lb}
MCLenders == {la, lb}
MCRequests == {r1, r2}
MCRecords == {[attempts |-> 0, completed |-> 0, largest |-> 0],
              [attempts |-> 6, completed |-> 6, largest |-> 400]}
MCRoles == \A j \in JobIds : jobs[j].requester \in {NoAddr, req} /\ jobs[j].worker \in {NoAddr, wrk}
MCSymmetry == Permutations(MCRequests) \cup Permutations(MCLenders)
=============================================================================
