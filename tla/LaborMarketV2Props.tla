-------------------------- MODULE LaborMarketV2Props --------------------------
(***************************************************************************)
(* What must be true of LaborMarketV2: type, safety and action properties, *)
(* the abstract ledger it implements, and liveness.                        *)
(***************************************************************************)
EXTENDS LaborMarketV2, FiniteSetsExt

(* Every variable has its type; in particular no balance is negative. *)
TypeOK ==
    /\ jobs \in [JobIds -> Job]
    /\ jobCount \in 0..MaxJobs
    /\ totalEscrowed \in Nat
    /\ withdrawable \in [Addr -> Nat]
    /\ totalWithdrawable \in Nat
    /\ held \in Nat
    /\ credits \in [JobIds -> [Addr -> Nat]]
    /\ burned \in Nat
    /\ stray \in 0..MaxStray
    /\ blocked \subseteq Blockable
    /\ now \in Nat

-----------------------------------------------------------------------------
(* Money.                                                                  *)

Bond(j) == bondFor(jobs[j].bounty)
Locked(j) ==
    IF ~Live(j) THEN 0
    ELSE jobs[j].bounty + (IF jobs[j].status = "Open" THEN 0 ELSE Bond(j))
Total(f) == MapThenSumSet(LAMBDA x : f[x], DOMAIN f)

(* `totalEscrowed' is exactly the bounties of the unsettled jobs and the     *)
(* bonds staked on them, and `totalWithdrawable' the sum of the balances:    *)
(* no settlement route forgets its part of the bookkeeping, or does it twice.*)
EscrowIsLocked ==
    /\ totalEscrowed = Total([j \in JobIds |-> Locked(j)])
    /\ totalWithdrawable = Total(withdrawable)

(* escrowSolvency() never reads held < owed, and its surplus is the burned  *)
(* bonds and the tokens sent by mistake, to the unit.                       *)
SurplusExplained ==
    /\ escrowSolvency.held >= escrowSolvency.owed
    /\ escrowSolvency.surplus = burned + stray

WasAccepted(j) == jobs[j].worker # NoAddr
WasDelivered(j) == jobs[j].reviewDeadline > 0
WasDisputed(j) == jobs[j].disputeDeadline > 0
IsSettled(j) == jobs[j].requester # NoAddr /\ jobs[j].status \in Settled

(* A settled job credited exactly what it had locked: the bounty, and the   *)
(* bond of a worker that delivered (no other bond comes back to anybody);   *)
(* an unsettled one credited nothing.                                       *)
SettledInFull ==
    \A j \in JobIds :
        Total(credits[j]) =
            IF ~IsSettled(j) THEN 0
            ELSE jobs[j].bounty + (IF WasDelivered(j) THEN Bond(j) ELSE 0)

(* The lender is paid before its borrower on every route: the worker sees   *)
(* money beyond its own bond only once the payee has all of its claim.      *)
LienFirst ==
    \A j \in JobIds :
        IsSettled(j) /\ jobs[j].payee \notin {NoAddr, jobs[j].worker}
        /\ credits[j][jobs[j].worker] > Bond(j)
        => credits[j][jobs[j].payee] >= jobs[j].payeeAmount

(* The bond answers only for not delivering: whoever delivered gets it back *)
(* whatever the verdict, and when it is burned nobody, the requester least  *)
(* of all, is a unit richer than its bounty.                                *)
BondAnswersForDelivery ==
    \A j \in JobIds :
        IsSettled(j) /\ WasAccepted(j) =>
            IF WasDelivered(j)
            THEN credits[j][jobs[j].worker] >= Bond(j)
            ELSE credits[j] = [Nothing EXCEPT ![jobs[j].requester] = jobs[j].bounty]

(* Letting a clock run out never pays the party that let it: a requester    *)
(* silent through the review loses the forfeit, and one whose dispute was   *)
(* never ruled on gets nothing back (unless it holds the worker's lien).    *)
StallNeverPays ==
    \A j \in JobIds :
        IsSettled(j) /\ jobs[j].status = "Expired" /\ WasDelivered(j)
        /\ jobs[j].payee # jobs[j].requester
        => credits[j][jobs[j].requester] =
               IF WasDisputed(j) THEN 0
               ELSE jobs[j].bounty - forfeitOn(jobs[j].bounty)

(* An id nobody posted stays blank: Open is the zero of the enum, so a      *)
(* missing existence check would mint an accepted or expired phantom job.   *)
NoPhantomJobs ==
    \A j \in JobIds :
        IF j > jobCount THEN jobs[j] = NoJob ELSE jobs[j].requester # NoAddr

(* No state holds money without a way out: past the deadline of its state   *)
(* an unsettled job can be settled by a stranger, in one call that succeeds *)
(* whatever the other jobs, the blocklist and the arbiter do.               *)
NoFrozenEscrow ==
    \A j \in JobIds : Live(j) /\ now >= Deadline(j) => ENABLED exit(j)

-----------------------------------------------------------------------------
(* What a step may never do.                                               *)

TermsKept(j) ==
    LET old == jobs[j]  new == jobs'[j]
    IN  /\ IsSettled(j) => new = old /\ credits'[j] = credits[j]
        /\ old.payee # NoAddr =>
               new.payee = old.payee /\ new.payeeAmount = old.payeeAmount
        /\ old.worker # NoAddr =>
               /\ new.worker = old.worker
               /\ new.deliveryDeadline = old.deliveryDeadline
        /\ WasDelivered(j) => new.reviewDeadline = old.reviewDeadline
        /\ WasDisputed(j) => new.disputeDeadline = old.disputeDeadline

(* A settled job is final, and so is a lien: no later call changes either,  *)
(* and none rewrites the terms, the worker or a clock the parties rely on.  *)
TermsAreFinal == [][\A j \in JobIds : TermsKept(j)]_vars

Legs(j, toRequester, toPayeeLeg, toWorkerLeg) ==
    [a \in Addr |-> (IF a = jobs[j].requester THEN toRequester ELSE 0)
                  + (IF a = jobs[j].payee THEN toPayeeLeg ELSE 0)
                  + (IF a = jobs[j].worker THEN toWorkerLeg + Bond(j) ELSE 0)]

(* What releaseSplit quotes a lender is what a release credits, what        *)
(* expirySplit quotes is what silence costs, and a quote of zero is final:  *)
(* the job can no longer pay its worker side the bounty.  A job is never    *)
(* reclaimed while it still quotes its lender something.                    *)
QuotesAreHonest ==
    [][\A j \in JobIds :
         LET rel == releaseSplit(j)  exp == expirySplit(j)
             becomes(s) == Live(j) /\ jobs'[j].status = s
         IN  /\ becomes("Completed") \/ (WasDisputed(j) /\ becomes("Expired")) =>
                    credits'[j] = Legs(j, 0, rel.toPayee, rel.toWorker)
             /\ jobs[j].status = "Submitted" /\ becomes("Expired") =>
                    credits'[j] = Legs(j, exp.toRequester, exp.toPayee, exp.toWorker)
             /\ jobs[j].status = "Accepted" /\ becomes("Refunded") =>
                    rel.toPayee + rel.toWorker = 0
             /\ Live(j) /\ rel.toPayee + rel.toWorker = 0 =>
                    LET after == releaseSplit(j)'
                    IN  after.toPayee + after.toWorker = 0
                        /\ ~becomes("Completed")
      ]_vars

(* The contract implements the abstract ledger. *)
Ledger == INSTANCE EscrowLedger WITH
    Pots <- JobIds, Accounts <- Addr,
    stage <- [j \in JobIds |-> IF Live(j) THEN "open"
                               ELSE IF IsSettled(j) THEN "closed" ELSE "unused"],
    pot <- [j \in JobIds |-> Locked(j)],
    owed <- withdrawable, vault <- held, lost <- burned + stray
LedgerSpec == Ledger!Spec

-----------------------------------------------------------------------------
(* Liveness.  Time passes; somebody (the deadline sweep, or any stranger)   *)
(* calls an exit that stays open.  Nothing is assumed of the requester, the *)
(* worker, the arbiter or the token's issuer.                               *)

ExitsAreCalled == \A j \in JobIds : WF_vars(exit(j))

(* Every posted job is eventually settled. *)
EveryJobSettles == \A j \in JobIds : Live(j) ~> ~Live(j)

(* An owner that keeps trying, to itself or to any other account, collects. *)
OwnersCollect == \A m \in Addr : SF_vars(\E to \in Addr : withdrawTo(m, to))

(* Being on the token's blocklist delays nobody's money for ever: every     *)
(* balance is eventually collected, the frozen owner's included.            *)
EveryBalanceIsCollected ==
    \A m \in Addr : withdrawable[m] > 0 ~> withdrawable[m] = 0

-----------------------------------------------------------------------------
(* The bound a redeployment waits for: the four windows, from the posting.  *)
FullLife == MAX_DELIVERY_WINDOW + REVIEW_WINDOW + DISPUTE_WINDOW
PastItsLife(j) == now >= jobs[j].openDeadline + FullLife

(* No exit is open while time passes: the keepers never dawdle.             *)
Overdue == \E j \in JobIds : Live(j) /\ now >= Deadline(j)
KeepersArePrompt == [][Overdue => UNCHANGED now]_vars
NoneOutlivesIt == \A j \in JobIds : Live(j) => ~PastItsLife(j)

(* docs/v2-plan.md states the same bound for a stranger who arrives only    *)
(* then: every job still holding escrow can be emptied on the spot.  Not an *)
(* invariant of SlowSpec: a late dispute restarts a clock.                  *)
EmptiesAtTheBound == \A j \in JobIds : Live(j) /\ PastItsLife(j) => ENABLED exit(j)
=============================================================================
