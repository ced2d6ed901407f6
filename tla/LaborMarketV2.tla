---------------------------- MODULE LaborMarketV2 ----------------------------
(***************************************************************************)
(* The escrow contract contracts/src/LaborMarketV2.sol.  One action per    *)
(* external function; a reverting transaction is a disabled action.        *)
(*                                                                         *)
(* What is abstracted: block timestamps and windows are natural numbers in *)
(* an arbitrary unit; specHash and resultHash are left out, for nothing    *)
(* on-chain depends on them; the Credited and BondBurned events are kept   *)
(* as the history variables `credits' and `burned'.  The checked           *)
(* subtraction of Solidity 0.8 is a guard, because an underflow would      *)
(* revert the settlement and freeze the job.                               *)
(*                                                                         *)
(* A definition named X_slip is X with a mistake a change to the contract  *)
(* could make; the runs check that each breaks the property it should.     *)
(***************************************************************************)
EXTENDS Integers, FiniteSets, Functions

CONSTANTS
    Addr,               \* accounts that may call the contract
    NoAddr,             \* address(0)
    arbiter,            \* the account that rules on disputes
    feeRecipient,       \* where posting fees are credited
    Blockable,          \* accounts the token's issuer may put on its blocklist
    MaxJobs,            \* the bound on jobCount (2^256 - 1 in the contract)
    MaxStray,           \* the bound on tokens sent to the contract by mistake
    Bounties, Scores, Windows,      \* what a poster may ask for
    feeBps, flatFee, bondBps, flatBond, SilenceForfeitBps,
    MIN_BOUNTY, MIN_DELIVERY_WINDOW, MAX_DELIVERY_WINDOW,
    MAX_OPEN_WINDOW, REVIEW_WINDOW, DISPUTE_WINDOW

BPS == 10000
MAX_FEE_BPS == 500
MAX_BOND_BPS == 2000
MAX_SILENCE_FORFEIT_BPS == 2000

(* What the constructor refuses to deploy without. *)
ConfigOk ==
    /\ NoAddr \notin Addr
    /\ feeBps \in 0..MAX_FEE_BPS
    /\ flatFee \in Nat
    /\ feeRecipient \in Addr \/ (feeBps = 0 /\ flatFee = 0)
    /\ bondBps \in 0..MAX_BOND_BPS
    /\ flatBond \in Nat
    /\ SilenceForfeitBps \in 0..MAX_SILENCE_FORFEIT_BPS
    /\ MIN_BOUNTY \in Nat \ {0}
    /\ MIN_DELIVERY_WINDOW \in Nat \ {0}
    /\ MAX_DELIVERY_WINDOW \in Nat
    /\ MAX_DELIVERY_WINDOW >= MIN_DELIVERY_WINDOW
    /\ MAX_OPEN_WINDOW \in Nat \ {0}
    /\ REVIEW_WINDOW \in Nat \ {0}
    /\ DISPUTE_WINDOW \in Nat \ {0}
ASSUME ConfigAssumption == ConfigOk

(* An address has 160 bits. *)
ASSUME AddrAssumption == IsFiniteSet(Addr)

(* The inputs the model offers to the functions are of the ABI's types. *)
ASSUME InputAssumption ==
    /\ MaxJobs \in Nat
    /\ MaxStray \in Nat
    /\ Blockable \subseteq Addr
    /\ Bounties \subseteq Nat
    /\ Scores \subseteq Nat
    /\ Windows \subseteq Nat

VARIABLES
    jobs,               \* the mapping of job ids to job records
    jobCount,
    totalEscrowed,      \* money owed to unfinished jobs
    withdrawable,       \* money each account has earned and not collected
    totalWithdrawable,
    held,               \* usdc.balanceOf(contract)
    credits,            \* the Credited events: per job, what each account got
    burned,             \* the BondBurned events, summed
    stray,              \* tokens sent to the contract outside its functions
    blocked,            \* accounts the token refuses to move money from or to
    now                 \* block.timestamp

book == <<totalEscrowed, withdrawable, totalWithdrawable, held, credits, burned, stray>>
vars == <<jobs, jobCount, book, blocked, now>>

JobIds == 1..MaxJobs
Status == {"Open", "Accepted", "Submitted", "Completed", "Cancelled",
           "Disputed", "Refunded", "Expired"}
Settled == {"Completed", "Cancelled", "Refunded", "Expired"}

Job == [requester : Addr \cup {NoAddr}, worker : Addr \cup {NoAddr},
        bounty : Nat, minScore : Nat, status : Status,
        openDeadline : Nat, deliveryDeadline : Nat, reviewDeadline : Nat,
        disputeDeadline : Nat, deliveryWindow : Nat,
        payee : Addr \cup {NoAddr}, payeeAmount : Nat]

(* A slot nobody wrote: every field zero, and Open is the zero of the enum. *)
NoJob == [requester |-> NoAddr, worker |-> NoAddr, bounty |-> 0,
          minScore |-> 0, status |-> "Open", openDeadline |-> 0,
          deliveryDeadline |-> 0, reviewDeadline |-> 0, disputeDeadline |-> 0,
          deliveryWindow |-> 0, payee |-> NoAddr, payeeAmount |-> 0]

Nothing == [a \in Addr |-> 0]

feeOn(bounty) == flatFee + (bounty * feeBps) \div BPS
bondFor(bounty) == flatBond + (bounty * bondBps) \div BPS
forfeitOn(bounty) == (bounty * SilenceForfeitBps) \div BPS

Init ==
    /\ jobs = [j \in JobIds |-> NoJob]
    /\ jobCount = 0
    /\ totalEscrowed = 0
    /\ withdrawable = Nothing
    /\ totalWithdrawable = 0
    /\ held = 0
    /\ credits = [j \in JobIds |-> Nothing]
    /\ burned = 0
    /\ stray = 0
    /\ blocked = {}
    /\ now = 0

-----------------------------------------------------------------------------
(* Posting, accepting, delivering.                                         *)

PullFrom_slip(m, amount) == m \notin blocked /\ held' = held + amount - 1

(* The token moves `amount' from m to the contract, or the call reverts. *)
PullFrom(m, amount) == m \notin blocked /\ held' = held + amount

newJob(m, bounty, minScore, window) ==
    [requester |-> m, worker |-> NoAddr, bounty |-> bounty,
     minScore |-> minScore, status |-> "Open",
     openDeadline |-> now + MAX_OPEN_WINDOW,
     deliveryDeadline |-> 0, reviewDeadline |-> 0, disputeDeadline |-> 0,
     deliveryWindow |-> window, payee |-> NoAddr, payeeAmount |-> 0]

(* The bounty is escrowed and the fee is credited to its recipient. *)
postJob(m, bounty, minScore, window) ==
    /\ jobCount < MaxJobs
    /\ window >= MIN_DELIVERY_WINDOW /\ window <= MAX_DELIVERY_WINDOW
    /\ bounty >= MIN_BOUNTY
    /\ PullFrom(m, bounty + feeOn(bounty))
    /\ withdrawable' = [withdrawable EXCEPT ![feeRecipient] = @ + feeOn(bounty)]
    /\ totalWithdrawable' = totalWithdrawable + feeOn(bounty)
    /\ totalEscrowed' = totalEscrowed + bounty
    /\ jobCount' = jobCount + 1
    /\ jobs' = [jobs EXCEPT ![jobCount + 1] =
                   newJob(m, bounty, minScore, window)]
    /\ UNCHANGED <<credits, burned, stray, blocked, now>>

(* The registry answers with a score, or (NoScore) does not answer. *)
NoScore == -1
scoreOk(answer, minScore) ==
    IF answer = NoScore THEN minScore = 0 ELSE answer >= minScore

acceptJob(m, j, answer) ==
    /\ jobs[j].requester # NoAddr
    /\ jobs[j].status = "Open"
    /\ now < jobs[j].openDeadline
    /\ m # jobs[j].requester
    /\ scoreOk(answer, jobs[j].minScore)
    /\ jobs' = [jobs EXCEPT ![j].worker = m, ![j].status = "Accepted",
                            ![j].deliveryDeadline = now + jobs[j].deliveryWindow]
    /\ LET bond == bondFor(jobs[j].bounty)
       IN  IF bond > 0
           THEN PullFrom(m, bond) /\ totalEscrowed' = totalEscrowed + bond
           ELSE UNCHANGED <<held, totalEscrowed>>
    /\ UNCHANGED <<jobCount, withdrawable, totalWithdrawable, credits, burned,
                   stray, blocked, now>>

submitWork(m, j) ==
    /\ jobs[j].status = "Accepted"
    /\ m = jobs[j].worker
    /\ now < jobs[j].deliveryDeadline
    /\ jobs' = [jobs EXCEPT ![j].status = "Submitted",
                            ![j].reviewDeadline = now + REVIEW_WINDOW]
    /\ UNCHANGED <<jobCount, book, blocked, now>>

assignPayee_slip(m, j, payee, amount) ==        \* a second lien replaces the first
    /\ jobs[j].status = "Accepted"
    /\ m = jobs[j].worker
    /\ now < jobs[j].deliveryDeadline
    /\ amount # 0 /\ amount <= jobs[j].bounty
    /\ jobs' = [jobs EXCEPT ![j].payee = payee, ![j].payeeAmount = amount]
    /\ UNCHANGED <<jobCount, book, blocked, now>>

(* The worker pledges part of the release to a lender, once and for good. *)
assignPayee(m, j, payee, amount) ==
    /\ jobs[j].status = "Accepted"
    /\ m = jobs[j].worker
    /\ now < jobs[j].deliveryDeadline
    /\ payee # NoAddr
    /\ jobs[j].payee = NoAddr
    /\ amount # 0 /\ amount <= jobs[j].bounty
    /\ jobs' = [jobs EXCEPT ![j].payee = payee, ![j].payeeAmount = amount]
    /\ UNCHANGED <<jobCount, book, blocked, now>>

raiseDispute_slip(m, j) ==                      \* a dispute can be raised again
    /\ jobs[j].status \in {"Submitted", "Disputed"}
    /\ m = jobs[j].requester
    /\ jobs' = [jobs EXCEPT ![j].status = "Disputed",
                            ![j].disputeDeadline = now + DISPUTE_WINDOW]
    /\ UNCHANGED <<jobCount, book, blocked, now>>

raiseDispute(m, j) ==
    /\ jobs[j].status = "Submitted"
    /\ m = jobs[j].requester
    /\ jobs' = [jobs EXCEPT ![j].status = "Disputed",
                            ![j].disputeDeadline = now + DISPUTE_WINDOW]
    /\ UNCHANGED <<jobCount, book, blocked, now>>

-----------------------------------------------------------------------------
(* Settlement: money moves from the job's escrow to withdrawable balances. *)

toPayee_slip(job, amount) ==                    \* not capped by what is released
    IF job.payee = NoAddr THEN 0 ELSE job.payeeAmount
toPayee_slip2(job, amount) ==                   \* pro rata instead of lender first
    IF job.payee = NoAddr THEN 0 ELSE (amount * job.payeeAmount) \div job.bounty

(* How much of `amount', and of the bond, the payee and the worker get. *)
toPayee(job, amount) ==
    IF job.payee = NoAddr THEN 0
    ELSE IF amount < job.payeeAmount THEN amount ELSE job.payeeAmount
workerSide_slip(job, amount) ==                 \* the bond is forgotten
    [payee |-> toPayee(job, amount), worker |-> amount - toPayee(job, amount)]
workerSide_slip2(job, amount) ==                \* the lien is paid on top
    [payee |-> toPayee(job, amount), worker |-> amount + bondFor(job.bounty)]
workerSide(job, amount) ==
    [payee |-> toPayee(job, amount),
     worker |-> (amount - toPayee(job, amount)) + bondFor(job.bounty)]

(* Job j ends in `status': its requester, payee and worker are credited and *)
(* `burn' leaves the escrow uncredited.  No token moves.                    *)
settle(j, status, refund, side, burn) ==
    LET job == jobs[j]
        out == refund + side.payee + side.worker
        share == [a \in Addr |-> (IF a = job.requester THEN refund ELSE 0)
                               + (IF a = job.payee THEN side.payee ELSE 0)
                               + (IF a = job.worker THEN side.worker ELSE 0)]
    IN  /\ totalEscrowed >= out + burn
        /\ jobs' = [jobs EXCEPT ![j].status = status]
        /\ totalEscrowed' = totalEscrowed - (out + burn)
        /\ withdrawable' = [a \in Addr |-> withdrawable[a] + share[a]]
        /\ totalWithdrawable' = totalWithdrawable + out
        /\ credits' = [credits EXCEPT ![j] = [a \in Addr |-> @[a] + share[a]]]
        /\ burned' = burned + burn
        /\ UNCHANGED <<jobCount, held, stray, blocked, now>>

noSide == [payee |-> 0, worker |-> 0]
release(j, status) ==
    settle(j, status, 0, workerSide(jobs[j], jobs[j].bounty), 0)

approveJob(m, j) ==
    /\ jobs[j].status = "Submitted"
    /\ m = jobs[j].requester
    /\ release(j, "Completed")

resolveDispute(m, j, releaseToWorker) ==
    /\ jobs[j].status = "Disputed"
    /\ m = arbiter
    /\ IF releaseToWorker
       THEN release(j, "Completed")
       ELSE settle(j, "Refunded", jobs[j].bounty, workerSide(jobs[j], 0), 0)

cancelJob(m, j) ==
    /\ jobs[j].status = "Open"
    /\ m = jobs[j].requester
    /\ settle(j, "Cancelled", jobs[j].bounty, noSide, 0)

(* The permissionless exits: anyone may call them once a deadline passed. *)
reclaimJob_slip(j) ==                           \* the bond goes to the requester
    /\ jobs[j].status = "Accepted"
    /\ now >= jobs[j].deliveryDeadline
    /\ settle(j, "Refunded", jobs[j].bounty + bondFor(jobs[j].bounty), noSide, 0)
reclaimJob_slip2(j) ==                          \* the burn stays in totalEscrowed
    /\ jobs[j].status = "Accepted"
    /\ now >= jobs[j].deliveryDeadline
    /\ settle(j, "Refunded", jobs[j].bounty, noSide, 0)
reclaimJob_slip3(j) ==                          \* closed at the deadline itself
    /\ jobs[j].status = "Accepted"
    /\ now > jobs[j].deliveryDeadline
    /\ settle(j, "Refunded", jobs[j].bounty, noSide, bondFor(jobs[j].bounty))
reclaimJob(j) ==
    /\ jobs[j].status = "Accepted"
    /\ now >= jobs[j].deliveryDeadline
    /\ settle(j, "Refunded", jobs[j].bounty, noSide, bondFor(jobs[j].bounty))

expireOpen_slip(j) ==                           \* an unposted id passes
    /\ jobs[j].status = "Open"
    /\ now >= jobs[j].openDeadline
    /\ settle(j, "Expired", jobs[j].bounty, noSide, 0)
expireOpen(j) ==
    /\ jobs[j].requester # NoAddr
    /\ jobs[j].status = "Open"
    /\ now >= jobs[j].openDeadline
    /\ settle(j, "Expired", jobs[j].bounty, noSide, 0)

expireReview(j) ==
    LET forfeit == forfeitOn(jobs[j].bounty)
    IN  /\ jobs[j].status = "Submitted"
        /\ now >= jobs[j].reviewDeadline
        /\ settle(j, "Expired", jobs[j].bounty - forfeit,
                  workerSide(jobs[j], forfeit), 0)

expireDispute_slip(j) ==                        \* silence of the arbiter refunds
    /\ jobs[j].status = "Disputed"
    /\ now >= jobs[j].disputeDeadline
    /\ settle(j, "Expired", jobs[j].bounty, workerSide(jobs[j], 0), 0)
expireDispute(j) ==
    /\ jobs[j].status = "Disputed"
    /\ now >= jobs[j].disputeDeadline
    /\ release(j, "Expired")

exit_slip(j) == reclaimJob(j) \/ expireOpen(j) \/ expireReview(j)
exit(j) == reclaimJob(j) \/ expireOpen(j) \/ expireReview(j) \/ expireDispute(j)

withdrawTo_slip(m, to) ==                       \* only to oneself
    /\ withdrawable[m] > 0
    /\ m \notin blocked
    /\ withdrawable' = [withdrawable EXCEPT ![m] = 0]
    /\ totalWithdrawable' = totalWithdrawable - withdrawable[m]
    /\ held' = held - withdrawable[m]
    /\ UNCHANGED <<jobs, jobCount, totalEscrowed, credits, burned, stray, blocked, now>>
(* withdraw() is withdrawTo(msg.sender). *)
withdrawTo(m, to) ==
    /\ withdrawable[m] > 0
    /\ to \notin blocked
    /\ held >= withdrawable[m]
    /\ totalWithdrawable >= withdrawable[m]
    /\ withdrawable' = [withdrawable EXCEPT ![m] = 0]
    /\ totalWithdrawable' = totalWithdrawable - withdrawable[m]
    /\ held' = held - withdrawable[m]
    /\ UNCHANGED <<jobs, jobCount, totalEscrowed, credits, burned, stray, blocked, now>>

-----------------------------------------------------------------------------
(* The environment: the token's blocklist, mistaken transfers, the clock.  *)

setBlocked(a) ==
    /\ blocked' = IF a \in blocked THEN blocked \ {a} ELSE blocked \cup {a}
    /\ UNCHANGED <<jobs, jobCount, book, now>>

strayTransfer ==
    /\ stray < MaxStray
    /\ stray' = stray + 1
    /\ held' = held + 1
    /\ UNCHANGED <<jobs, jobCount, totalEscrowed, withdrawable,
                   totalWithdrawable, credits, burned, blocked, now>>

Tick ==
    /\ now' = now + 1
    /\ UNCHANGED <<jobs, jobCount, book, blocked>>

(* Everything an account or an issuer can do; the clock apart. *)
Transact ==
    \/ \E m \in Addr, b \in Bounties, s \in Scores, w \in Windows : postJob(m, b, s, w)
    \/ \E j \in JobIds : exit(j)
    \/ \E m \in Addr, j \in JobIds :
          \/ \E answer \in Scores \cup {NoScore} : acceptJob(m, j, answer)
          \/ submitWork(m, j)
          \/ \E payee \in Addr, amount \in 0..jobs[j].bounty + 1 : assignPayee(m, j, payee, amount)
          \/ approveJob(m, j)
          \/ raiseDispute(m, j)
          \/ \E verdict \in BOOLEAN : resolveDispute(m, j, verdict)
          \/ cancelJob(m, j)
    \/ \E m, to \in Addr : withdrawTo(m, to)
    \/ \E a \in Blockable : setBlocked(a)
    \/ strayTransfer

Next == Transact \/ Tick
Spec == Init /\ [][Next]_vars

-----------------------------------------------------------------------------
(* The contract's views.                                                   *)

Live(j) == jobs[j].requester # NoAddr /\ jobs[j].status \notin Settled

releaseSplit_slip(j) ==                         \* blind to the delivery deadline
    IF jobs[j].status \in Settled
    THEN [payee |-> NoAddr, toPayee |-> 0, toWorker |-> 0]
    ELSE LET p == IF jobs[j].payee = NoAddr THEN 0 ELSE jobs[j].payeeAmount
         IN  [payee |-> jobs[j].payee, toPayee |-> p, toWorker |-> jobs[j].bounty - p]
releaseSplit(j) ==
    IF \/ jobs[j].status \in Settled
       \/ jobs[j].status = "Accepted" /\ now >= jobs[j].deliveryDeadline
    THEN [payee |-> NoAddr, toPayee |-> 0, toWorker |-> 0]
    ELSE LET p == IF jobs[j].payee = NoAddr THEN 0 ELSE jobs[j].payeeAmount
         IN  [payee |-> jobs[j].payee, toPayee |-> p, toWorker |-> jobs[j].bounty - p]

expirySplit(j) ==
    IF jobs[j].status # "Submitted"
    THEN [toRequester |-> 0, toPayee |-> 0, toWorker |-> 0]
    ELSE LET forfeit == forfeitOn(jobs[j].bounty)
             p == toPayee(jobs[j], forfeit)
         IN  [toRequester |-> jobs[j].bounty - forfeit, toPayee |-> p,
              toWorker |-> forfeit - p]

escrowSolvency ==
    LET owed == totalEscrowed + totalWithdrawable
    IN  [owed |-> owed, held |-> held,
         surplus |-> IF held > owed THEN held - owed ELSE 0]

(* The deadline of the state job j is in; each has a permissionless exit. *)
Deadline(j) ==
    CASE jobs[j].status = "Open" -> jobs[j].openDeadline
      [] jobs[j].status = "Accepted" -> jobs[j].deliveryDeadline
      [] jobs[j].status = "Submitted" -> jobs[j].reviewDeadline
      [] OTHER -> jobs[j].disputeDeadline
=============================================================================
