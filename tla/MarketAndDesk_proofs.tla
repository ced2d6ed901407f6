------------------------- MODULE MarketAndDesk_proofs -------------------------
(***************************************************************************)
(* Theorems about LaborMarketV2, for every configuration the constructor   *)
(* accepts, any number of accounts and jobs, and an unbounded clock; and,  *)
(* after them, about AdvanceDesk, which extends the contract and whose     *)
(* proofs reuse the contract's lemmas.  Nothing of the first part refers   *)
(* to the desk.                                                            *)
(***************************************************************************)
EXTENDS LaborMarketV2Watch, AdvanceDesk, SumLemmas

(* The rates: a bond and a fee are amounts, a forfeit is part of the bounty. *)
LEMMA Rates ==
    ASSUME NEW bounty \in Nat
    PROVE  /\ bondFor(bounty) \in Nat
           /\ feeOn(bounty) \in Nat
           /\ forfeitOn(bounty) \in 0..bounty
<1>1. bondFor(bounty) \in Nat
  <2>1. bounty * bondBps \in Nat
    BY ConfigAssumption DEF ConfigOk, MAX_BOND_BPS
  <2>2. (bounty * bondBps) \div BPS \in Nat
    BY <2>1 DEF BPS
  <2>3. QED
    BY <2>2, ConfigAssumption DEF ConfigOk, bondFor
<1>2. feeOn(bounty) \in Nat
  <2>1. bounty * feeBps \in Nat
    BY ConfigAssumption DEF ConfigOk, MAX_FEE_BPS
  <2>2. (bounty * feeBps) \div BPS \in Nat
    BY <2>1 DEF BPS
  <2>3. QED
    BY <2>2, ConfigAssumption DEF ConfigOk, feeOn
<1>3. forfeitOn(bounty) \in 0..bounty
  <2> DEFINE part == bounty * SilenceForfeitBps
  <2>1. part \in 0..(bounty * 2000)
    BY ConfigAssumption DEF ConfigOk, MAX_SILENCE_FORFEIT_BPS
  <2> HIDE DEF part
  <2>2. part \div 10000 \in 0..bounty
    BY <2>1
  <2>3. QED
    BY <2>2 DEF forfeitOn, BPS, part
<1>4. QED
  BY <1>1, <1>2, <1>3

(* The forfeit for silence and what it leaves of the bounty are both amounts. *)
LEMMA ForfeitType ==
    ASSUME NEW bounty \in Nat
    PROVE  forfeitOn(bounty) \in Nat /\ bounty - forfeitOn(bounty) \in Nat
<1>1. forfeitOn(bounty) \in 0..bounty
  BY Rates
<1>2. QED
  BY <1>1

(* What the worker side of a settlement gets: never negative. *)
LEMMA WorkerSideType ==
    ASSUME NEW job \in Job, NEW amount \in Nat
    PROVE  workerSide(job, amount) \in [payee : Nat, worker : Nat]
<1>1. job.bounty \in Nat /\ job.payeeAmount \in Nat
  BY DEF Job
<1>2. bondFor(job.bounty) \in Nat
  BY <1>1, Rates
<1>3. toPayee(job, amount) \in 0..amount
  BY <1>1 DEF toPayee
<1>4. QED
  BY <1>2, <1>3 DEF workerSide

(* A settlement keeps every type. *)
LEMMA SettleType ==
    ASSUME TypeOK, NEW j \in JobIds, NEW status \in Status, NEW refund \in Nat,
           NEW side \in [payee : Nat, worker : Nat], NEW burn \in Nat,
           settle(j, status, refund, side, burn)
    PROVE  TypeOK'
<1> DEFINE share(a) == (IF a = jobs[j].requester THEN refund ELSE 0)
                     + (IF a = jobs[j].payee THEN side.payee ELSE 0)
                     + (IF a = jobs[j].worker THEN side.worker ELSE 0)
           out == refund + side.payee + side.worker
<1>1. \A a \in Addr : share(a) \in Nat
  OBVIOUS
<1>2. out \in Nat
  OBVIOUS
<1>3. /\ totalEscrowed >= out + burn
      /\ jobs' = [jobs EXCEPT ![j].status = status]
      /\ totalEscrowed' = totalEscrowed - (out + burn)
      /\ withdrawable' = [a \in Addr |-> withdrawable[a] + share(a)]
      /\ totalWithdrawable' = totalWithdrawable + out
      /\ credits' = [credits EXCEPT ![j] = [a \in Addr |-> @[a] + share(a)]]
      /\ burned' = burned + burn
      /\ UNCHANGED <<jobCount, held, stray, blocked, now>>
  BY DEF settle
<1> HIDE DEF share, out
<1>4. jobs' \in [JobIds -> Job]
  <2> DEFINE rec == [jobs[j] EXCEPT !.status = status]
  <2>1. jobs \in [JobIds -> Job] /\ jobs[j] \in Job
    BY DEF TypeOK
  <2>2. rec \in Job
    BY <2>1 DEF Job
  <2>3. jobs' = [jobs EXCEPT ![j] = rec]
    BY <1>3, <2>1
  <2> HIDE DEF rec
  <2>4. QED
    BY <2>1, <2>2, <2>3
<1>5. withdrawable' \in [Addr -> Nat]
  BY <1>1, <1>3 DEF TypeOK
<1>6. credits' \in [JobIds -> [Addr -> Nat]]
  <2>1. [a \in Addr |-> credits[j][a] + share(a)] \in [Addr -> Nat]
    BY <1>1 DEF TypeOK
  <2>2. credits' = [credits EXCEPT ![j] = [a \in Addr |-> credits[j][a] + share(a)]]
    BY <1>3 DEF TypeOK
  <2>3. QED
    BY <2>1, <2>2 DEF TypeOK
<1>7. totalEscrowed' \in Nat /\ totalWithdrawable' \in Nat /\ burned' \in Nat
  BY <1>2, <1>3 DEF TypeOK
<1>8. QED
  BY <1>3, <1>4, <1>5, <1>6, <1>7 DEF TypeOK

(* Every step keeps every type. *)
LEMMA StepType == TypeOK /\ [Next]_vars => TypeOK'
<1> SUFFICES ASSUME TypeOK, [Next]_vars PROVE TypeOK'
  OBVIOUS
<1> USE InputAssumption
<1>0. ASSUME NEW j \in JobIds
      PROVE  /\ jobs[j] \in Job
             /\ jobs[j].bounty \in Nat
             /\ bondFor(jobs[j].bounty) \in Nat
             /\ forfeitOn(jobs[j].bounty) \in 0..jobs[j].bounty
             /\ noSide \in [payee : Nat, worker : Nat]
  <2>1. jobs[j] \in Job
    BY <1>0 DEF TypeOK
  <2>2. jobs[j].bounty \in Nat
    BY <2>1 DEF Job
  <2>3. QED
    BY <2>1, <2>2, Rates DEF noSide
<1>1. ASSUME NEW m \in Addr, NEW b \in Bounties, NEW s \in Scores, NEW w \in Windows,
             postJob(m, b, s, w)
      PROVE  TypeOK'
  <2>1. b \in Nat /\ feeOn(b) \in Nat /\ s \in Nat /\ w \in Nat
    BY Rates
  <2>2. jobCount + 1 \in JobIds
    BY <1>1 DEF postJob, TypeOK, JobIds
  <2>3. newJob(m, b, s, w) \in Job
    <3>1. now + MAX_OPEN_WINDOW \in Nat
      BY ConfigAssumption DEF ConfigOk, TypeOK
    <3>2. QED
      BY <2>1, <3>1 DEF newJob, Job, Status
  <2>4. jobs' \in [JobIds -> Job]
    BY <1>1, <2>2, <2>3 DEF postJob, TypeOK
  <2>5. withdrawable' \in [Addr -> Nat]
    <3>1. withdrawable' = [withdrawable EXCEPT ![feeRecipient] = @ + feeOn(b)]
      BY <1>1 DEF postJob
    <3>2. withdrawable' = [a \in Addr |-> IF a = feeRecipient THEN withdrawable[a] + feeOn(b)
                                          ELSE withdrawable[a]]
      BY <3>1 DEF TypeOK
    <3>3. QED
      BY <2>1, <3>2 DEF TypeOK
  <2>6. held' \in Nat /\ totalEscrowed' \in Nat /\ totalWithdrawable' \in Nat
    <3>1. /\ held' = held + (b + feeOn(b))
          /\ totalEscrowed' = totalEscrowed + b
          /\ totalWithdrawable' = totalWithdrawable + feeOn(b)
      BY <1>1 DEF postJob, PullFrom
    <3>2. QED
      BY <2>1, <3>1 DEF TypeOK
  <2>7. jobCount' \in 0..MaxJobs
    BY <1>1 DEF postJob, TypeOK
  <2>8. QED
    BY <1>1, <2>4, <2>5, <2>6, <2>7 DEF postJob, TypeOK
<1>2. ASSUME NEW m \in Addr, NEW j \in JobIds, NEW answer, acceptJob(m, j, answer)
      PROVE  TypeOK'
  <2>1. jobs' \in [JobIds -> Job]
    <3> DEFINE due == now + jobs[j].deliveryWindow
               rec == [jobs[j] EXCEPT !.worker = m, !.status = "Accepted",
                                      !.deliveryDeadline = due]
    <3>1. due \in Nat
      BY <1>0 DEF TypeOK, Job
    <3>2. rec \in Job
      <4> HIDE DEF due
      <4>1. QED
        BY <1>0, <3>1 DEF Job, Status
    <3>3. jobs' = [jobs EXCEPT ![j] = rec]
      BY <1>2 DEF acceptJob, TypeOK
    <3> HIDE DEF rec
    <3>4. QED
      BY <3>2, <3>3 DEF TypeOK
  <2>2. held' \in Nat /\ totalEscrowed' \in Nat
    BY <1>2, <1>0 DEF acceptJob, PullFrom, TypeOK
  <2>3. QED
    BY <1>2, <2>1, <2>2 DEF acceptJob, TypeOK
<1>3. ASSUME NEW m \in Addr, NEW j \in JobIds, submitWork(m, j)
      PROVE  TypeOK'
  <2>1. now + REVIEW_WINDOW \in Nat
    BY ConfigAssumption DEF ConfigOk, TypeOK
  <2>2. jobs' \in [JobIds -> Job]
    <3> DEFINE rec == [jobs[j] EXCEPT !.status = "Submitted",
                                      !.reviewDeadline = now + REVIEW_WINDOW]
    <3>1. rec \in Job
      BY <1>0, <2>1 DEF Job, Status
    <3>2. jobs' = [jobs EXCEPT ![j] = rec]
      BY <1>3 DEF submitWork, TypeOK
    <3> HIDE DEF rec
    <3>3. QED
      BY <3>1, <3>2 DEF TypeOK
  <2>3. QED
    BY <1>3, <2>2 DEF submitWork, book, TypeOK
<1>4. ASSUME NEW m \in Addr, NEW j \in JobIds, NEW payee \in Addr,
             NEW amount \in 0..jobs[j].bounty + 1, assignPayee(m, j, payee, amount)
      PROVE  TypeOK'
  <2>1. amount \in Nat
    BY <1>0
  <2>2. jobs' \in [JobIds -> Job]
    <3> DEFINE rec == [jobs[j] EXCEPT !.payee = payee, !.payeeAmount = amount]
    <3>1. rec \in Job
      BY <1>0, <2>1 DEF Job
    <3>2. jobs' = [jobs EXCEPT ![j] = rec]
      BY <1>4 DEF assignPayee, TypeOK
    <3> HIDE DEF rec
    <3>3. QED
      BY <3>1, <3>2 DEF TypeOK
  <2>3. QED
    BY <1>4, <2>2 DEF assignPayee, book, TypeOK
<1>5. ASSUME NEW m \in Addr, NEW j \in JobIds, raiseDispute(m, j)
      PROVE  TypeOK'
  <2>1. now + DISPUTE_WINDOW \in Nat
    BY ConfigAssumption DEF ConfigOk, TypeOK
  <2>2. jobs' \in [JobIds -> Job]
    <3> DEFINE rec == [jobs[j] EXCEPT !.status = "Disputed",
                                      !.disputeDeadline = now + DISPUTE_WINDOW]
    <3>1. rec \in Job
      BY <1>0, <2>1 DEF Job, Status
    <3>2. jobs' = [jobs EXCEPT ![j] = rec]
      BY <1>5 DEF raiseDispute, TypeOK
    <3> HIDE DEF rec
    <3>3. QED
      BY <3>1, <3>2 DEF TypeOK
  <2>3. QED
    BY <1>5, <2>2 DEF raiseDispute, book, TypeOK
<1>6. ASSUME NEW j \in JobIds, NEW status \in Status, release(j, status)
      PROVE  TypeOK'
  <2>1. workerSide(jobs[j], jobs[j].bounty) \in [payee : Nat, worker : Nat]
    BY <1>0, WorkerSideType
  <2>2. QED
    BY <1>6, <2>1, SettleType DEF release
<1>7. ASSUME NEW m \in Addr, NEW j \in JobIds, NEW verdict \in BOOLEAN,
             resolveDispute(m, j, verdict)
      PROVE  TypeOK'
  <2>1. workerSide(jobs[j], 0) \in [payee : Nat, worker : Nat]
    BY <1>0, WorkerSideType
  <2>2. CASE verdict
    BY <1>7, <1>6, <2>2 DEF resolveDispute, Status
  <2>3. CASE ~verdict
    BY <1>7, <1>0, <2>1, <2>3, SettleType DEF resolveDispute, Status
  <2>4. QED
    BY <2>2, <2>3
<1>8. ASSUME NEW m \in Addr, NEW j \in JobIds, approveJob(m, j) \/ cancelJob(m, j)
      PROVE  TypeOK'
  <2>1. CASE approveJob(m, j)
    BY <1>6, <2>1 DEF approveJob, Status
  <2>2. CASE cancelJob(m, j)
    BY <1>0, <2>2, SettleType DEF cancelJob, Status
  <2>3. QED
    BY <1>8, <2>1, <2>2
<1>9. ASSUME NEW j \in JobIds, exit(j)
      PROVE  TypeOK'
  <2>1. CASE reclaimJob(j)
    BY <1>0, <2>1, SettleType DEF reclaimJob, Status
  <2>2. CASE expireOpen(j)
    BY <1>0, <2>2, SettleType DEF expireOpen, Status
  <2>3. CASE expireReview(j)
    <3>1. /\ forfeitOn(jobs[j].bounty) \in Nat
          /\ jobs[j].bounty - forfeitOn(jobs[j].bounty) \in Nat
      BY <1>0, ForfeitType
    <3>2. workerSide(jobs[j], forfeitOn(jobs[j].bounty)) \in [payee : Nat, worker : Nat]
      BY <1>0, <3>1, WorkerSideType
    <3>3. QED
      BY <2>3, <3>1, <3>2, SettleType DEF expireReview, Status
  <2>4. CASE expireDispute(j)
    BY <1>6, <2>4 DEF expireDispute, Status
  <2>5. QED
    BY <1>9, <2>1, <2>2, <2>3, <2>4 DEF exit
<1>10. ASSUME NEW m \in Addr, NEW to \in Addr, withdrawTo(m, to)
       PROVE  TypeOK'
  BY <1>10 DEF withdrawTo, TypeOK
<1>11. ASSUME NEW x \in Blockable, setBlocked(x)
       PROVE  TypeOK'
  BY <1>11 DEF setBlocked, book, TypeOK
<1>12. CASE strayTransfer
  BY <1>12 DEF strayTransfer, TypeOK
<1>13. CASE Tick
  BY <1>13 DEF Tick, book, TypeOK
<1>14. CASE UNCHANGED vars
  BY <1>14 DEF vars, book, TypeOK
<1>15. QED
  BY <1>1, <1>2, <1>3, <1>4, <1>5, <1>7, <1>8, <1>9, <1>10, <1>11, <1>12, <1>13, <1>14
     DEF Next, Transact

(* The types hold for ever: no balance, total or reserve is ever negative, *)
(* and every job keeps the shape of the contract's record.                 *)
THEOREM TypeCorrect == Spec => []TypeOK
<1>1. Init => TypeOK
  BY InputAssumption DEF Init, TypeOK, Nothing, NoJob, Job, Status
<1>2. QED
  BY <1>1, StepType, PTL DEF Spec

-----------------------------------------------------------------------------
(* Solvency.  SurplusExplained alone is not inductive: it says nothing of  *)
(* the case held < owed.  The equation below is, and it implies it.        *)

Balanced == held = totalEscrowed + totalWithdrawable + burned + stray

(* A settlement moves money between the terms of the equation. *)
LEMMA SettleBalanced ==
    ASSUME TypeOK, Balanced, NEW j \in JobIds, NEW status, NEW refund \in Nat,
           NEW side \in [payee : Nat, worker : Nat], NEW burn \in Nat,
           settle(j, status, refund, side, burn)
    PROVE  Balanced'
<1> DEFINE out == refund + side.payee + side.worker
<1>1. out \in Nat
  OBVIOUS
<1>2. /\ totalEscrowed' = totalEscrowed - (out + burn)
      /\ totalWithdrawable' = totalWithdrawable + out
      /\ burned' = burned + burn
      /\ held' = held /\ stray' = stray
  BY DEF settle
<1> HIDE DEF out
<1>3. QED
  BY <1>1, <1>2 DEF Balanced, TypeOK

LEMMA StepBalanced == TypeOK /\ Balanced /\ [Next]_vars => Balanced'
<1> SUFFICES ASSUME TypeOK, Balanced, [Next]_vars PROVE Balanced'
  OBVIOUS
<1> USE InputAssumption
<1>0. ASSUME NEW j \in JobIds, NEW amount \in Nat
      PROVE  /\ jobs[j].bounty \in Nat
             /\ bondFor(jobs[j].bounty) \in Nat
             /\ forfeitOn(jobs[j].bounty) \in 0..jobs[j].bounty
             /\ noSide \in [payee : Nat, worker : Nat]
             /\ workerSide(jobs[j], amount) \in [payee : Nat, worker : Nat]
  <2>1. jobs[j] \in Job
    BY <1>0 DEF TypeOK
  <2>2. jobs[j].bounty \in Nat
    BY <2>1 DEF Job
  <2>3. QED
    BY <1>0, <2>1, <2>2, Rates, WorkerSideType DEF noSide
<1>1. ASSUME NEW m \in Addr, NEW b \in Bounties, NEW s \in Scores, NEW w \in Windows,
             postJob(m, b, s, w)
      PROVE  Balanced'
  <2>1. b \in Nat /\ feeOn(b) \in Nat
    BY Rates
  <2>2. /\ held' = held + (b + feeOn(b))
        /\ totalEscrowed' = totalEscrowed + b
        /\ totalWithdrawable' = totalWithdrawable + feeOn(b)
        /\ burned' = burned /\ stray' = stray
    BY <1>1 DEF postJob, PullFrom
  <2>3. QED
    BY <2>1, <2>2 DEF TypeOK, Balanced
<1>2. ASSUME NEW m \in Addr, NEW j \in JobIds, NEW answer, acceptJob(m, j, answer)
      PROVE  Balanced'
  <2>1. bondFor(jobs[j].bounty) \in Nat
    BY <1>0
  <2>2. CASE bondFor(jobs[j].bounty) > 0
    BY <1>2, <2>1, <2>2 DEF acceptJob, PullFrom, TypeOK, Balanced
  <2>3. CASE ~(bondFor(jobs[j].bounty) > 0)
    BY <1>2, <2>1, <2>3 DEF acceptJob, TypeOK, Balanced
  <2>4. QED
    BY <2>2, <2>3
<1>3. ASSUME UNCHANGED book
      PROVE  Balanced'
  BY <1>3 DEF book, Balanced
<1>4. ASSUME NEW j \in JobIds, NEW status, release(j, status)
      PROVE  Balanced'
  BY <1>4, <1>0, SettleBalanced DEF release
<1>5. ASSUME NEW m \in Addr, NEW j \in JobIds, NEW verdict \in BOOLEAN,
             resolveDispute(m, j, verdict)
      PROVE  Balanced'
  <2>1. CASE verdict
    BY <1>5, <1>4, <2>1 DEF resolveDispute
  <2>2. CASE ~verdict
    BY <1>5, <1>0, <2>2, SettleBalanced DEF resolveDispute
  <2>3. QED
    BY <2>1, <2>2
<1>6. ASSUME NEW j \in JobIds, exit(j)
      PROVE  Balanced'
  <2>1. CASE reclaimJob(j)
    BY <1>0, <2>1, SettleBalanced DEF reclaimJob
  <2>2. CASE expireOpen(j)
    BY <1>0, <2>2, SettleBalanced DEF expireOpen
  <2>3. CASE expireReview(j)
    <3>1. /\ forfeitOn(jobs[j].bounty) \in Nat
          /\ jobs[j].bounty - forfeitOn(jobs[j].bounty) \in Nat
      <4>1. jobs[j].bounty \in Nat
        BY DEF TypeOK, Job
      <4>2. QED
        BY <4>1, ForfeitType
    <3>2. noSide \in [payee : Nat, worker : Nat] /\ 0 \in Nat
      BY DEF noSide
    <3>3. workerSide(jobs[j], forfeitOn(jobs[j].bounty)) \in [payee : Nat, worker : Nat]
      BY <1>0, <3>1
    <3>4. QED
      BY <2>3, <3>1, <3>2, <3>3, SettleBalanced DEF expireReview
  <2>4. CASE expireDispute(j)
    BY <1>4, <2>4 DEF expireDispute
  <2>5. QED
    BY <1>6, <2>1, <2>2, <2>3, <2>4 DEF exit
<1>7. ASSUME NEW m \in Addr, NEW j \in JobIds, approveJob(m, j) \/ cancelJob(m, j)
      PROVE  Balanced'
  <2>1. CASE approveJob(m, j)
    BY <1>4, <2>1 DEF approveJob
  <2>2. CASE cancelJob(m, j)
    BY <1>0, <2>2, SettleBalanced DEF cancelJob
  <2>3. QED
    BY <1>7, <2>1, <2>2
<1>8. ASSUME NEW m \in Addr, NEW to \in Addr, withdrawTo(m, to)
      PROVE  Balanced'
  BY <1>8 DEF withdrawTo, TypeOK, Balanced
<1>9. CASE strayTransfer
  BY <1>9 DEF strayTransfer, TypeOK, Balanced
<1>10. QED
  BY <1>1, <1>2, <1>3, <1>5, <1>6, <1>7, <1>8, <1>9
     DEF Next, Transact, Tick, vars, submitWork, assignPayee, raiseDispute, setBlocked

(* escrowSolvency() tells the truth: the contract always holds what it owes *)
(* to unfinished jobs and to uncollected balances, and all that is left     *)
(* over is burned bonds and tokens sent by mistake.                         *)
THEOREM Solvency == Spec => []SurplusExplained
<1>1. Init => Balanced
  BY DEF Init, Balanced
<1>2. TypeOK /\ Balanced => SurplusExplained
  BY InputAssumption DEF TypeOK, Balanced, SurplusExplained, escrowSolvency
<1>3. QED
  BY <1>1, <1>2, StepBalanced, TypeCorrect, PTL DEF Spec

-----------------------------------------------------------------------------
(* Finality.  TermsAreFinal needs to know that a call which sets a worker,  *)
(* a lien or a clock finds it unset: that a job's fields are filled in the  *)
(* order of its life, and that an id nobody posted is still blank.          *)

LifeCycle ==
    /\ NoPhantomJobs
    /\ \A j \in JobIds :
         /\ jobs[j].status = "Open" => jobs[j].worker = NoAddr
         /\ jobs[j].status \in {"Open", "Accepted"} => jobs[j].reviewDeadline = 0
         /\ jobs[j].status \in {"Open", "Accepted", "Submitted"}
                => jobs[j].disputeDeadline = 0

(* What a call may make of the record of a job that is not settled. *)
Advances(old, new) ==
    /\ old.status \notin Settled
    /\ new.requester = old.requester
    /\ old.payee # NoAddr => new.payee = old.payee /\ new.payeeAmount = old.payeeAmount
    /\ old.worker # NoAddr =>
           new.worker = old.worker /\ new.deliveryDeadline = old.deliveryDeadline
    /\ old.reviewDeadline > 0 => new.reviewDeadline = old.reviewDeadline
    /\ old.disputeDeadline > 0 => new.disputeDeadline = old.disputeDeadline
    /\ new.status # "Open"
    /\ new.status = "Accepted" => new.reviewDeadline = 0
    /\ new.status \in {"Accepted", "Submitted"} => new.disputeDeadline = 0

(* A call touches one posted job, and only to advance it. *)
LEMMA OneJobAdvances ==
    ASSUME TypeOK, LifeCycle, NEW j \in JobIds, NEW rec,
           jobs[j].requester # NoAddr, Advances(jobs[j], rec),
           jobs' = [jobs EXCEPT ![j] = rec], jobCount' = jobCount,
           \A i \in JobIds \ {j} : credits'[i] = credits[i]
    PROVE  LifeCycle' /\ \A i \in JobIds : TermsKept(i)
<1>1. jobs'[j] = rec /\ \A i \in JobIds \ {j} : jobs'[i] = jobs[i]
  BY DEF TypeOK
<1>2. j <= jobCount
  <2>1. ~(j > jobCount)
    BY DEF LifeCycle, NoPhantomJobs, NoJob
  <2>2. QED
    BY <2>1, InputAssumption DEF TypeOK, JobIds
<1>3. NoPhantomJobs'
  <2> SUFFICES ASSUME NEW i \in JobIds
               PROVE  IF i > jobCount THEN jobs'[i] = NoJob ELSE jobs'[i].requester # NoAddr
    BY DEF NoPhantomJobs
  <2>1. CASE i = j
    BY <1>1, <1>2, <2>1, InputAssumption DEF Advances, TypeOK, JobIds
  <2>2. CASE i # j
    BY <1>1, <2>2 DEF LifeCycle, NoPhantomJobs
  <2>3. QED
    BY <2>1, <2>2
<1>4. LifeCycle'
  <2> SUFFICES ASSUME NEW i \in JobIds
               PROVE  /\ jobs'[i].status = "Open" => jobs'[i].worker = NoAddr
                      /\ jobs'[i].status \in {"Open", "Accepted"} => jobs'[i].reviewDeadline = 0
                      /\ jobs'[i].status \in {"Open", "Accepted", "Submitted"}
                             => jobs'[i].disputeDeadline = 0
    BY <1>3 DEF LifeCycle
  <2>1. CASE i = j
    BY <1>1, <2>1 DEF Advances
  <2>2. CASE i # j
    BY <1>1, <2>2 DEF LifeCycle
  <2>3. QED
    BY <2>1, <2>2
<1>5. ASSUME NEW i \in JobIds
      PROVE  TermsKept(i)
  <2>1. CASE i = j
    BY <1>1, <2>1 DEF TermsKept, Advances, IsSettled, WasDelivered, WasDisputed
  <2>2. CASE i # j
    BY <1>1, <2>2 DEF TermsKept
  <2>3. QED
    BY <2>1, <2>2
<1>6. QED
  BY <1>4, <1>5

(* A settlement is such a call. *)
LEMMA SettleAdvances ==
    ASSUME TypeOK, LifeCycle, NEW j \in JobIds, NEW status \in Settled,
           NEW refund, NEW side, NEW burn,
           jobs[j].status \notin Settled, jobs[j].requester # NoAddr,
           settle(j, status, refund, side, burn)
    PROVE  LifeCycle' /\ \A i \in JobIds : TermsKept(i)
<1> DEFINE rec == [jobs[j] EXCEPT !.status = status]
<1>1. jobs[j] \in Job
  BY DEF TypeOK
<1>2. rec.status = status /\ \A f \in DOMAIN jobs[j] \ {"status"} : rec[f] = jobs[j][f]
  BY <1>1 DEF Job
<1>3. Advances(jobs[j], rec)
  BY <1>1 DEF Advances, Settled, Job
<1>4. jobs' = [jobs EXCEPT ![j] = rec] /\ jobCount' = jobCount
  BY DEF settle, TypeOK
<1>5. \A i \in JobIds \ {j} : credits'[i] = credits[i]
  <2>1. credits \in [JobIds -> [Addr -> Nat]]
    BY DEF TypeOK
  <2>2. \A i \in JobIds \ {j} : credits'[i] = credits[i]
    BY <2>1 DEF settle
  <2>3. QED
    BY <2>2
<1> HIDE DEF rec
<1>6. QED
  BY <1>3, <1>4, <1>5, OneJobAdvances

LEMMA StepFinal ==
    TypeOK /\ LifeCycle /\ [Next]_vars
        => LifeCycle' /\ \A i \in JobIds : TermsKept(i)
<1> SUFFICES ASSUME TypeOK, LifeCycle, [Next]_vars
             PROVE  LifeCycle' /\ \A i \in JobIds : TermsKept(i)
  OBVIOUS
<1>0. ASSUME NEW j \in JobIds, jobs[j].status # "Open" \/ jobs[j].requester # NoAddr
      PROVE  jobs[j].requester # NoAddr
  BY <1>0 DEF LifeCycle, NoPhantomJobs, NoJob
<1>1. ASSUME UNCHANGED <<jobs, jobCount, credits>>
      PROVE  LifeCycle' /\ \A i \in JobIds : TermsKept(i)
  BY <1>1 DEF LifeCycle, NoPhantomJobs, TermsKept
<1>2. ASSUME NEW m \in Addr, NEW b \in Bounties, NEW s \in Scores, NEW w \in Windows,
             postJob(m, b, s, w)
      PROVE  LifeCycle' /\ \A i \in JobIds : TermsKept(i)
  <2> DEFINE k == jobCount + 1
             rec == newJob(m, b, s, w)
  <2>1. /\ jobCount \in Nat /\ jobCount' = k /\ k \in JobIds
        /\ jobs' = [jobs EXCEPT ![k] = rec] /\ credits' = credits
    BY <1>2, InputAssumption DEF postJob, TypeOK, JobIds
  <2>2. jobs[k] = NoJob
    BY <2>1 DEF LifeCycle, NoPhantomJobs
  <2>3. jobs'[k] = rec /\ \A i \in JobIds \ {k} : jobs'[i] = jobs[i]
    BY <2>1 DEF TypeOK
  <2>4. /\ rec.requester # NoAddr /\ rec.worker = NoAddr
        /\ rec.reviewDeadline = 0 /\ rec.disputeDeadline = 0
    BY ConfigAssumption DEF newJob, ConfigOk
  <2> HIDE DEF rec
  <2>5. NoPhantomJobs'
    <3> SUFFICES ASSUME NEW i \in JobIds
                 PROVE  IF i > k THEN jobs'[i] = NoJob ELSE jobs'[i].requester # NoAddr
      BY <2>1 DEF NoPhantomJobs
    <3>1. CASE i = k
      BY <2>1, <2>3, <2>4, <3>1
    <3>2. CASE i # k
      <4>1. i \in Nat /\ jobs'[i] = jobs[i]
        BY <2>3, <3>2 DEF JobIds
      <4>2. i > k => i > jobCount
        BY <2>1, <4>1
      <4>3. ~(i > k) => ~(i > jobCount)
        BY <2>1, <3>2, <4>1
      <4>4. QED
        BY <4>1, <4>2, <4>3 DEF LifeCycle, NoPhantomJobs
    <3>3. QED
      BY <3>1, <3>2
  <2>6. LifeCycle'
    BY <2>3, <2>4, <2>5 DEF LifeCycle
  <2>7. ASSUME NEW i \in JobIds
        PROVE  TermsKept(i)
    <3>1. CASE i = k
      BY <2>2, <3>1 DEF TermsKept, NoJob, IsSettled, WasDelivered, WasDisputed
    <3>2. CASE i # k
      BY <2>1, <2>3, <3>2 DEF TermsKept
    <3>3. QED
      BY <3>1, <3>2
  <2>8. QED
    BY <2>6, <2>7
<1>3. ASSUME NEW m \in Addr, NEW j \in JobIds, NEW answer, acceptJob(m, j, answer)
      PROVE  LifeCycle' /\ \A i \in JobIds : TermsKept(i)
  <2> DEFINE due == now + jobs[j].deliveryWindow
             rec == [jobs[j] EXCEPT !.worker = m, !.status = "Accepted",
                                    !.deliveryDeadline = due]
  <2>1. jobs[j] \in Job /\ jobs' = [jobs EXCEPT ![j] = rec]
    BY <1>3 DEF acceptJob, TypeOK
  <2>2. jobs[j].worker = NoAddr /\ jobs[j].reviewDeadline = 0 /\ jobs[j].disputeDeadline = 0
    BY <1>3 DEF acceptJob, LifeCycle
  <2>3. Advances(jobs[j], rec)
    <3> HIDE DEF due
    <3>1. QED
      BY <1>3, <2>1, <2>2 DEF acceptJob, Advances, Settled, Job
  <2> HIDE DEF rec
  <2>4. QED
    BY <1>3, <2>1, <2>3, OneJobAdvances DEF acceptJob
<1>4. ASSUME NEW m \in Addr, NEW j \in JobIds, submitWork(m, j)
      PROVE  LifeCycle' /\ \A i \in JobIds : TermsKept(i)
  <2> DEFINE due == now + REVIEW_WINDOW
             rec == [jobs[j] EXCEPT !.status = "Submitted", !.reviewDeadline = due]
  <2>1. jobs[j] \in Job /\ jobs' = [jobs EXCEPT ![j] = rec]
    BY <1>4 DEF submitWork, TypeOK
  <2>2. jobs[j].reviewDeadline = 0 /\ jobs[j].disputeDeadline = 0
    BY <1>4 DEF submitWork, LifeCycle
  <2>3. Advances(jobs[j], rec)
    <3> HIDE DEF due
    <3>1. QED
      BY <1>4, <2>1, <2>2 DEF submitWork, Advances, Settled, Job
  <2> HIDE DEF rec
  <2>4. QED
    BY <1>0, <1>4, <2>1, <2>3, OneJobAdvances DEF submitWork, book
<1>5. ASSUME NEW m \in Addr, NEW j \in JobIds, NEW payee, NEW amount,
             assignPayee(m, j, payee, amount)
      PROVE  LifeCycle' /\ \A i \in JobIds : TermsKept(i)
  <2> DEFINE rec == [jobs[j] EXCEPT !.payee = payee, !.payeeAmount = amount]
  <2>1. jobs[j] \in Job /\ jobs' = [jobs EXCEPT ![j] = rec]
    BY <1>5 DEF assignPayee, TypeOK
  <2>2. jobs[j].reviewDeadline = 0 /\ jobs[j].disputeDeadline = 0
    BY <1>5 DEF assignPayee, LifeCycle
  <2>3. Advances(jobs[j], rec)
    BY <1>5, <2>1, <2>2 DEF assignPayee, Advances, Settled, Job
  <2> HIDE DEF rec
  <2>4. QED
    BY <1>0, <1>5, <2>1, <2>3, OneJobAdvances DEF assignPayee, book
<1>6. ASSUME NEW m \in Addr, NEW j \in JobIds, raiseDispute(m, j)
      PROVE  LifeCycle' /\ \A i \in JobIds : TermsKept(i)
  <2> DEFINE due == now + DISPUTE_WINDOW
             rec == [jobs[j] EXCEPT !.status = "Disputed", !.disputeDeadline = due]
  <2>1. jobs[j] \in Job /\ jobs' = [jobs EXCEPT ![j] = rec]
    BY <1>6 DEF raiseDispute, TypeOK
  <2>2. jobs[j].disputeDeadline = 0
    BY <1>6 DEF raiseDispute, LifeCycle
  <2>3. Advances(jobs[j], rec)
    <3> HIDE DEF due
    <3>1. QED
      BY <1>6, <2>1, <2>2 DEF raiseDispute, Advances, Settled, Job
  <2> HIDE DEF rec
  <2>4. QED
    BY <1>0, <1>6, <2>1, <2>3, OneJobAdvances DEF raiseDispute, book
<1>7. ASSUME NEW m \in Addr, NEW j \in JobIds, NEW verdict \in BOOLEAN,
             approveJob(m, j) \/ resolveDispute(m, j, verdict) \/ cancelJob(m, j)
      PROVE  LifeCycle' /\ \A i \in JobIds : TermsKept(i)
  <2>1. jobs[j].requester # NoAddr
    <3>1. m # NoAddr
      BY ConfigAssumption DEF ConfigOk
    <3>2. QED
      BY <1>0, <1>7, <3>1 DEF approveJob, resolveDispute, cancelJob
  <2>2. jobs[j].status \notin Settled
    BY <1>7 DEF approveJob, resolveDispute, cancelJob, Settled
  <2>3. \E status \in Settled : \E refund, side, burn : settle(j, status, refund, side, burn)
    BY <1>7 DEF approveJob, resolveDispute, cancelJob, release, Settled
  <2>4. QED
    BY <2>1, <2>2, <2>3, SettleAdvances
<1>8. ASSUME NEW j \in JobIds, exit(j)
      PROVE  LifeCycle' /\ \A i \in JobIds : TermsKept(i)
  <2>1. jobs[j].requester # NoAddr
    BY <1>0, <1>8 DEF exit, reclaimJob, expireOpen, expireReview, expireDispute
  <2>2. jobs[j].status \notin Settled
    BY <1>8 DEF exit, reclaimJob, expireOpen, expireReview, expireDispute, Settled
  <2>3. \E status \in Settled : \E refund, side, burn : settle(j, status, refund, side, burn)
    BY <1>8 DEF exit, reclaimJob, expireOpen, expireReview, expireDispute, release, Settled
  <2>4. QED
    BY <2>1, <2>2, <2>3, SettleAdvances
<1>9. QED
  BY <1>1, <1>2, <1>3, <1>4, <1>5, <1>6, <1>7, <1>8
     DEF Next, Transact, Tick, strayTransfer, setBlocked, withdrawTo, book, vars

LEMMA LifeCycleHolds == Spec => []LifeCycle
<1>1. Init => LifeCycle
  BY InputAssumption DEF Init, LifeCycle, NoPhantomJobs, NoJob, JobIds
<1>2. QED
  BY <1>1, StepFinal, TypeCorrect, PTL DEF Spec

(* An id nobody posted stays blank, so no call can accept, cancel or expire *)
(* a job that was never escrowed.                                           *)
THEOREM NoPhantom == Spec => []NoPhantomJobs
<1>1. LifeCycle => NoPhantomJobs
  BY DEF LifeCycle
<1>2. QED
  BY <1>1, LifeCycleHolds, PTL

(* What the parties agreed to is never rewritten: a settled job, a lien, a  *)
(* worker and a running clock are each final once set.                      *)
THEOREM Finality == Spec => TermsAreFinal
<1>1. TypeOK /\ LifeCycle /\ [Next]_vars => [\A j \in JobIds : TermsKept(j)]_vars
  BY StepFinal
<1>2. QED
  BY <1>1, LifeCycleHolds, TypeCorrect, PTL DEF Spec, TermsAreFinal

-----------------------------------------------------------------------------
(* What a settled job paid.  LienFirst and its companions speak of a job    *)
(* long after it was settled, so the invariant has to say of every job what *)
(* its credits are, as a function of the record that settling it left.      *)

(* How one settlement ends job j: the route the contract takes out of each  *)
(* status, and what it pays.                                                *)
Route(j, status, refund, side, burn) ==
    LET was == jobs[j].status  bounty == jobs[j].bounty
        pays(r, s, b) == refund = r /\ side = s /\ burn = b
    IN  \/ /\ was = "Open" /\ status \in {"Cancelled", "Expired"}
           /\ pays(bounty, noSide, 0)
        \/ /\ was = "Accepted" /\ status = "Refunded" /\ now >= jobs[j].deliveryDeadline
           /\ pays(bounty, noSide, Bond(j))
        \/ /\ was = "Submitted" /\ status = "Expired"
           /\ pays(bounty - forfeitOn(bounty), workerSide(jobs[j], forfeitOn(bounty)), 0)
        \/ /\ \/ was = "Submitted" /\ status = "Completed"
              \/ was = "Disputed" /\ status \in {"Completed", "Expired"}
           /\ pays(0, workerSide(jobs[j], bounty), 0)
        \/ /\ was = "Disputed" /\ status = "Refunded"
           /\ pays(bounty, workerSide(jobs[j], 0), 0)

Settles(j) ==
    \E status \in Settled, refund \in Nat, side \in [payee : Nat, worker : Nat], burn \in Nat :
        /\ jobs[j].requester # NoAddr
        /\ Route(j, status, refund, side, burn)
        /\ settle(j, status, refund, side, burn)

(* Every step that is not one of the others is a settlement of one job.     *)
LEMMA StepKinds ==
    ASSUME TypeOK, LifeCycle, [Next]_vars
    PROVE  \/ \E m \in Addr, b \in Bounties, s \in Scores, w \in Windows : postJob(m, b, s, w)
           \/ \E m \in Addr, j \in JobIds :
                 \/ \E answer \in Scores \cup {NoScore} : acceptJob(m, j, answer)
                 \/ submitWork(m, j)
                 \/ \E payee \in Addr, amount \in Nat : assignPayee(m, j, payee, amount)
                 \/ raiseDispute(m, j)
           \/ \E j \in JobIds : Settles(j)
           \/ \E m, to \in Addr : withdrawTo(m, to)
           \/ strayTransfer
           \/ UNCHANGED <<jobs, jobCount, book>>
<1>0. ASSUME NEW j \in JobIds, NEW amount \in Nat
      PROVE  /\ jobs[j].bounty \in Nat
             /\ Bond(j) \in Nat
             /\ forfeitOn(jobs[j].bounty) \in Nat
             /\ jobs[j].bounty - forfeitOn(jobs[j].bounty) \in Nat
             /\ noSide \in [payee : Nat, worker : Nat]
             /\ workerSide(jobs[j], amount) \in [payee : Nat, worker : Nat]
  <2>1. jobs[j] \in Job /\ jobs[j].bounty \in Nat
    BY <1>0 DEF TypeOK, Job
  <2>2. forfeitOn(jobs[j].bounty) \in 0..jobs[j].bounty /\ Bond(j) \in Nat
    BY <2>1, Rates DEF Bond
  <2>3. jobs[j].bounty - forfeitOn(jobs[j].bounty) \in Nat /\ forfeitOn(jobs[j].bounty) \in Nat
    BY <2>1, <2>2
  <2>4. workerSide(jobs[j], amount) \in [payee : Nat, worker : Nat]
    BY <1>0, <2>1, WorkerSideType
  <2>5. QED
    BY <2>1, <2>2, <2>3, <2>4 DEF noSide
<1>1. ASSUME NEW j \in JobIds, NEW status \in Settled, jobs[j].requester # NoAddr,
             release(j, status),
             \/ jobs[j].status = "Submitted" /\ status = "Completed"
             \/ jobs[j].status = "Disputed" /\ status \in {"Completed", "Expired"}
      PROVE  Settles(j)
  <2>1. Route(j, status, 0, workerSide(jobs[j], jobs[j].bounty), 0)
    BY <1>1 DEF Route
  <2>2. 0 \in Nat /\ workerSide(jobs[j], jobs[j].bounty) \in [payee : Nat, worker : Nat]
    BY <1>0
  <2>3. QED
    BY <1>1, <2>1, <2>2 DEF Settles, release
<1>2. ASSUME NEW j \in JobIds, NEW status \in Settled, jobs[j].requester # NoAddr,
             NEW refund \in Nat, NEW side \in [payee : Nat, worker : Nat], NEW burn \in Nat,
             settle(j, status, refund, side, burn), Route(j, status, refund, side, burn)
      PROVE  Settles(j)
  BY <1>2 DEF Settles
<1>3. ASSUME NEW j \in JobIds, jobs[j].status # "Open" \/ jobs[j].requester # NoAddr
      PROVE  jobs[j].requester # NoAddr
  BY <1>3 DEF LifeCycle, NoPhantomJobs, NoJob
<1>4. ASSUME NEW m \in Addr, NEW j \in JobIds, NEW verdict \in BOOLEAN,
             approveJob(m, j) \/ cancelJob(m, j) \/ resolveDispute(m, j, verdict)
      PROVE  Settles(j)
  <2>0. jobs[j].requester # NoAddr
    <3>1. m # NoAddr
      BY ConfigAssumption DEF ConfigOk
    <3>2. QED
      BY <1>3, <1>4, <3>1 DEF approveJob, cancelJob, resolveDispute
  <2>1. CASE approveJob(m, j)
    BY <1>1, <2>0, <2>1 DEF approveJob, Settled
  <2>2. CASE cancelJob(m, j)
    <3>1. settle(j, "Cancelled", jobs[j].bounty, noSide, 0) /\ "Cancelled" \in Settled
      BY <2>2 DEF cancelJob, Settled
    <3>2. Route(j, "Cancelled", jobs[j].bounty, noSide, 0)
      BY <2>2 DEF cancelJob, Route
    <3>3. QED
      BY <1>0, <1>2, <2>0, <3>1, <3>2
  <2>3. CASE resolveDispute(m, j, verdict) /\ verdict
    BY <1>1, <2>0, <2>3 DEF resolveDispute, Settled
  <2>4. CASE resolveDispute(m, j, verdict) /\ ~verdict
    <3>1. settle(j, "Refunded", jobs[j].bounty, workerSide(jobs[j], 0), 0) /\ "Refunded" \in Settled
      BY <2>4 DEF resolveDispute, Settled
    <3>2. Route(j, "Refunded", jobs[j].bounty, workerSide(jobs[j], 0), 0)
      BY <2>4 DEF resolveDispute, Route
    <3>3. QED
      BY <1>0, <1>2, <2>0, <3>1, <3>2
  <2>5. QED
    BY <1>4, <2>1, <2>2, <2>3, <2>4
<1>5. ASSUME NEW j \in JobIds, exit(j)
      PROVE  Settles(j)
  <2>0. jobs[j].requester # NoAddr
    BY <1>3, <1>5 DEF exit, reclaimJob, expireOpen, expireReview, expireDispute
  <2>1. CASE reclaimJob(j)
    <3>1. settle(j, "Refunded", jobs[j].bounty, noSide, Bond(j)) /\ "Refunded" \in Settled
      BY <2>1 DEF reclaimJob, Settled, Bond
    <3>2. Route(j, "Refunded", jobs[j].bounty, noSide, Bond(j))
      BY <2>1 DEF reclaimJob, Route
    <3>3. QED
      BY <1>0, <1>2, <2>0, <3>1, <3>2
  <2>2. CASE expireOpen(j)
    <3>1. settle(j, "Expired", jobs[j].bounty, noSide, 0) /\ "Expired" \in Settled
      BY <2>2 DEF expireOpen, Settled
    <3>2. Route(j, "Expired", jobs[j].bounty, noSide, 0)
      BY <2>2 DEF expireOpen, Route
    <3>3. QED
      BY <1>0, <1>2, <2>0, <3>1, <3>2
  <2>3. CASE expireReview(j)
    <3> DEFINE forfeit == forfeitOn(jobs[j].bounty)
    <3>1. /\ settle(j, "Expired", jobs[j].bounty - forfeit, workerSide(jobs[j], forfeit), 0)
          /\ "Expired" \in Settled
      BY <2>3 DEF expireReview, Settled
    <3>2. Route(j, "Expired", jobs[j].bounty - forfeit, workerSide(jobs[j], forfeit), 0)
      BY <2>3 DEF expireReview, Route
    <3>3. /\ forfeit \in Nat /\ jobs[j].bounty - forfeit \in Nat
          /\ workerSide(jobs[j], forfeit) \in [payee : Nat, worker : Nat]
      BY <1>0
    <3> HIDE DEF forfeit
    <3>4. QED
      BY <1>2, <2>0, <3>1, <3>2, <3>3
  <2>4. CASE expireDispute(j)
    BY <1>1, <2>0, <2>4 DEF expireDispute, Settled
  <2>5. QED
    BY <1>5, <2>1, <2>2, <2>3, <2>4 DEF exit
<1>6. ASSUME NEW m \in Addr, NEW j \in JobIds, NEW payee \in Addr, NEW amount \in 0..jobs[j].bounty + 1
      PROVE  amount \in Nat
  BY <1>0
<1>7. QED
  BY <1>4, <1>5, <1>6 DEF Next, Transact, Tick, setBlocked, vars, book

(* The fields of a record are filled in step with its status. *)
RecordOk(job) ==
    /\ IF job.requester = NoAddr THEN job = NoJob ELSE job.bounty > 0
    /\ job.status \in {"Open", "Cancelled"} => job.worker = NoAddr
    /\ job.status \notin {"Open", "Cancelled", "Expired"} => job.worker # NoAddr
    /\ job.worker # NoAddr => job.worker # job.requester
    /\ job.payee # NoAddr => job.worker # NoAddr /\ job.payeeAmount <= job.bounty
    /\ job.status \in {"Submitted", "Disputed", "Completed"} => job.reviewDeadline > 0
    /\ job.reviewDeadline > 0 =>
           job.worker # NoAddr /\ job.status \notin {"Open", "Accepted", "Cancelled"}
    /\ job.status = "Disputed" => job.disputeDeadline > 0
    /\ job.disputeDeadline > 0 => job.reviewDeadline > 0 /\ job.status # "Submitted"

(* What each party to a job is credited by a settlement. *)
Share(job, refund, side) ==
    [a \in Addr |-> (IF a = job.requester THEN refund ELSE 0)
                  + (IF a = job.payee THEN side.payee ELSE 0)
                  + (IF a = job.worker THEN side.worker ELSE 0)]

(* The credits of a job, given its record. *)
PaidOut(job, paid) ==
    LET forfeit == forfeitOn(job.bounty)
    IN  IF job.requester = NoAddr \/ job.status \notin Settled THEN paid = Nothing
        ELSE IF job.reviewDeadline = 0 THEN paid = Share(job, job.bounty, noSide)
        ELSE IF job.status = "Refunded" THEN paid = Share(job, job.bounty, workerSide(job, 0))
        ELSE IF job.status = "Completed" \/ job.disputeDeadline > 0
             THEN paid = Share(job, 0, workerSide(job, job.bounty))
        ELSE paid = Share(job, job.bounty - forfeit, workerSide(job, forfeit))

Accounts == \A j \in JobIds : RecordOk(jobs[j]) /\ PaidOut(jobs[j], credits[j])

(* A step that touches one job is right if it is right for that job. *)
LEMMA OneJobAccounts ==
    ASSUME TypeOK, Accounts, NEW j \in JobIds, NEW rec, NEW paid,
           jobs' = [jobs EXCEPT ![j] = rec], credits' = [credits EXCEPT ![j] = paid],
           RecordOk(rec), PaidOut(rec, paid)
    PROVE  Accounts'
<1>1. jobs'[j] = rec /\ credits'[j] = paid
  BY DEF TypeOK
<1>2. \A i \in JobIds \ {j} : jobs'[i] = jobs[i] /\ credits'[i] = credits[i]
  BY DEF TypeOK
<1>3. ASSUME NEW i \in JobIds
      PROVE  RecordOk(jobs'[i]) /\ PaidOut(jobs'[i], credits'[i])
  <2>1. CASE i = j
    BY <1>1, <2>1
  <2>2. CASE i # j
    BY <1>2, <2>2 DEF Accounts
  <2>3. QED
    BY <2>1, <2>2
<1>4. QED
  BY <1>3 DEF Accounts

(* A settlement of job j pays what its new record says. *)
LEMMA SettleAccounts ==
    ASSUME TypeOK, Accounts, NEW j \in JobIds, Settles(j)
    PROVE  Accounts'
<1> DEFINE job == jobs[j]
<1>1. PICK status \in Settled, refund \in Nat, side \in [payee : Nat, worker : Nat], burn \in Nat :
          /\ job.requester # NoAddr
          /\ Route(j, status, refund, side, burn)
          /\ settle(j, status, refund, side, burn)
  BY DEF Settles
<1> DEFINE rec == [job EXCEPT !.status = status]
           paid == Share(job, refund, side)
<1>2. job \in Job /\ credits[j] \in [Addr -> Nat]
  BY DEF TypeOK
<1>3. /\ rec.requester = job.requester /\ rec.worker = job.worker /\ rec.bounty = job.bounty
      /\ rec.payee = job.payee /\ rec.payeeAmount = job.payeeAmount /\ rec.status = status
      /\ rec.reviewDeadline = job.reviewDeadline /\ rec.disputeDeadline = job.disputeDeadline
  BY <1>2 DEF Job
<1>4. job.status \notin Settled /\ RecordOk(job) /\ PaidOut(job, credits[j])
  BY <1>1 DEF Route, Accounts, Settled
<1>5. credits[j] = Nothing
  BY <1>4 DEF PaidOut
<1>6. jobs' = [jobs EXCEPT ![j] = rec]
  BY <1>1 DEF settle, TypeOK
<1>7. credits' = [credits EXCEPT ![j] = paid]
  <2>1. \A a \in Addr : Nothing[a] = 0 /\ paid[a] \in Nat
    BY DEF Nothing, Share
  <2>2. credits' = [credits EXCEPT ![j] = [a \in Addr |-> Nothing[a] + paid[a]]]
    BY <1>1, <1>5 DEF settle, Share, TypeOK
  <2>3. [a \in Addr |-> Nothing[a] + paid[a]] = [a \in Addr |-> paid[a]]
    BY <2>1
  <2>4. [a \in Addr |-> paid[a]] = paid
    BY DEF Share
  <2>5. QED
    BY <2>2, <2>3, <2>4
<1>8. \A r, x : Share(rec, r, x) = Share(job, r, x)
  BY <1>3 DEF Share
<1>9. \A x : workerSide(rec, x) = workerSide(job, x)
  BY <1>3 DEF workerSide, toPayee
<1>10. RecordOk(rec)
  <2> HIDE DEF rec, job
  <2>1. Route(j, status, refund, side, burn) => job.status # "Open" \/ status \in {"Cancelled", "Expired"}
    BY DEF Route, job
  <2>2. QED
    BY <1>1, <1>3, <1>4 DEF RecordOk, Route, Settled, job
<1>11. PaidOut(rec, paid)
  <2>1. job.reviewDeadline \in Nat /\ job.disputeDeadline \in Nat
    BY <1>2 DEF Job
  <2>2. paid = Share(rec, refund, side)
    BY <1>8
  <2> HIDE DEF rec, paid
  <2>3. CASE job.status \in {"Open", "Accepted"}
    <3>1. job.reviewDeadline = 0
      BY <1>4, <2>1, <2>3 DEF RecordOk
    <3>2. refund = job.bounty /\ side = noSide
      BY <1>1, <2>3 DEF Route
    <3>3. QED
      BY <1>1, <1>3, <2>2, <3>1, <3>2 DEF PaidOut
  <2>4. CASE job.status = "Submitted"
    <3>1. job.reviewDeadline > 0 /\ job.disputeDeadline = 0
      BY <1>4, <2>1, <2>4 DEF RecordOk
    <3>2. QED
      BY <1>1, <1>3, <1>9, <2>1, <2>2, <2>4, <3>1 DEF PaidOut, Route
  <2>5. CASE job.status = "Disputed"
    <3>1. job.reviewDeadline > 0 /\ job.disputeDeadline > 0
      BY <1>4, <2>1, <2>5 DEF RecordOk
    <3>2. QED
      BY <1>1, <1>3, <1>9, <2>1, <2>2, <2>5, <3>1 DEF PaidOut, Route
  <2>6. QED
    BY <1>1, <2>3, <2>4, <2>5 DEF Route
<1>12. QED
  <2> HIDE DEF rec, paid
  <2>1. QED
    BY <1>6, <1>7, <1>10, <1>11, OneJobAccounts

LEMMA StepAccounts == TypeOK /\ LifeCycle /\ Accounts /\ [Next]_vars => Accounts'
<1> SUFFICES ASSUME TypeOK, LifeCycle, Accounts, [Next]_vars
             PROVE  Accounts'
  OBVIOUS
<1>0. ASSUME NEW j \in JobIds, NEW rec, jobs' = [jobs EXCEPT ![j] = rec], credits' = credits,
             RecordOk(rec), rec.status \notin Settled, jobs[j].status \notin Settled
      PROVE  Accounts'
  <2>1. PaidOut(rec, credits[j])
    BY <1>0 DEF Accounts, PaidOut
  <2>2. credits' = [credits EXCEPT ![j] = credits[j]]
    BY <1>0 DEF TypeOK
  <2>3. QED
    BY <1>0, <2>1, <2>2, OneJobAccounts
<1>1. ASSUME NEW m \in Addr, NEW b \in Bounties, NEW s \in Scores, NEW w \in Windows,
             postJob(m, b, s, w)
      PROVE  Accounts'
  <2> DEFINE k == jobCount + 1
             rec == newJob(m, b, s, w)
  <2>1. k \in JobIds /\ jobs' = [jobs EXCEPT ![k] = rec] /\ credits' = credits
    BY <1>1, InputAssumption DEF postJob, TypeOK, JobIds
  <2>2. jobs[k] = NoJob
    BY <2>1 DEF LifeCycle, NoPhantomJobs, TypeOK, JobIds
  <2>3. RecordOk(rec) /\ rec.status \notin Settled /\ jobs[k].status \notin Settled
    <3>1. m # NoAddr /\ b > 0
      BY <1>1, InputAssumption, ConfigAssumption DEF ConfigOk, postJob
    <3>2. QED
      BY <2>2, <3>1 DEF newJob, RecordOk, NoJob, Settled
  <2> HIDE DEF rec
  <2>4. QED
    BY <1>0, <2>1, <2>3
<1>2. ASSUME NEW m \in Addr, NEW j \in JobIds, NEW answer, acceptJob(m, j, answer)
      PROVE  Accounts'
  <2> DEFINE due == now + jobs[j].deliveryWindow
             rec == [jobs[j] EXCEPT !.worker = m, !.status = "Accepted",
                                    !.deliveryDeadline = due]
  <2>1. jobs[j] \in Job /\ jobs' = [jobs EXCEPT ![j] = rec] /\ credits' = credits
    BY <1>2 DEF acceptJob, TypeOK
  <2>2. RecordOk(jobs[j]) /\ jobs[j].status = "Open" /\ jobs[j].requester # NoAddr
        /\ m # jobs[j].requester /\ m # NoAddr
    BY <1>2, ConfigAssumption DEF acceptJob, Accounts, ConfigOk
  <2>3. RecordOk(rec) /\ rec.status \notin Settled
    <3> HIDE DEF due
    <3>1. QED
      BY <2>1, <2>2 DEF Job, RecordOk, Settled
  <2> HIDE DEF rec
  <2>4. QED
    BY <1>0, <2>1, <2>2, <2>3 DEF Settled
<1>3. ASSUME NEW m \in Addr, NEW j \in JobIds, submitWork(m, j)
      PROVE  Accounts'
  <2> DEFINE due == now + REVIEW_WINDOW
             rec == [jobs[j] EXCEPT !.status = "Submitted", !.reviewDeadline = due]
  <2>1. jobs[j] \in Job /\ jobs' = [jobs EXCEPT ![j] = rec] /\ credits' = credits
    BY <1>3 DEF submitWork, TypeOK, book
  <2>2. RecordOk(jobs[j]) /\ jobs[j].status = "Accepted"
    BY <1>3 DEF submitWork, Accounts
  <2>3. due > 0
    BY ConfigAssumption DEF ConfigOk, TypeOK
  <2>4. RecordOk(rec) /\ rec.status \notin Settled
    <3> HIDE DEF due
    <3>1. QED
      BY <2>1, <2>2, <2>3 DEF Job, RecordOk, Settled, NoJob
  <2> HIDE DEF rec
  <2>5. QED
    BY <1>0, <2>1, <2>2, <2>4 DEF Settled
<1>4. ASSUME NEW m \in Addr, NEW j \in JobIds, NEW payee \in Addr, NEW amount \in Nat,
             assignPayee(m, j, payee, amount)
      PROVE  Accounts'
  <2> DEFINE rec == [jobs[j] EXCEPT !.payee = payee, !.payeeAmount = amount]
  <2>1. jobs[j] \in Job /\ jobs' = [jobs EXCEPT ![j] = rec] /\ credits' = credits
    BY <1>4 DEF assignPayee, TypeOK, book
  <2>2. RecordOk(jobs[j]) /\ jobs[j].status = "Accepted" /\ amount <= jobs[j].bounty
    BY <1>4 DEF assignPayee, Accounts
  <2>3. RecordOk(rec) /\ rec.status \notin Settled
    BY <2>1, <2>2 DEF Job, RecordOk, Settled, NoJob
  <2> HIDE DEF rec
  <2>4. QED
    BY <1>0, <2>1, <2>2, <2>3 DEF Settled
<1>5. ASSUME NEW m \in Addr, NEW j \in JobIds, raiseDispute(m, j)
      PROVE  Accounts'
  <2> DEFINE due == now + DISPUTE_WINDOW
             rec == [jobs[j] EXCEPT !.status = "Disputed", !.disputeDeadline = due]
  <2>1. jobs[j] \in Job /\ jobs' = [jobs EXCEPT ![j] = rec] /\ credits' = credits
    BY <1>5 DEF raiseDispute, TypeOK, book
  <2>2. RecordOk(jobs[j]) /\ jobs[j].status = "Submitted"
    BY <1>5 DEF raiseDispute, Accounts
  <2>3. due > 0
    BY ConfigAssumption DEF ConfigOk, TypeOK
  <2>4. RecordOk(rec) /\ rec.status \notin Settled
    <3> HIDE DEF due
    <3>1. QED
      BY <2>1, <2>2, <2>3 DEF Job, RecordOk, Settled, NoJob
  <2> HIDE DEF rec
  <2>5. QED
    BY <1>0, <2>1, <2>2, <2>4 DEF Settled
<1>6. ASSUME UNCHANGED <<jobs, credits>>
      PROVE  Accounts'
  BY <1>6 DEF Accounts
<1>7. QED
  BY <1>1, <1>2, <1>3, <1>4, <1>5, <1>6, StepKinds, SettleAccounts DEF withdrawTo, strayTransfer, book

LEMMA AccountsHold == Spec => []Accounts
<1>1. Init => Accounts
  BY DEF Init, Accounts, RecordOk, PaidOut, NoJob
<1>2. QED
  BY <1>1, StepAccounts, TypeCorrect, LifeCycleHolds, PTL DEF Spec

(* What the legs of a settlement add up to for the worker and the payee. *)
LEMMA WorkerLegs ==
    ASSUME NEW job \in Job, RecordOk(job), NEW amount \in 0..job.bounty
    PROVE  LET side == workerSide(job, amount)
           IN  /\ side.payee \in Nat /\ side.worker \in Nat
               /\ side.payee + side.worker = amount + bondFor(job.bounty)
               /\ side.worker >= bondFor(job.bounty)
               /\ bondFor(job.bounty) \in Nat
               /\ job.payee = NoAddr => side.payee = 0
               /\ job.payee # NoAddr /\ side.worker > bondFor(job.bounty) => side.payee = job.payeeAmount
<1>1. job.bounty \in Nat /\ job.payeeAmount \in Nat /\ amount \in Nat
  BY DEF Job
<1>2. bondFor(job.bounty) \in Nat
  BY <1>1, Rates
<1>3. toPayee(job, amount) \in 0..amount
  BY <1>1 DEF toPayee
<1>4. QED
  BY <1>1, <1>2, <1>3 DEF workerSide, toPayee

(* Every settlement divides the bounty between its two sides; the bond is   *)
(* added to the worker's unless the work was not delivered.                 *)
LEMMA SettledShare ==
    ASSUME TypeOK, Accounts, NEW j \in JobIds, IsSettled(j)
    PROVE  /\ jobs[j].requester \in Addr /\ RecordOk(jobs[j])
           /\ IF WasDelivered(j)
              THEN \E amount \in 0..jobs[j].bounty :
                      /\ credits[j] = Share(jobs[j], jobs[j].bounty - amount, workerSide(jobs[j], amount))
                      /\ jobs[j].status = "Expired" =>
                            amount = IF WasDisputed(j) THEN jobs[j].bounty ELSE forfeitOn(jobs[j].bounty)
              ELSE credits[j] = Share(jobs[j], jobs[j].bounty, noSide)
<1> DEFINE job == jobs[j]
           pays(amount) == credits[j] = Share(job, job.bounty - amount, workerSide(job, amount))
<1>1. /\ job \in Job /\ job.bounty \in Nat /\ job.requester \in Addr \cup {NoAddr}
      /\ job.reviewDeadline \in Nat /\ job.disputeDeadline \in Nat
  BY DEF TypeOK, Job
<1>2. forfeitOn(job.bounty) \in 0..job.bounty
  BY <1>1, Rates
<1>3. RecordOk(job) /\ PaidOut(job, credits[j]) /\ job.requester # NoAddr /\ job.status \in Settled
  BY DEF Accounts, IsSettled
<1>4. CASE ~WasDelivered(j)
  <2>1. job.reviewDeadline = 0
    BY <1>1, <1>4 DEF WasDelivered
  <2>2. QED
    BY <1>1, <1>3, <1>4, <2>1 DEF PaidOut
<1>5. CASE WasDelivered(j)
  <2>1. job.reviewDeadline # 0
    BY <1>1, <1>5 DEF WasDelivered
  <2>2. job.bounty - 0 = job.bounty /\ job.bounty - job.bounty = 0
        /\ 0 \in 0..job.bounty /\ job.bounty \in 0..job.bounty
    BY <1>1
  <2>3. CASE job.status = "Refunded"
    <3>1. pays(0)
      BY <1>3, <2>1, <2>2, <2>3 DEF PaidOut
    <3>2. QED
      BY <1>1, <1>3, <1>5, <2>2, <2>3, <3>1
  <2>4. CASE job.status = "Completed" \/ (job.status # "Refunded" /\ WasDisputed(j))
    <3>1. pays(job.bounty)
      BY <1>3, <2>1, <2>2, <2>4 DEF PaidOut, WasDisputed
    <3>2. job.status = "Expired" => WasDisputed(j)
      BY <2>4
    <3>3. QED
      BY <1>1, <1>3, <1>5, <2>2, <3>1, <3>2
  <2>5. CASE job.status \notin {"Refunded", "Completed"} /\ ~WasDisputed(j)
    <3>1. pays(forfeitOn(job.bounty))
      BY <1>3, <2>1, <2>5 DEF PaidOut, WasDisputed
    <3>2. QED
      BY <1>1, <1>2, <1>3, <1>5, <2>5, <3>1
  <2>6. QED
    BY <2>3, <2>4, <2>5
<1>6. QED
  BY <1>4, <1>5

(* The lender is paid before its borrower, on every route and for ever: a   *)
(* settled job whose worker saw more than its own bond has paid the payee   *)
(* the whole of its claim.                                                  *)
THEOREM LenderFirst == Spec => []LienFirst
<1>1. TypeOK /\ Accounts => LienFirst
  <2> SUFFICES ASSUME TypeOK, Accounts, NEW j \in JobIds, IsSettled(j),
                      jobs[j].payee \notin {NoAddr, jobs[j].worker},
                      credits[j][jobs[j].worker] > Bond(j)
               PROVE  credits[j][jobs[j].payee] >= jobs[j].payeeAmount
    BY DEF LienFirst
  <2> DEFINE job == jobs[j]
  <2>1. job \in Job /\ RecordOk(job) /\ job.bounty \in Nat /\ bondFor(job.bounty) \in Nat
    BY SettledShare, Rates DEF TypeOK, Job
  <2>2. job.worker \in Addr /\ job.payee \in Addr /\ job.worker # job.requester
    BY <2>1 DEF RecordOk, Job
  <2>3. CASE ~WasDelivered(j)
    <3>1. credits[j] = Share(job, job.bounty, noSide)
      BY <2>3, SettledShare
    <3>2. credits[j][job.worker] = 0
      BY <2>2, <3>1 DEF Share, noSide
    <3>3. QED
      BY <2>1, <3>2 DEF Bond
  <2>4. CASE WasDelivered(j)
    <3>1. PICK amount \in 0..job.bounty :
              credits[j] = Share(job, job.bounty - amount, workerSide(job, amount))
      BY <2>4, SettledShare
    <3> DEFINE side == workerSide(job, amount)
    <3>2. side.payee \in Nat /\ side.worker \in Nat /\ job.bounty - amount \in Nat
      BY <2>1, WorkerLegs
    <3>3. credits[j][job.worker] = side.worker
      BY <2>2, <3>1, <3>2 DEF Share
    <3>4. side.payee = job.payeeAmount
      BY <2>1, <2>2, <3>3, WorkerLegs DEF Bond, RecordOk
    <3>5. credits[j][job.payee] >= side.payee
      <4> HIDE DEF side
      <4>1. credits[j][job.payee] = (IF job.payee = job.requester THEN job.bounty - amount ELSE 0)
                                  + side.payee + (IF job.payee = job.worker THEN side.worker ELSE 0)
        BY <2>2, <3>1 DEF Share, side
      <4>2. QED
        BY <3>2, <4>1
    <3>6. QED
      BY <3>4, <3>5
  <2>5. QED
    BY <2>3, <2>4
<1>2. QED
  BY <1>1, AccountsHold, TypeCorrect, PTL

(* The bond answers for delivery and for nothing else: whoever delivered    *)
(* got it back whatever the verdict, and a bond that was burned made nobody *)
(* richer, the requester included.                                          *)
THEOREM BondIsForDelivery == Spec => []BondAnswersForDelivery
<1>1. TypeOK /\ Accounts => BondAnswersForDelivery
  <2> SUFFICES ASSUME TypeOK, Accounts, NEW j \in JobIds, IsSettled(j), WasAccepted(j)
               PROVE  IF WasDelivered(j)
                      THEN credits[j][jobs[j].worker] >= Bond(j)
                      ELSE credits[j] = [Nothing EXCEPT ![jobs[j].requester] = jobs[j].bounty]
    BY DEF BondAnswersForDelivery
  <2> DEFINE job == jobs[j]
  <2>1. job \in Job /\ RecordOk(job) /\ job.bounty \in Nat /\ bondFor(job.bounty) \in Nat
        /\ job.requester \in Addr
    BY SettledShare, Rates DEF TypeOK, Job
  <2>2. job.worker \in Addr
    BY <2>1 DEF Job, WasAccepted
  <2>3. CASE ~WasDelivered(j)
    <3>1. credits[j] = Share(job, job.bounty, noSide)
      BY <2>3, SettledShare
    <3>2. Share(job, job.bounty, noSide) = [Nothing EXCEPT ![job.requester] = job.bounty]
      BY <2>1 DEF Share, noSide, Nothing
    <3>3. QED
      BY <2>3, <3>1, <3>2
  <2>4. CASE WasDelivered(j)
    <3>1. PICK amount \in 0..job.bounty :
              credits[j] = Share(job, job.bounty - amount, workerSide(job, amount))
      BY <2>4, SettledShare
    <3> DEFINE side == workerSide(job, amount)
    <3>2. side.payee \in Nat /\ side.worker \in Nat /\ job.bounty - amount \in Nat
          /\ side.worker >= bondFor(job.bounty)
      BY <2>1, WorkerLegs
    <3> HIDE DEF side
    <3>3. credits[j][job.worker] = (IF job.worker = job.requester THEN job.bounty - amount ELSE 0)
                                 + (IF job.worker = job.payee THEN side.payee ELSE 0) + side.worker
      BY <2>2, <3>1 DEF Share, side
    <3>4. QED
      BY <2>1, <2>4, <3>2, <3>3 DEF Bond
  <2>5. QED
    BY <2>3, <2>4
<1>2. QED
  BY <1>1, AccountsHold, TypeCorrect, PTL

(* A party that lets a clock run out is never paid for it: the requester    *)
(* loses the forfeit by a silent review, and everything by a dispute that   *)
(* nobody ruled on.                                                         *)
THEOREM StallingNeverPays == Spec => []StallNeverPays
<1>1. TypeOK /\ Accounts => StallNeverPays
  <2> SUFFICES ASSUME TypeOK, Accounts, NEW j \in JobIds, IsSettled(j),
                      jobs[j].status = "Expired", WasDelivered(j), jobs[j].payee # jobs[j].requester
               PROVE  credits[j][jobs[j].requester] =
                          IF WasDisputed(j) THEN 0 ELSE jobs[j].bounty - forfeitOn(jobs[j].bounty)
    BY DEF StallNeverPays
  <2> DEFINE job == jobs[j]
  <2>1. job \in Job /\ RecordOk(job) /\ job.bounty \in Nat /\ job.requester \in Addr
    BY SettledShare DEF TypeOK, Job
  <2>2. job.worker # job.requester
    BY <2>1 DEF RecordOk, WasDelivered
  <2>3. PICK amount \in 0..job.bounty :
            /\ credits[j] = Share(job, job.bounty - amount, workerSide(job, amount))
            /\ amount = IF WasDisputed(j) THEN job.bounty ELSE forfeitOn(job.bounty)
    BY SettledShare
  <2>4. job.bounty - amount \in Nat /\ job.bounty - job.bounty = 0
    BY <2>1
  <2>5. credits[j][job.requester] = job.bounty - amount
    BY <2>1, <2>2, <2>3, <2>4 DEF Share
  <2>6. QED
    BY <2>3, <2>4, <2>5
<1>2. QED
  BY <1>1, AccountsHold, TypeCorrect, PTL

-----------------------------------------------------------------------------
(* The totals.                                                              *)

(* What a settlement credits adds up to its legs. *)
LEMMA ShareSum ==
    ASSUME NEW job, NEW refund \in Nat, NEW side, side.payee \in Nat, side.worker \in Nat,
           job.requester \in Addr \/ refund = 0, job.payee \in Addr \/ side.payee = 0,
           job.worker \in Addr \/ side.worker = 0
    PROVE  Total(Share(job, refund, side)) = refund + side.payee + side.worker
<1> DEFINE toRequester == [a \in Addr |-> IF a = job.requester THEN refund ELSE 0]
           toLender == [a \in Addr |-> IF a = job.payee THEN side.payee ELSE 0]
           toBoth == [a \in Addr |-> toRequester[a] + toLender[a]]
           toWorker == [a \in Addr |-> IF a = job.worker THEN side.worker ELSE 0]
           share == Share(job, refund, side)
<1>1. SumOf(toRequester, Addr) = refund /\ SumOf(toLender, Addr) = side.payee
      /\ SumOf(toWorker, Addr) = side.worker
  <2>1. SumOf(toRequester, Addr) = refund
    BY AddrAssumption, SumPoint, refund \in Int
  <2>2. SumOf(toLender, Addr) = side.payee
    BY AddrAssumption, SumPoint, side.payee \in Int
  <2>3. SumOf(toWorker, Addr) = side.worker
    BY AddrAssumption, SumPoint, side.worker \in Int
  <2>4. QED
    BY <2>1, <2>2, <2>3
<1>2. \A a \in Addr : toRequester[a] \in Int /\ toLender[a] \in Int /\ toWorker[a] \in Int
                      /\ toBoth[a] = toRequester[a] + toLender[a] /\ toBoth[a] \in Int
  OBVIOUS
<1>3. \A a \in Addr : share[a] = toBoth[a] + toWorker[a]
  BY DEF Share
<1>4. Total(share) = SumOf(share, Addr)
  BY DEF Total, SumOf, Share
<1> HIDE DEF toRequester, toLender, toBoth, toWorker, share
<1>5. SumOf(toBoth, Addr) = refund + side.payee
  BY <1>1, <1>2, AddrAssumption, SumAdd
<1>6. SumOf(share, Addr) = SumOf(toBoth, Addr) + SumOf(toWorker, Addr)
  BY <1>2, <1>3, AddrAssumption, SumAdd
<1>7. Total(share) = refund + side.payee + side.worker
  BY <1>1, <1>4, <1>5, <1>6
<1>8. QED
  BY <1>7 DEF share

(* A settled job credited and burned exactly what it had locked. *)
THEOREM PaidInFull == Spec => []SettledInFull
<1>1. TypeOK /\ Accounts => SettledInFull
  <2> SUFFICES ASSUME TypeOK, Accounts, NEW j \in JobIds
               PROVE  Total(credits[j]) =
                          IF ~IsSettled(j) THEN 0
                          ELSE jobs[j].bounty + (IF WasDelivered(j) THEN Bond(j) ELSE 0)
    BY DEF SettledInFull
  <2> DEFINE job == jobs[j]
  <2>1. job \in Job /\ RecordOk(job) /\ job.bounty \in Nat /\ bondFor(job.bounty) \in Nat
        /\ job.worker \in Addr \cup {NoAddr} /\ job.payee \in Addr \cup {NoAddr}
    BY Rates DEF TypeOK, Job, Accounts
  <2>2. CASE ~IsSettled(j)
    <3>1. credits[j] = Nothing
      BY <2>2 DEF Accounts, PaidOut, IsSettled
    <3>2. \A a \in Addr : Nothing[a] = 0
      BY DEF Nothing
    <3>3. SumOf(Nothing, Addr) = 0
      BY <3>2, AddrAssumption, SumZero
    <3>4. Total(Nothing) = SumOf(Nothing, Addr)
      BY DEF Total, SumOf, Nothing
    <3>5. QED
      BY <2>2, <3>1, <3>3, <3>4
  <2>3. CASE IsSettled(j) /\ ~WasDelivered(j)
    <3>1. credits[j] = Share(job, job.bounty, noSide) /\ job.requester \in Addr
      BY <2>3, SettledShare
    <3>2. noSide.payee = 0 /\ noSide.worker = 0
      BY DEF noSide
    <3>3. Total(Share(job, job.bounty, noSide)) = job.bounty + 0 + 0
      BY <2>1, <3>1, <3>2, ShareSum
    <3>4. QED
      BY <2>1, <2>3, <3>1, <3>3
  <2>4. CASE IsSettled(j) /\ WasDelivered(j)
    <3>1. job.requester \in Addr
      BY <2>4, SettledShare
    <3>2. PICK amount \in 0..job.bounty :
              credits[j] = Share(job, job.bounty - amount, workerSide(job, amount))
      BY <2>4, SettledShare
    <3> DEFINE side == workerSide(job, amount)
    <3>3. /\ side.payee \in Nat /\ side.worker \in Nat /\ job.bounty - amount \in Nat /\ amount \in Nat
          /\ side.payee + side.worker = amount + bondFor(job.bounty)
          /\ job.payee \in Addr \/ side.payee = 0
      BY <2>1, WorkerLegs
    <3>4. job.worker \in Addr
      BY <2>1, <2>4 DEF RecordOk, WasDelivered
    <3> HIDE DEF side
    <3>5. Total(Share(job, job.bounty - amount, side)) = (job.bounty - amount) + side.payee + side.worker
      BY <3>1, <3>3, <3>4, ShareSum
    <3>6. (job.bounty - amount) + side.payee + side.worker = job.bounty + bondFor(job.bounty)
      BY <2>1, <3>3
    <3>7. QED
      BY <2>4, <3>2, <3>5, <3>6 DEF side, Bond
  <2>5. QED
    BY <2>2, <2>3, <2>4
<1>2. QED
  BY <1>1, AccountsHold, TypeCorrect, PTL

(* Every job id is in the sum, and there are finitely many. *)
LEMMA JobIdsFinite == IsFiniteSet(JobIds)
<1>1. 1 \in Int /\ MaxJobs \in Int
  BY InputAssumption
<1>2. QED
  BY <1>1, FS_Interval DEF JobIds

LEMMA LockedType ==
    ASSUME TypeOK, NEW j \in JobIds
    PROVE  Locked(j) \in Nat
<1>1. jobs[j].bounty \in Nat /\ Bond(j) \in Nat
  BY Rates DEF TypeOK, Job, Bond
<1>2. QED
  BY <1>1 DEF Locked

LEMMA OneJobChanges ==
    ASSUME NEW f, NEW g, NEW j \in JobIds, \A i \in JobIds : f[i] \in Int /\ g[i] \in Int,
           \A i \in JobIds \ {j} : g[i] = f[i]
    PROVE  SumOf(g, JobIds) = (SumOf(f, JobIds) - f[j]) + g[j]
BY JobIdsFinite, SumChange

(* A step that touches one job moves the escrow by what that job locks. *)
LEMMA OneJobLocked ==
    ASSUME TypeOK, TypeOK', NEW j \in JobIds, \A i \in JobIds \ {j} : jobs'[i] = jobs[i],
           totalEscrowed = Total([i \in JobIds |-> Locked(i)]),
           totalEscrowed' = (totalEscrowed - Locked(j)) + Locked(j)'
    PROVE  totalEscrowed' = Total([i \in JobIds |-> Locked(i)'])
<1> DEFINE f == [i \in JobIds |-> Locked(i)]
           g == [i \in JobIds |-> Locked(i)']
<1>1. \A i \in JobIds : Locked(i) \in Nat
  BY LockedType
<1>2. \A i \in JobIds : Locked(i)' \in Nat
  <2>1. ASSUME NEW i \in JobIds
        PROVE  jobs'[i].bounty \in Nat /\ Bond(i)' \in Nat
    BY Rates DEF TypeOK, Job, Bond
  <2>2. QED
    BY <2>1 DEF Locked
<1>3. \A i \in JobIds \ {j} : Locked(i)' = Locked(i)
  BY DEF Locked, Live, Bond
<1>4. PICK F, G : F = f /\ G = g
  OBVIOUS
<1>5. /\ \A i \in JobIds : F[i] \in Int /\ G[i] \in Int
      /\ \A i \in JobIds \ {j} : G[i] = F[i]
      /\ F[j] = Locked(j) /\ G[j] = Locked(j)'
  BY <1>1, <1>2, <1>3, <1>4
<1>6. Total(F) = SumOf(F, JobIds) /\ Total(G) = SumOf(G, JobIds)
  BY <1>4 DEF Total, SumOf
<1> HIDE DEF f, g
<1>7. SumOf(G, JobIds) = (SumOf(F, JobIds) - F[j]) + G[j]
  <2>1. \A i \in JobIds : F[i] \in Int /\ G[i] \in Int
    BY <1>5
  <2>2. \A i \in JobIds \ {j} : G[i] = F[i]
    BY <1>5
  <2>3. QED
    BY <2>1, <2>2, OneJobChanges
<1>8. totalEscrowed' = Total(G)
  BY <1>4, <1>5, <1>6, <1>7 DEF f
<1>9. QED
  BY <1>4, <1>8 DEF g

(* A route pays out and burns exactly what its job locks. *)
LEMMA RouteEmptiesTheJob ==
    ASSUME TypeOK, Accounts, NEW j \in JobIds, jobs[j].requester # NoAddr,
           NEW status, NEW refund \in Nat, NEW side \in [payee : Nat, worker : Nat], NEW burn \in Nat,
           Route(j, status, refund, side, burn)
    PROVE  /\ Live(j)
           /\ (refund + side.payee + side.worker) + burn = Locked(j)
           /\ Total(Share(jobs[j], refund, side)) = refund + side.payee + side.worker
<1> DEFINE job == jobs[j]
<1>1. /\ job \in Job /\ job.bounty \in Nat /\ Bond(j) \in Nat /\ Bond(j) = bondFor(job.bounty)
      /\ job.requester \in Addr /\ job.payee \in Addr \cup {NoAddr}
      /\ job.worker \in Addr \cup {NoAddr}
  BY Rates DEF TypeOK, Job, Bond
<1>2. RecordOk(job)
  BY DEF Accounts
<1>3. Live(j)
  BY DEF Route, Live, Settled
<1>4. Locked(j) = job.bounty + (IF job.status = "Open" THEN 0 ELSE Bond(j))
  BY <1>3 DEF Locked
<1>5. ASSUME side = noSide, refund = job.bounty, burn = IF job.status = "Open" THEN 0 ELSE Bond(j)
      PROVE  /\ (refund + side.payee + side.worker) + burn = Locked(j)
             /\ (job.payee \in Addr \/ side.payee = 0)
             /\ (job.worker \in Addr \/ side.worker = 0)
  BY <1>1, <1>4, <1>5 DEF noSide
<1>6. ASSUME NEW amount \in 0..job.bounty, side = workerSide(job, amount), refund = job.bounty - amount,
             burn = 0, job.status \in {"Submitted", "Disputed"}
      PROVE  /\ (refund + side.payee + side.worker) + burn = Locked(j)
             /\ (job.payee \in Addr \/ side.payee = 0)
             /\ (job.worker \in Addr \/ side.worker = 0)
  <2>1. side.payee + side.worker = amount + Bond(j) /\ (job.payee = NoAddr => side.payee = 0)
    BY <1>1, <1>2, <1>6, WorkerLegs
  <2>2. job.worker \in Addr
    BY <1>1, <1>2, <1>6 DEF RecordOk
  <2>3. Locked(j) = job.bounty + Bond(j)
    BY <1>4, <1>6
  <2>4. (refund + side.payee + side.worker) + burn = job.bounty + Bond(j)
    <3>1. ASSUME NEW b \in Nat, NEW a \in Int, NEW p \in Nat, NEW w \in Nat, NEW bond \in Nat,
                 p + w = a + bond
          PROVE  ((b - a) + p + w) + 0 = b + bond
      BY <3>1
    <3>2. side.payee \in Nat /\ side.worker \in Nat /\ amount \in Int
      BY <1>1
    <3>3. ((job.bounty - amount) + side.payee + side.worker) + 0 = job.bounty + Bond(j)
      BY <1>1, <2>1, <3>1, <3>2
    <3>4. QED
      BY <1>6, <3>3
  <2>5. (refund + side.payee + side.worker) + burn = Locked(j)
    BY <2>3, <2>4
  <2>6. job.payee \in Addr \/ side.payee = 0
    BY <1>1, <2>1
  <2>7. QED
    BY <2>2, <2>5, <2>6
<1>7. /\ (refund + side.payee + side.worker) + burn = Locked(j)
      /\ job.payee \in Addr \/ side.payee = 0
      /\ job.worker \in Addr \/ side.worker = 0
  <2>1. CASE job.status \in {"Open", "Accepted"}
    BY <1>5, <2>1 DEF Route
  <2>2. CASE job.status = "Submitted" /\ status = "Expired"
    <3>1. forfeitOn(job.bounty) \in 0..job.bounty
      BY <1>1, Rates
    <3>2. /\ refund = job.bounty - forfeitOn(job.bounty)
          /\ side = workerSide(job, forfeitOn(job.bounty)) /\ burn = 0
      BY <2>2 DEF Route
    <3>3. QED
      BY <1>6, <2>2, <3>1, <3>2
  <2>3. CASE \/ job.status = "Submitted" /\ status # "Expired"
             \/ job.status = "Disputed" /\ status # "Refunded"
    <3>1. job.bounty \in 0..job.bounty /\ job.bounty - job.bounty = 0
      BY <1>1
    <3>2. QED
      BY <1>6, <2>3, <3>1 DEF Route
  <2>4. CASE job.status = "Disputed" /\ status = "Refunded"
    <3>1. 0 \in 0..job.bounty /\ job.bounty - 0 = job.bounty
      BY <1>1
    <3>2. QED
      BY <1>6, <2>4, <3>1 DEF Route
  <2>5. QED
    BY <2>1, <2>2, <2>3, <2>4 DEF Route
<1>8. Total(Share(job, refund, side)) = refund + side.payee + side.worker
  BY <1>1, <1>7, ShareSum
<1>9. QED
  BY <1>3, <1>7, <1>8

(* The sum of the balances after something is added to each. *)
LEMMA BalancesAdd ==
    ASSUME NEW f \in [Addr -> Nat], NEW g \in [Addr -> Nat]
    PROVE  Total([a \in Addr |-> f[a] + g[a]]) = Total(f) + Total(g)
<1> DEFINE h == [a \in Addr |-> f[a] + g[a]]
<1>1. \A a \in Addr : f[a] \in Int /\ g[a] \in Int /\ h[a] = f[a] + g[a]
  OBVIOUS
<1>2. Total(h) = SumOf(h, Addr) /\ Total(f) = SumOf(f, Addr) /\ Total(g) = SumOf(g, Addr)
  BY DEF Total, SumOf
<1> HIDE DEF h
<1>3. SumOf(h, Addr) = SumOf(f, Addr) + SumOf(g, Addr)
  BY <1>1, AddrAssumption, SumAdd
<1>4. Total(h) = Total(f) + Total(g)
  BY <1>2, <1>3
<1>5. QED
  BY <1>4 DEF h

LEMMA OneBalanceChanges ==
    ASSUME NEW f, NEW g, NEW m \in Addr, \A a \in Addr : f[a] \in Int /\ g[a] \in Int,
           \A a \in Addr \ {m} : g[a] = f[a]
    PROVE  SumOf(g, Addr) = (SumOf(f, Addr) - f[m]) + g[m]
BY AddrAssumption, SumChange

LEMMA TotalType ==
    ASSUME NEW f \in [Addr -> Nat]
    PROVE  Total(f) \in Nat
<1>1. \A a \in Addr : f[a] \in Nat
  OBVIOUS
<1>2. Total(f) = SumOf(f, Addr)
  BY DEF Total, SumOf
<1>3. QED
  BY <1>1, <1>2, AddrAssumption, SumNat

(* ... or one of them is set. *)
LEMMA BalanceSet ==
    ASSUME NEW f \in [Addr -> Nat], NEW m \in Addr, NEW n \in Nat
    PROVE  Total([f EXCEPT ![m] = n]) = (Total(f) - f[m]) + n
<1> DEFINE h == [f EXCEPT ![m] = n]
<1>1. /\ \A a \in Addr : f[a] \in Int /\ h[a] \in Int
      /\ \A a \in Addr \ {m} : h[a] = f[a]
      /\ h[m] = n
  OBVIOUS
<1>2. Total(h) = SumOf(h, Addr) /\ Total(f) = SumOf(f, Addr)
  BY DEF Total, SumOf
<1> HIDE DEF h
<1>3. SumOf(h, Addr) = (SumOf(f, Addr) - f[m]) + h[m]
  <2>1. \A a \in Addr : f[a] \in Int /\ h[a] \in Int
    BY <1>1
  <2>2. \A a \in Addr \ {m} : h[a] = f[a]
    BY <1>1
  <2>3. QED
    BY <2>1, <2>2, OneBalanceChanges
<1>4. Total(h) = (Total(f) - f[m]) + n
  BY <1>1, <1>2, <1>3
<1>5. QED
  BY <1>4 DEF h

(* What a settlement does to the book. *)
LEMMA SettleTotals ==
    ASSUME TypeOK, Accounts, NEW j \in JobIds, Settles(j)
    PROVE  /\ Live(j) /\ IsSettled(j)' /\ Locked(j)' = 0
           /\ \A i \in JobIds \ {j} : jobs'[i] = jobs[i]
           /\ totalEscrowed' = totalEscrowed - Locked(j)
           /\ \A a \in Addr : withdrawable'[a] >= withdrawable[a]
           /\ \E out, burn \in Nat :
                 /\ out + burn = Locked(j)
                 /\ totalWithdrawable' = totalWithdrawable + out
                 /\ Total(withdrawable') = Total(withdrawable) + out
                 /\ burned' = burned + burn
           /\ held' = held /\ stray' = stray
<1> DEFINE job == jobs[j]
<1>1. PICK status \in Settled, refund \in Nat, side \in [payee : Nat, worker : Nat], burn \in Nat :
          /\ job.requester # NoAddr
          /\ Route(j, status, refund, side, burn)
          /\ settle(j, status, refund, side, burn)
  BY DEF Settles
<1> DEFINE rec == [job EXCEPT !.status = status]
           out == refund + side.payee + side.worker
           share == Share(job, refund, side)
<1>2. job \in Job /\ rec.status = status /\ rec.requester = job.requester
  BY DEF TypeOK, Job
<1>3. /\ jobs' = [jobs EXCEPT ![j] = rec]
      /\ totalEscrowed' = totalEscrowed - (out + burn)
      /\ totalWithdrawable' = totalWithdrawable + out
      /\ burned' = burned + burn
      /\ held' = held /\ stray' = stray
  BY <1>1 DEF settle, TypeOK
<1>4. withdrawable' = [a \in Addr |-> withdrawable[a] + share[a]]
  BY <1>1 DEF settle, Share
<1>5. share \in [Addr -> Nat] /\ withdrawable \in [Addr -> Nat] /\ out \in Nat
  BY DEF Share, TypeOK
<1>6. Live(j) /\ out + burn = Locked(j) /\ Total(share) = out
  BY <1>1, RouteEmptiesTheJob
<1>7. /\ jobs'[j] = rec /\ IsSettled(j)' /\ ~Live(j)'
      /\ \A i \in JobIds \ {j} : jobs'[i] = jobs[i]
  <2>1. jobs'[j] = rec /\ \A i \in JobIds \ {j} : jobs'[i] = jobs[i]
    BY <1>3 DEF TypeOK
  <2> HIDE DEF rec
  <2>2. QED
    BY <1>1, <1>2, <2>1 DEF IsSettled, Live
<1> HIDE DEF rec, out, share
<1>8. Total(withdrawable') = Total(withdrawable) + out
  BY <1>4, <1>5, <1>6, BalancesAdd
<1>9. \A a \in Addr : withdrawable'[a] >= withdrawable[a]
  BY <1>4, <1>5
<1>10. QED
  BY <1>3, <1>5, <1>6, <1>7, <1>8, <1>9 DEF Locked

(* What the other calls do to it: a posting fills an empty pot ... *)
LEMMA PostTotals ==
    ASSUME TypeOK, LifeCycle, NEW m \in Addr, NEW b \in Bounties, NEW s \in Scores, NEW w \in Windows,
           postJob(m, b, s, w)
    PROVE  \E j \in JobIds :
              /\ ~Live(j) /\ ~IsSettled(j) /\ Locked(j) = 0
              /\ Live(j)' /\ Locked(j)' = b /\ b > 0
              /\ \A i \in JobIds \ {j} : jobs'[i] = jobs[i]
              /\ totalEscrowed' = totalEscrowed + b
              /\ \A a \in Addr : withdrawable'[a] >= withdrawable[a]
              /\ Total(withdrawable') = Total(withdrawable) + feeOn(b)
              /\ totalWithdrawable' = totalWithdrawable + feeOn(b)
              /\ held' = held + b + feeOn(b)
              /\ burned' = burned /\ stray' = stray
<1> DEFINE rec == newJob(m, b, s, w)
<1>1. b \in Nat /\ feeOn(b) \in Nat /\ b > 0
  BY InputAssumption, ConfigAssumption, Rates DEF postJob, ConfigOk
<1>2. PICK j \in JobIds : j = jobCount + 1 /\ j > jobCount
  BY InputAssumption DEF postJob, TypeOK, JobIds
<1>3. jobs[j] = NoJob
  BY <1>2 DEF LifeCycle, NoPhantomJobs
<1>4. ~Live(j) /\ ~IsSettled(j) /\ Locked(j) = 0
  BY <1>3 DEF Live, IsSettled, Locked, NoJob
<1>5. jobs'[j] = rec /\ \A i \in JobIds \ {j} : jobs'[i] = jobs[i]
  BY <1>2 DEF postJob, TypeOK
<1>6. Live(j)' /\ Locked(j)' = b
  <2>1. m # NoAddr
    BY ConfigAssumption DEF ConfigOk
  <2>2. jobs'[j].requester = m /\ jobs'[j].status = "Open" /\ jobs'[j].bounty = b
    BY <1>5 DEF newJob
  <2>3. Live(j)'
    BY <2>1, <2>2 DEF Live, Settled
  <2>4. QED
    BY <1>1, <2>2, <2>3 DEF Locked
<1>7. /\ \A a \in Addr : withdrawable'[a] >= withdrawable[a]
      /\ Total(withdrawable') = Total(withdrawable) + feeOn(b)
  <2> DEFINE cut == feeOn(b)
  <2>1. withdrawable' = [withdrawable EXCEPT ![feeRecipient] = @ + cut] /\ withdrawable \in [Addr -> Nat]
    BY DEF postJob, TypeOK
  <2>2. CASE feeRecipient \in Addr
    <3> DEFINE more == withdrawable[feeRecipient] + cut
    <3>1. withdrawable' = [withdrawable EXCEPT ![feeRecipient] = more]
      BY <2>1
    <3>2. more \in Nat /\ withdrawable[feeRecipient] \in Nat
      BY <1>1, <2>1, <2>2
    <3>3. \A a \in Addr : withdrawable'[a] >= withdrawable[a]
      BY <1>1, <2>1, <2>2, <3>1
    <3>4. Total(withdrawable) \in Int
      BY <2>1, TotalType
    <3> HIDE DEF more
    <3>5. Total([withdrawable EXCEPT ![feeRecipient] = more])
              = (Total(withdrawable) - withdrawable[feeRecipient]) + more
      BY <2>1, <2>2, <3>2, BalanceSet
    <3>6. QED
      BY <1>1, <3>1, <3>2, <3>3, <3>4, <3>5 DEF more
  <2>3. CASE feeRecipient \notin Addr
    <3>1. withdrawable' = withdrawable
      BY <2>1, <2>3
    <3>2. cut = 0
      BY <1>1, <2>3, ConfigAssumption DEF ConfigOk, feeOn, BPS
    <3>3. Total(withdrawable) \in Int
      BY <2>1, TotalType
    <3>4. QED
      BY <2>1, <3>1, <3>2, <3>3
  <2>4. QED
    BY <2>2, <2>3
<1>8. /\ totalEscrowed' = totalEscrowed + b
      /\ totalWithdrawable' = totalWithdrawable + feeOn(b)
      /\ held' = held + b + feeOn(b)
      /\ burned' = burned /\ stray' = stray
  BY <1>1 DEF postJob, PullFrom, TypeOK
<1>9. QED
  BY <1>1, <1>2, <1>4, <1>5, <1>6, <1>7, <1>8

(* ... an acceptance adds the bond to it ... *)
LEMMA AcceptTotals ==
    ASSUME TypeOK, NEW m \in Addr, NEW j \in JobIds, NEW answer, acceptJob(m, j, answer)
    PROVE  LET bond == bondFor(jobs[j].bounty)
           IN  /\ bond \in Nat /\ Live(j) /\ Live(j)' /\ Locked(j)' = Locked(j) + bond
               /\ \A i \in JobIds \ {j} : jobs'[i] = jobs[i]
               /\ totalEscrowed' = totalEscrowed + bond /\ held' = held + bond
               /\ UNCHANGED <<withdrawable, totalWithdrawable, burned, stray>>
<1> DEFINE bond == bondFor(jobs[j].bounty)
           rec == [jobs[j] EXCEPT !.worker = m, !.status = "Accepted",
                                  !.deliveryDeadline = now + jobs[j].deliveryWindow]
<1>1. jobs[j] \in Job /\ jobs[j].bounty \in Nat /\ bond \in Nat
  BY Rates DEF TypeOK, Job
<1>2. jobs' = [jobs EXCEPT ![j] = rec]
  BY DEF acceptJob, TypeOK
<1>3. rec.status = "Accepted" /\ rec.requester = jobs[j].requester /\ rec.bounty = jobs[j].bounty
  BY <1>1 DEF Job
<1> HIDE DEF rec
<1>4. jobs'[j] = rec /\ \A i \in JobIds \ {j} : jobs'[i] = jobs[i]
  BY <1>2 DEF TypeOK
<1>5. Live(j) /\ Live(j)' /\ Bond(j)' = bond
  BY <1>3, <1>4 DEF acceptJob, Live, Settled, Bond
<1>6. Locked(j) = jobs[j].bounty /\ Locked(j)' = jobs[j].bounty + bond
  BY <1>1, <1>3, <1>4, <1>5 DEF acceptJob, Locked
<1>7. totalEscrowed' = totalEscrowed + bond /\ held' = held + bond
  BY <1>1 DEF acceptJob, PullFrom, TypeOK
<1>8. UNCHANGED <<withdrawable, totalWithdrawable, burned, stray>>
  BY DEF acceptJob
<1>9. QED
  BY <1>1, <1>4, <1>5, <1>6, <1>7, <1>8

(* ... and delivering, pledging and disputing leave it as it was. *)
LEMMA PotsKept ==
    ASSUME TypeOK, LifeCycle, NEW m \in Addr, NEW j \in JobIds, NEW payee, NEW amount,
           submitWork(m, j) \/ assignPayee(m, j, payee, amount) \/ raiseDispute(m, j)
    PROVE  /\ UNCHANGED book
           /\ \A i \in JobIds : /\ Live(i)' = Live(i) /\ IsSettled(i)' = IsSettled(i)
                                /\ Locked(i)' = Locked(i)
<1>1. PICK rec : /\ jobs' = [jobs EXCEPT ![j] = rec]
                 /\ rec.requester = jobs[j].requester /\ rec.bounty = jobs[j].bounty
                 /\ rec.status \in {"Accepted", "Submitted", "Disputed"}
  <2>1. jobs[j] \in Job
    BY DEF TypeOK
  <2>2. CASE submitWork(m, j)
    <3> DEFINE rec == [jobs[j] EXCEPT !.status = "Submitted", !.reviewDeadline = now + REVIEW_WINDOW]
    <3>1. jobs' = [jobs EXCEPT ![j] = rec]
      BY <2>2 DEF submitWork, TypeOK
    <3>2. rec.requester = jobs[j].requester /\ rec.bounty = jobs[j].bounty /\ rec.status = "Submitted"
      BY <2>1 DEF Job
    <3> HIDE DEF rec
    <3>3. QED
      BY <3>1, <3>2
  <2>3. CASE assignPayee(m, j, payee, amount)
    <3> DEFINE rec == [jobs[j] EXCEPT !.payee = payee, !.payeeAmount = amount]
    <3>1. jobs' = [jobs EXCEPT ![j] = rec]
      BY <2>3 DEF assignPayee, TypeOK
    <3>2. rec.requester = jobs[j].requester /\ rec.bounty = jobs[j].bounty /\ rec.status = "Accepted"
      BY <2>1, <2>3 DEF Job, assignPayee
    <3> HIDE DEF rec
    <3>3. QED
      BY <3>1, <3>2
  <2>4. CASE raiseDispute(m, j)
    <3> DEFINE rec == [jobs[j] EXCEPT !.status = "Disputed", !.disputeDeadline = now + DISPUTE_WINDOW]
    <3>1. jobs' = [jobs EXCEPT ![j] = rec]
      BY <2>4 DEF raiseDispute, TypeOK
    <3>2. rec.requester = jobs[j].requester /\ rec.bounty = jobs[j].bounty /\ rec.status = "Disputed"
      BY <2>1 DEF Job
    <3> HIDE DEF rec
    <3>3. QED
      BY <3>1, <3>2
  <2>5. QED
    BY <2>2, <2>3, <2>4
<1>2. jobs[j].status \in {"Accepted", "Submitted"} /\ UNCHANGED book
  BY DEF submitWork, assignPayee, raiseDispute
<1>3. ASSUME NEW i \in JobIds
      PROVE  /\ jobs'[i].requester = jobs[i].requester /\ jobs'[i].bounty = jobs[i].bounty
             /\ jobs'[i].status \in Settled <=> jobs[i].status \in Settled
             /\ jobs'[i].status = "Open" <=> jobs[i].status = "Open"
  <2>1. CASE i = j
    <3>1. jobs'[i] = rec
      BY <1>1, <2>1 DEF TypeOK
    <3>2. QED
      BY <1>1, <1>2, <2>1, <3>1 DEF Settled
  <2>2. CASE i # j
    BY <1>1, <2>2 DEF TypeOK
  <2>3. QED
    BY <2>1, <2>2
<1>4. QED
  BY <1>2, <1>3 DEF Live, IsSettled, Locked, Bond

LEMMA StepEscrow == TypeOK /\ LifeCycle /\ Accounts /\ EscrowIsLocked /\ [Next]_vars => EscrowIsLocked'
<1> SUFFICES ASSUME TypeOK, LifeCycle, Accounts, EscrowIsLocked, [Next]_vars
             PROVE  EscrowIsLocked'
  OBVIOUS
<1>0. TypeOK'
  BY StepType
<1>1. /\ totalEscrowed = Total([i \in JobIds |-> Locked(i)]) /\ totalWithdrawable = Total(withdrawable)
      /\ totalEscrowed \in Nat /\ totalWithdrawable \in Nat /\ withdrawable \in [Addr -> Nat]
      /\ \A i \in JobIds : Locked(i) \in Nat
  BY LockedType DEF EscrowIsLocked, TypeOK
<1>2. ASSUME NEW j \in JobIds, \A i \in JobIds \ {j} : jobs'[i] = jobs[i],
             totalEscrowed' = (totalEscrowed - Locked(j)) + Locked(j)',
             totalWithdrawable' = Total(withdrawable')
      PROVE  EscrowIsLocked'
  <2>1. totalEscrowed' = Total([i \in JobIds |-> Locked(i)'])
    BY <1>0, <1>1, <1>2, OneJobLocked
  <2>2. QED
    BY <1>2, <2>1 DEF EscrowIsLocked
<1>3. ASSUME \A i \in JobIds : Locked(i)' = Locked(i), totalEscrowed' = totalEscrowed,
             totalWithdrawable' = Total(withdrawable')
      PROVE  EscrowIsLocked'
  <2>1. [i \in JobIds |-> Locked(i)'] = [i \in JobIds |-> Locked(i)]
    BY <1>3
  <2>2. totalEscrowed' = Total([i \in JobIds |-> Locked(i)'])
    BY <1>1, <1>3, <2>1
  <2>3. QED
    BY <1>3, <2>2 DEF EscrowIsLocked
<1>4. ASSUME UNCHANGED <<jobs, totalEscrowed, totalWithdrawable, withdrawable>>
      PROVE  EscrowIsLocked'
  <2>1. \A i \in JobIds : Locked(i)' = Locked(i)
    BY <1>4 DEF Locked, Live, Bond
  <2>2. totalWithdrawable' = Total(withdrawable')
    BY <1>1, <1>4
  <2>3. QED
    BY <1>3, <1>4, <2>1, <2>2
<1>5. ASSUME NEW m \in Addr, NEW b \in Bounties, NEW s \in Scores, NEW w \in Windows,
             postJob(m, b, s, w)
      PROVE  EscrowIsLocked'
  <2>1. PICK j \in JobIds : /\ Locked(j) = 0 /\ Locked(j)' = b
                            /\ \A i \in JobIds \ {j} : jobs'[i] = jobs[i]
                            /\ totalEscrowed' = totalEscrowed + b
                            /\ Total(withdrawable') = Total(withdrawable) + feeOn(b)
                            /\ totalWithdrawable' = totalWithdrawable + feeOn(b)
    BY <1>5, PostTotals
  <2>2. b \in Nat
    BY InputAssumption
  <2>3. totalEscrowed' = (totalEscrowed - Locked(j)) + Locked(j)'
    BY <1>1, <2>1, <2>2
  <2>4. totalWithdrawable' = Total(withdrawable')
    BY <1>1, <2>1
  <2>5. QED
    BY <1>2, <2>1, <2>3, <2>4
<1>6. ASSUME NEW m \in Addr, NEW j \in JobIds, NEW answer, acceptJob(m, j, answer)
      PROVE  EscrowIsLocked'
  <2> DEFINE bond == bondFor(jobs[j].bounty)
  <2>1. /\ bond \in Nat /\ Locked(j)' = Locked(j) + bond
        /\ \A i \in JobIds \ {j} : jobs'[i] = jobs[i]
        /\ totalEscrowed' = totalEscrowed + bond
        /\ UNCHANGED <<withdrawable, totalWithdrawable>>
    BY <1>6, AcceptTotals
  <2> HIDE DEF bond
  <2>2. totalEscrowed' = (totalEscrowed - Locked(j)) + Locked(j)'
    BY <1>1, <2>1
  <2>3. totalWithdrawable' = Total(withdrawable')
    BY <1>1, <2>1
  <2>4. QED
    BY <1>2, <2>1, <2>2, <2>3
<1>7. ASSUME NEW m \in Addr, NEW j \in JobIds, NEW payee, NEW amount,
             submitWork(m, j) \/ assignPayee(m, j, payee, amount) \/ raiseDispute(m, j)
      PROVE  EscrowIsLocked'
  <2>1. UNCHANGED book /\ \A i \in JobIds : Locked(i)' = Locked(i)
    BY <1>7, PotsKept
  <2>2. totalEscrowed' = totalEscrowed /\ totalWithdrawable' = Total(withdrawable')
    BY <1>1, <2>1 DEF book
  <2>3. QED
    BY <1>3, <2>1, <2>2
<1>8. ASSUME NEW j \in JobIds, Settles(j)
      PROVE  EscrowIsLocked'
  <2>1. /\ Locked(j)' = 0 /\ \A i \in JobIds \ {j} : jobs'[i] = jobs[i]
        /\ totalEscrowed' = totalEscrowed - Locked(j)
    BY <1>8, SettleTotals
  <2>2. totalEscrowed' = (totalEscrowed - Locked(j)) + Locked(j)'
    BY <1>1, <2>1
  <2>3. totalWithdrawable' = Total(withdrawable')
    BY <1>1, <1>8, SettleTotals
  <2>4. QED
    BY <1>2, <2>1, <2>2, <2>3
<1>9. ASSUME NEW m \in Addr, NEW to \in Addr, withdrawTo(m, to)
      PROVE  EscrowIsLocked'
  <2>1. /\ withdrawable' = [withdrawable EXCEPT ![m] = 0]
        /\ totalWithdrawable' = totalWithdrawable - withdrawable[m]
        /\ UNCHANGED <<jobs, totalEscrowed>>
    BY <1>9 DEF withdrawTo
  <2>2. Total([withdrawable EXCEPT ![m] = 0]) = (Total(withdrawable) - withdrawable[m]) + 0
    BY <1>1, BalanceSet
  <2>3. totalWithdrawable' = Total(withdrawable')
    BY <1>1, <2>1, <2>2
  <2>4. \A i \in JobIds : Locked(i)' = Locked(i)
    BY <2>1 DEF Locked, Live, Bond
  <2>5. QED
    BY <1>3, <2>1, <2>3, <2>4
<1>10. CASE strayTransfer
  BY <1>4, <1>10 DEF strayTransfer
<1>11. CASE UNCHANGED <<jobs, jobCount, book>>
  BY <1>4, <1>11 DEF book
<1>12. QED
  BY <1>5, <1>6, <1>7, <1>8, <1>9, <1>10, <1>11, StepKinds

(* The contract's two totals are what they say: `totalEscrowed' is the sum  *)
(* of what the unsettled jobs lock, `totalWithdrawable' that of the         *)
(* balances, however many jobs and accounts there are.                      *)
THEOREM TotalsAreSums == Spec => []EscrowIsLocked
<1>1. Init => EscrowIsLocked
  <2> SUFFICES ASSUME Init PROVE EscrowIsLocked
    OBVIOUS
  <2> DEFINE f == [j \in JobIds |-> Locked(j)]
  <2>1. \A j \in JobIds : f[j] = 0
    BY DEF Init, NoJob, Locked, Live
  <2>2. Total(f) = SumOf(f, JobIds) /\ Total(withdrawable) = SumOf(withdrawable, Addr)
    BY DEF Total, SumOf, Init, Nothing
  <2> HIDE DEF f
  <2>3. SumOf(f, JobIds) = 0
    BY <2>1, JobIdsFinite, SumZero
  <2>4. \A a \in Addr : withdrawable[a] = 0
    BY DEF Init, Nothing
  <2>5. SumOf(withdrawable, Addr) = 0
    BY <2>4, AddrAssumption, SumZero
  <2>6. totalEscrowed = Total(f) /\ totalWithdrawable = Total(withdrawable)
    BY <2>2, <2>3, <2>5 DEF Init
  <2>7. QED
    BY <2>6 DEF EscrowIsLocked, f
<1>2. QED
  BY <1>1, StepEscrow, TypeCorrect, LifeCycleHolds, AccountsHold, PTL DEF Spec

(* What a job locks, and what an account is owed, is there to be taken out: *)
(* Solidity's checked subtraction reverts no settlement and no withdrawal.  *)
NoUnderflow ==
    /\ \A j \in JobIds : Locked(j) <= totalEscrowed
    /\ \A a \in Addr : withdrawable[a] <= totalWithdrawable

LEMMA SumsCover == TypeOK /\ EscrowIsLocked => NoUnderflow
<1> SUFFICES ASSUME TypeOK, EscrowIsLocked PROVE NoUnderflow
  OBVIOUS
<1> DEFINE f == [i \in JobIds |-> Locked(i)]
<1>1. totalEscrowed = Total(f) /\ totalWithdrawable = Total(withdrawable)
  BY DEF EscrowIsLocked
<1>2. Total(f) = SumOf(f, JobIds) /\ Total(withdrawable) = SumOf(withdrawable, Addr)
  BY DEF Total, SumOf, TypeOK
<1>3. \A i \in JobIds : f[i] = Locked(i) /\ f[i] \in Nat
  BY LockedType
<1> HIDE DEF f
<1>4. ASSUME NEW j \in JobIds
      PROVE  Locked(j) <= SumOf(f, JobIds)
  <2>1. \A i \in JobIds : f[i] \in Nat
    BY <1>3
  <2>2. f[j] <= SumOf(f, JobIds)
    BY <2>1, JobIdsFinite, TermWithin
  <2>3. QED
    BY <1>3, <2>2
<1>5. ASSUME NEW a \in Addr
      PROVE  withdrawable[a] <= SumOf(withdrawable, Addr)
  <2>1. \A x \in Addr : withdrawable[x] \in Nat
    BY DEF TypeOK
  <2>2. QED
    BY <2>1, AddrAssumption, TermWithin
<1>6. QED
  BY <1>1, <1>2, <1>4, <1>5 DEF NoUnderflow

(* What the permissionless exit of job j would pay, were it called now. *)
ExitTerms(j, status, refund, side, burn) ==
    /\ now >= Deadline(j)
    /\ Route(j, status, refund, side, burn)
    /\ status = IF jobs[j].status = "Accepted" THEN "Refunded" ELSE "Expired"

LEMMA ExitsTakeThem ==
    ASSUME NEW j \in JobIds, Live(j), NEW status, NEW refund, NEW side, NEW burn,
           ExitTerms(j, status, refund, side, burn), settle(j, status, refund, side, burn)
    PROVE  exit(j)
<1>1. CASE jobs[j].status = "Open"
  <2>1. expireOpen(j)
    BY <1>1 DEF ExitTerms, Route, Deadline, Live, expireOpen
  <2>2. QED
    BY <2>1 DEF exit
<1>2. CASE jobs[j].status = "Accepted"
  <2>1. reclaimJob(j)
    BY <1>2 DEF ExitTerms, Route, Deadline, reclaimJob, Bond
  <2>2. QED
    BY <2>1 DEF exit
<1>3. CASE jobs[j].status = "Submitted"
  <2>1. expireReview(j)
    BY <1>3 DEF ExitTerms, Route, Deadline, expireReview
  <2>2. QED
    BY <2>1 DEF exit
<1>4. CASE jobs[j].status = "Disputed"
  <2>1. expireDispute(j)
    BY <1>4 DEF ExitTerms, Route, Deadline, expireDispute, release
  <2>2. QED
    BY <2>1 DEF exit
<1>5. QED
  BY <1>1, <1>2, <1>3, <1>4 DEF ExitTerms, Route

(* Past the deadline of its state an unsettled job has an exit, and nothing *)
(* can be in its way: the amounts it moves are in the escrow.  With         *)
(* ExitsTakeThem this is NoFrozenEscrow but for the word ENABLED: what is   *)
(* left of `exit' gives each variable its next value.                       *)
ExitsPayable ==
    \A j \in JobIds : Live(j) /\ now >= Deadline(j) =>
        \E status \in Settled, refund, burn \in Nat, side \in [payee : Nat, worker : Nat] :
            /\ ExitTerms(j, status, refund, side, burn)
            /\ totalEscrowed >= (refund + side.payee + side.worker) + burn

THEOREM ExitsStayOpen == Spec => []ExitsPayable
<1>1. TypeOK /\ Accounts /\ NoUnderflow => ExitsPayable
  <2> SUFFICES ASSUME TypeOK, Accounts, NoUnderflow,
                      NEW j \in JobIds, Live(j), now >= Deadline(j)
               PROVE  \E status \in Settled, refund, burn \in Nat, side \in [payee : Nat, worker : Nat] :
                          /\ ExitTerms(j, status, refund, side, burn)
                          /\ totalEscrowed >= (refund + side.payee + side.worker) + burn
    BY DEF ExitsPayable
  <2> DEFINE job == jobs[j]
             forfeit == forfeitOn(job.bounty)
  <2>1. /\ job \in Job /\ job.bounty \in Nat /\ Bond(j) \in Nat /\ job.requester # NoAddr
        /\ job.status \in {"Open", "Accepted", "Submitted", "Disputed"}
        /\ forfeit \in Nat /\ job.bounty - forfeit \in Nat
    <3>1. job \in Job /\ job.bounty \in Nat
      BY DEF TypeOK, Job
    <3>2. forfeit \in 0..job.bounty /\ Bond(j) \in Nat
      BY <3>1, Rates DEF Bond
    <3>3. job.status \in {"Open", "Accepted", "Submitted", "Disputed"} /\ job.requester # NoAddr
      BY <3>1 DEF Job, Status, Live, Settled
    <3>4. QED
      BY <3>1, <3>2, <3>3
  <2>2. ASSUME NEW status \in Settled, NEW refund \in Nat, NEW side \in [payee : Nat, worker : Nat],
               NEW burn \in Nat, ExitTerms(j, status, refund, side, burn)
        PROVE  totalEscrowed >= (refund + side.payee + side.worker) + burn
    <3>1. Route(j, status, refund, side, burn)
      BY <2>2 DEF ExitTerms
    <3>2. (refund + side.payee + side.worker) + burn = Locked(j)
      BY <2>1, <3>1, RouteEmptiesTheJob
    <3>3. Locked(j) <= totalEscrowed /\ Locked(j) \in Nat /\ totalEscrowed \in Nat
      BY LockedType DEF NoUnderflow, TypeOK
    <3>4. QED
      BY <3>2, <3>3
  <2>3. \A amount \in Nat : workerSide(job, amount) \in [payee : Nat, worker : Nat]
    BY <2>1, WorkerSideType
  <2>4. noSide \in [payee : Nat, worker : Nat] /\ 0 \in Nat /\ {"Refunded", "Expired"} \subseteq Settled
    BY DEF noSide, Settled
  <2>5. CASE job.status = "Open"
    <3>1. ExitTerms(j, "Expired", job.bounty, noSide, 0)
      BY <2>5 DEF ExitTerms, Route
    <3>2. QED
      BY <2>1, <2>2, <2>4, <3>1
  <2>6. CASE job.status = "Accepted"
    <3>1. ExitTerms(j, "Refunded", job.bounty, noSide, Bond(j))
      BY <2>6 DEF ExitTerms, Route, Deadline
    <3>2. QED
      BY <2>1, <2>2, <2>4, <3>1
  <2>7. CASE job.status = "Submitted"
    <3>1. ExitTerms(j, "Expired", job.bounty - forfeit, workerSide(job, forfeit), 0)
      BY <2>7 DEF ExitTerms, Route
    <3>2. PICK refund, side : refund = job.bounty - forfeit /\ side = workerSide(job, forfeit)
      OBVIOUS
    <3>3. refund \in Nat /\ side \in [payee : Nat, worker : Nat]
      BY <2>1, <2>3, <3>2
    <3>4. ExitTerms(j, "Expired", refund, side, 0)
      BY <3>1, <3>2
    <3>5. QED
      BY <2>2, <2>4, <3>3, <3>4
  <2>8. CASE job.status = "Disputed"
    <3>1. ExitTerms(j, "Expired", 0, workerSide(job, job.bounty), 0)
      BY <2>8 DEF ExitTerms, Route
    <3>2. PICK side : side = workerSide(job, job.bounty)
      OBVIOUS
    <3>3. side \in [payee : Nat, worker : Nat]
      BY <2>1, <2>3, <3>2
    <3>4. ExitTerms(j, "Expired", 0, side, 0)
      BY <3>1, <3>2
    <3>5. QED
      BY <2>2, <2>4, <3>3, <3>4
  <2>9. QED
    BY <2>1, <2>5, <2>6, <2>7, <2>8
<1>2. QED
  BY <1>1, SumsCover, TotalsAreSums, TypeCorrect, AccountsHold, PTL

-----------------------------------------------------------------------------
(* The contract implements the abstract ledger.                             *)

StageOf(j) == IF Live(j) THEN "open" ELSE IF IsSettled(j) THEN "closed" ELSE "unused"
Stages == [j \in JobIds |-> StageOf(j)]
Pot == [j \in JobIds |-> Locked(j)]

LEMMA LedgerSum == \A f : Ledger!Sum(f) = Total(f)
BY DEF Ledger!Sum, Total, Ledger!MapThenSumSet, MapThenSumSet, Ledger!MapThenFoldSet, MapThenFoldSet

(* The pots and their stages before and after a step that touches one job. *)
LEMMA OnePotChanges ==
    ASSUME NEW p \in JobIds, \A i \in JobIds \ {p} : jobs'[i] = jobs[i]
    PROVE  /\ Stages' = [Stages EXCEPT ![p] = StageOf(p)']
           /\ Pot' = [Pot EXCEPT ![p] = Pot'[p]]
           /\ Stages[p] = StageOf(p) /\ Pot[p] = Locked(p) /\ Pot'[p] = Locked(p)'
<1>1. \A i \in JobIds \ {p} : StageOf(i)' = StageOf(i) /\ Locked(i)' = Locked(i)
  BY DEF StageOf, Live, IsSettled, Locked, Bond
<1>2. QED
  BY <1>1 DEF Stages, Pot

LEMMA PostFunds ==
    ASSUME TypeOK, LifeCycle, NEW m \in Addr, NEW b \in Bounties, NEW s \in Scores, NEW w \in Windows,
           postJob(m, b, s, w)
    PROVE  \E p \in JobIds : Ledger!Fund(p)
<1>1. PICK p \in JobIds :
         /\ ~Live(p) /\ ~IsSettled(p) /\ Locked(p) = 0
         /\ Live(p)' /\ Locked(p)' = b /\ b > 0
         /\ \A i \in JobIds \ {p} : jobs'[i] = jobs[i]
         /\ \A a \in Addr : withdrawable'[a] >= withdrawable[a]
         /\ Total(withdrawable') = Total(withdrawable) + feeOn(b)
         /\ held' = held + b + feeOn(b)
         /\ burned' = burned /\ stray' = stray
  BY PostTotals
<1>2. /\ Stages' = [Stages EXCEPT ![p] = StageOf(p)'] /\ Pot' = [Pot EXCEPT ![p] = Pot'[p]]
      /\ Stages[p] = StageOf(p) /\ Pot'[p] = Locked(p)'
  BY <1>1, OnePotChanges
<1>3. StageOf(p) = "unused" /\ StageOf(p)' = "open"
  BY <1>1 DEF StageOf
<1>4. TypeOK' /\ b \in Nat /\ feeOn(b) \in Nat
  BY StepType, InputAssumption, Rates DEF Next, Transact
<1>5. Total(withdrawable) \in Nat /\ withdrawable' \in [Addr -> Nat]
  BY <1>4, TotalType DEF TypeOK
<1>6. held' = held + Pot'[p] + (Ledger!Sum(withdrawable') - Ledger!Sum(withdrawable))
  <2>1. Ledger!Sum(withdrawable') - Ledger!Sum(withdrawable) = feeOn(b)
    BY <1>1, <1>4, <1>5, LedgerSum
  <2>2. QED
    BY <1>1, <1>2, <1>4, <2>1
<1>7. Ledger!Gains
  BY <1>1, <1>5 DEF Ledger!Gains
<1>8. Ledger!Fund(p)
  BY <1>1, <1>2, <1>3, <1>6, <1>7 DEF Ledger!Fund, Stages, Pot, StageOf
<1>9. QED
  BY <1>8

(* A step that keeps the record of every job's money is a stutter. *)
LEMMA LedgerStutters ==
    ASSUME \A i \in JobIds : /\ Live(i)' = Live(i) /\ IsSettled(i)' = IsSettled(i)
                             /\ Locked(i)' = Locked(i),
           UNCHANGED <<withdrawable, held, burned, stray>>
    PROVE  UNCHANGED Ledger!ledger
<1>1. \A i \in JobIds : StageOf(i)' = StageOf(i)
  BY DEF StageOf
<1>2. Stages' = Stages /\ Pot' = Pot
  BY <1>1 DEF Stages, Pot
<1>3. burned' + stray' = burned + stray
  OBVIOUS
<1>4. QED
  BY <1>2, <1>3 DEF Ledger!ledger, Stages, Pot, StageOf

LEMMA AcceptStakes ==
    ASSUME TypeOK, NEW m \in Addr, NEW j \in JobIds, NEW answer, acceptJob(m, j, answer)
    PROVE  Ledger!Stake(j) \/ UNCHANGED Ledger!ledger
<1> DEFINE bond == bondFor(jobs[j].bounty)
<1>1. /\ bond \in Nat /\ Live(j) /\ Live(j)' /\ Locked(j)' = Locked(j) + bond
      /\ \A i \in JobIds \ {j} : jobs'[i] = jobs[i]
      /\ held' = held + bond
      /\ UNCHANGED <<withdrawable, burned, stray>>
  BY AcceptTotals
<1>2. Locked(j) \in Nat /\ held \in Nat /\ burned + stray \in Nat
  BY LockedType, InputAssumption DEF TypeOK
<1> HIDE DEF bond
<1>3. CASE bond > 0
  <2>1. /\ Stages' = [Stages EXCEPT ![j] = StageOf(j)'] /\ Pot' = [Pot EXCEPT ![j] = Pot'[j]]
        /\ Stages[j] = StageOf(j) /\ Pot[j] = Locked(j) /\ Pot'[j] = Locked(j)'
    BY <1>1, OnePotChanges
  <2>2. StageOf(j) = "open" /\ StageOf(j)' = "open"
    BY <1>1 DEF StageOf
  <2>3. Stages' = Stages
    BY <2>1, <2>2 DEF Stages
  <2>4. Pot'[j] > Pot[j] /\ held' = held + (Pot'[j] - Pot[j])
    BY <1>1, <1>2, <1>3, <2>1
  <2>5. burned' + stray' = burned + stray
    BY <1>1
  <2>6. Ledger!Stake(j)
    BY <1>1, <2>1, <2>2, <2>3, <2>4, <2>5 DEF Ledger!Stake, Stages, Pot, StageOf
  <2>7. QED
    BY <2>6
<1>4. CASE bond = 0
  <2>1. \A i \in JobIds \ {j} : /\ Live(i)' = Live(i) /\ IsSettled(i)' = IsSettled(i)
                                /\ Locked(i)' = Locked(i)
    BY <1>1 DEF Live, IsSettled, Locked, Bond
  <2>2. Live(j)' = Live(j) /\ IsSettled(j)' = IsSettled(j) /\ Locked(j)' = Locked(j)
    <3>1. ~IsSettled(j) /\ ~IsSettled(j)'
      BY <1>1 DEF Live, IsSettled
    <3>2. Locked(j)' = Locked(j)
      BY <1>1, <1>2, <1>4
    <3>3. Live(j)' = Live(j) /\ IsSettled(j)' = IsSettled(j)
      BY <1>1, <3>1 DEF Live, IsSettled
    <3>4. QED
      BY <3>2, <3>3
  <2>3. UNCHANGED <<withdrawable, held, burned, stray>>
    BY <1>1, <1>2, <1>4
  <2>4. UNCHANGED Ledger!ledger
    BY <2>1, <2>2, <2>3, LedgerStutters
  <2>5. QED
    BY <2>4
<1>5. QED
  BY <1>1, <1>3, <1>4

LEMMA SettlementSettles ==
    ASSUME TypeOK, LifeCycle, Accounts, [Next]_vars, NEW j \in JobIds, Settles(j)
    PROVE  Ledger!Settle(j)
<1>1. PICK out, burn \in Nat :
         /\ out + burn = Locked(j)
         /\ Total(withdrawable') = Total(withdrawable) + out
         /\ burned' = burned + burn
  BY SettleTotals
<1>2. /\ Live(j) /\ IsSettled(j)' /\ Locked(j)' = 0
      /\ \A i \in JobIds \ {j} : jobs'[i] = jobs[i]
      /\ \A a \in Addr : withdrawable'[a] >= withdrawable[a]
      /\ held' = held /\ stray' = stray
  BY SettleTotals
<1>3. /\ Stages' = [Stages EXCEPT ![j] = StageOf(j)'] /\ Pot' = [Pot EXCEPT ![j] = Pot'[j]]
      /\ Stages[j] = StageOf(j) /\ Pot[j] = Locked(j) /\ Pot'[j] = Locked(j)'
  BY <1>2, OnePotChanges
<1>4. StageOf(j) = "open" /\ StageOf(j)' = "closed"
  BY <1>2 DEF StageOf, IsSettled, Live
<1>5. withdrawable' \in [Addr -> Nat] /\ Total(withdrawable) \in Nat /\ burned \in Nat /\ stray \in Nat
  BY StepType, TotalType, InputAssumption DEF TypeOK
<1>6. Ledger!Gains
  BY <1>2, <1>5 DEF Ledger!Gains
<1>7. /\ burned' + stray' >= burned + stray
      /\ (Ledger!Sum(withdrawable') - Ledger!Sum(withdrawable))
             + ((burned' + stray') - (burned + stray)) = Pot[j]
  <2>1. Ledger!Sum(withdrawable') - Ledger!Sum(withdrawable) = out
    BY <1>1, <1>5, LedgerSum
  <2>2. (burned' + stray') - (burned + stray) = burn
    BY <1>1, <1>2, <1>5
  <2>3. QED
    BY <1>1, <1>2, <1>3, <1>5, <2>1, <2>2
<1>8. QED
  BY <1>2, <1>3, <1>4, <1>6, <1>7 DEF Ledger!Settle, Stages, Pot, StageOf

LEMMA StepLedger == TypeOK /\ LifeCycle /\ Accounts /\ [Next]_vars => [Ledger!Next]_Ledger!ledger
<1> SUFFICES ASSUME TypeOK, LifeCycle, Accounts, [Next]_vars
             PROVE  Ledger!Next \/ UNCHANGED Ledger!ledger
  OBVIOUS
<1>1. ASSUME NEW m \in Addr, NEW b \in Bounties, NEW s \in Scores, NEW w \in Windows,
             postJob(m, b, s, w)
      PROVE  Ledger!Next
  BY <1>1, PostFunds DEF Ledger!Next
<1>2. ASSUME NEW m \in Addr, NEW j \in JobIds, NEW answer, acceptJob(m, j, answer)
      PROVE  Ledger!Next \/ UNCHANGED Ledger!ledger
  BY <1>2, AcceptStakes DEF Ledger!Next
<1>3. ASSUME NEW m \in Addr, NEW j \in JobIds, NEW payee, NEW amount,
             submitWork(m, j) \/ assignPayee(m, j, payee, amount) \/ raiseDispute(m, j)
      PROVE  UNCHANGED Ledger!ledger
  <2>1. /\ UNCHANGED book
        /\ \A i \in JobIds : /\ Live(i)' = Live(i) /\ IsSettled(i)' = IsSettled(i)
                             /\ Locked(i)' = Locked(i)
    BY <1>3, PotsKept
  <2>2. UNCHANGED <<withdrawable, held, burned, stray>>
    BY <2>1 DEF book
  <2>3. QED
    BY <2>1, <2>2, LedgerStutters
<1>4. ASSUME NEW j \in JobIds, Settles(j)
      PROVE  Ledger!Next
  BY <1>4, SettlementSettles DEF Ledger!Next
<1>5. ASSUME UNCHANGED jobs
      PROVE  /\ Stages' = Stages /\ Pot' = Pot
             /\ \A i \in JobIds : /\ Live(i)' = Live(i) /\ IsSettled(i)' = IsSettled(i)
                                  /\ Locked(i)' = Locked(i)
  BY <1>5 DEF Stages, Pot, StageOf, Live, IsSettled, Locked, Bond
<1>6. ASSUME NEW m \in Addr, NEW to \in Addr, withdrawTo(m, to)
      PROVE  Ledger!Next
  <2>1. Stages' = Stages /\ Pot' = Pot /\ burned' + stray' = burned + stray
    BY <1>5, <1>6 DEF withdrawTo
  <2>2. Ledger!Collect(m)
    BY <1>6, <2>1 DEF withdrawTo, Ledger!Collect, Stages, Pot, StageOf
  <2>3. QED
    BY <2>2 DEF Ledger!Next
<1>7. CASE strayTransfer
  <2>1. Stages' = Stages /\ Pot' = Pot /\ withdrawable' = withdrawable
    BY <1>5, <1>7 DEF strayTransfer
  <2>2. held' = held + 1 /\ stray' = stray + 1 /\ burned' = burned
        /\ held \in Nat /\ stray \in Nat /\ burned \in Nat
    BY <1>7, InputAssumption DEF strayTransfer, TypeOK
  <2>3. held' > held /\ (burned' + stray') - (burned + stray) = held' - held
    BY <2>2
  <2>4. Ledger!Stray
    BY <2>1, <2>3 DEF Ledger!Stray, Stages, Pot, StageOf
  <2>5. QED
    BY <2>4 DEF Ledger!Next
<1>8. CASE UNCHANGED <<jobs, jobCount, book>>
  <2>1. UNCHANGED <<withdrawable, held, burned, stray>>
    BY <1>8 DEF book
  <2>2. QED
    BY <1>5, <1>8, <2>1, LedgerStutters
<1>9. QED
  BY <1>1, <1>2, <1>3, <1>4, <1>6, <1>7, <1>8, StepKinds

(* The contract implements the abstract ledger, step by step: whatever the  *)
(* states, deadlines and parties do, every unit is in exactly one pot, owed *)
(* to one account or lost, and a pot is closed once, into what it holds.    *)
THEOREM ImplementsLedger == Spec => LedgerSpec
<1>1. Init => Ledger!Init
  <2> SUFFICES ASSUME Init PROVE Ledger!Init
    OBVIOUS
  <2>1. \A j \in JobIds : StageOf(j) = "unused" /\ Locked(j) = 0
    BY DEF Init, NoJob, StageOf, Locked, Live, IsSettled
  <2>2. Stages = [j \in JobIds |-> "unused"] /\ Pot = [j \in JobIds |-> 0]
    BY <2>1 DEF Stages, Pot
  <2>3. withdrawable = [a \in Addr |-> 0] /\ held = 0 /\ burned + stray = 0
    BY DEF Init, Nothing
  <2>4. QED
    BY <2>2, <2>3 DEF Ledger!Init, Stages, Pot, StageOf
<1>2. QED
  BY <1>1, StepLedger, TypeCorrect, LifeCycleHolds, AccountsHold, PTL
     DEF Spec, LedgerSpec, Ledger!Spec

-----------------------------------------------------------------------------
(* The quotes.                                                              *)

(* An unsettled job quotes the whole bounty until its delivery is overdue.  *)
LEMMA QuoteSum ==
    ASSUME TypeOK, Accounts, NEW j \in JobIds, Live(j)
    PROVE  LET rel == releaseSplit(j)
           IN  /\ jobs[j].bounty \in Nat /\ jobs[j].bounty > 0
               /\ rel.toPayee + rel.toWorker =
                      IF jobs[j].status = "Accepted" /\ now >= jobs[j].deliveryDeadline
                      THEN 0 ELSE jobs[j].bounty
<1>1. jobs[j].bounty \in Nat /\ jobs[j].payeeAmount \in Nat
  BY DEF TypeOK, Job
<1>2. jobs[j].bounty > 0
  BY DEF Accounts, RecordOk, Live
<1>3. QED
  BY <1>1, <1>2 DEF releaseSplit, Live

LEMMA OnlyTickTurns == ASSUME Transact PROVE now' = now
<1>1. \A j, status, refund, side, burn : settle(j, status, refund, side, burn) => now' = now
  BY DEF settle
<1>2. ASSUME NEW j, exit(j)
      PROVE  now' = now
  BY <1>1, <1>2 DEF exit, reclaimJob, expireOpen, expireReview, expireDispute, release
<1>3. ASSUME NEW m, NEW j, NEW verdict,
             approveJob(m, j) \/ cancelJob(m, j) \/ resolveDispute(m, j, verdict)
      PROVE  now' = now
  BY <1>1, <1>3 DEF approveJob, cancelJob, resolveDispute, release
<1>4. ASSUME NEW m, NEW b, NEW s, NEW w, postJob(m, b, s, w)
      PROVE  now' = now
  BY <1>4 DEF postJob
<1>5. ASSUME NEW m, NEW j, NEW x, NEW y,
             \/ acceptJob(m, j, x) \/ submitWork(m, j) \/ assignPayee(m, j, x, y)
             \/ raiseDispute(m, j) \/ withdrawTo(m, x)
      PROVE  now' = now
  BY <1>5 DEF acceptJob, submitWork, assignPayee, raiseDispute, withdrawTo
<1>6. QED
  BY <1>2, <1>3, <1>4, <1>5 DEF Transact, setBlocked, strayTransfer

(* The clock moves alone, and one instant at a time. *)
LEMMA ClockMoves ==
    ASSUME [Next]_vars
    PROVE  now' = now \/ (now' = now + 1 /\ UNCHANGED jobs)
BY OnlyTickTurns DEF Next, Tick, vars

LEMMA TimePasses == ASSUME TypeOK, [Next]_vars PROVE now' \in Nat /\ now' >= now
BY ClockMoves DEF TypeOK

(* What a settlement credits, told by the quotes. *)
LEMMA CreditsAreQuoted ==
    ASSUME TypeOK, Accounts, NEW j \in JobIds, jobs[j].requester # NoAddr,
           NEW status \in Settled, NEW refund \in Nat, NEW side \in [payee : Nat, worker : Nat],
           NEW burn, Route(j, status, refund, side, burn), settle(j, status, refund, side, burn)
    PROVE  LET rel == releaseSplit(j)  exp == expirySplit(j)
           IN  /\ jobs[j].status = "Submitted" /\ status = "Expired" =>
                      credits'[j] = Legs(j, exp.toRequester, exp.toPayee, exp.toWorker)
               /\ \/ jobs[j].status = "Submitted" /\ status = "Completed"
                  \/ jobs[j].status = "Disputed" /\ status \in {"Completed", "Expired"}
                  => credits'[j] = Legs(j, 0, rel.toPayee, rel.toWorker)
<1> DEFINE job == jobs[j]
           forfeit == forfeitOn(job.bounty)
           rel == releaseSplit(j)
           exp == expirySplit(j)
<1>1. /\ job \in Job /\ job.bounty \in Nat /\ job.payeeAmount \in Nat
      /\ job.payee # NoAddr => job.payeeAmount <= job.bounty
  BY DEF TypeOK, Job, Accounts, RecordOk
<1>2. forfeit \in Nat /\ Bond(j) \in Nat /\ Bond(j) = bondFor(job.bounty)
  BY <1>1, Rates DEF Bond
<1>3. credits[j] = Nothing
  BY DEF Accounts, PaidOut, Route, Settled
<1>4. credits'[j] = [a \in Addr |-> credits[j][a] + Share(job, refund, side)[a]]
  BY DEF settle, Share, TypeOK
<1>5. Share(job, refund, side) \in [Addr -> Nat]
  BY DEF Share
<1>6. credits'[j] = Share(job, refund, side)
  BY <1>3, <1>4, <1>5 DEF Nothing
<1>7. CASE job.status = "Submitted" /\ status = "Expired"
  <2>1. refund = exp.toRequester /\ side.payee = exp.toPayee /\ side.worker = exp.toWorker + Bond(j)
    BY <1>2, <1>7 DEF Route, expirySplit, workerSide
  <2> HIDE DEF exp
  <2>2. credits'[j] = Legs(j, exp.toRequester, exp.toPayee, exp.toWorker)
    BY <1>6, <2>1 DEF Share, Legs
  <2>3. QED
    BY <1>7, <2>2 DEF exp
<1>8. CASE \/ job.status = "Submitted" /\ status = "Completed"
           \/ job.status = "Disputed" /\ status \in {"Completed", "Expired"}
  <2>1. refund = 0 /\ side = workerSide(job, job.bounty)
    BY <1>8 DEF Route
  <2>2. rel.toPayee = toPayee(job, job.bounty) /\ rel.toWorker = job.bounty - toPayee(job, job.bounty)
    BY <1>1, <1>8 DEF releaseSplit, toPayee, Settled
  <2>3. side.payee = rel.toPayee /\ side.worker = rel.toWorker + Bond(j)
    BY <1>2, <2>1, <2>2 DEF workerSide
  <2> HIDE DEF rel
  <2>4. credits'[j] = Legs(j, 0, rel.toPayee, rel.toWorker)
    BY <1>6, <2>1, <2>3 DEF Share, Legs
  <2>5. QED
    BY <1>8, <2>4 DEF rel
<1>9. QED
  BY <1>7, <1>8

(* The four promises of QuotesAreHonest about job j. *)
Honest(j) ==
    LET rel == releaseSplit(j)  exp == expirySplit(j)
        becomes(s) == Live(j) /\ jobs'[j].status = s
    IN  /\ becomes("Completed") \/ (WasDisputed(j) /\ becomes("Expired")) =>
               credits'[j] = Legs(j, 0, rel.toPayee, rel.toWorker)
        /\ jobs[j].status = "Submitted" /\ becomes("Expired") =>
               credits'[j] = Legs(j, exp.toRequester, exp.toPayee, exp.toWorker)
        /\ jobs[j].status = "Accepted" /\ becomes("Refunded") =>
               rel.toPayee + rel.toWorker = 0
        /\ Live(j) /\ rel.toPayee + rel.toWorker = 0 =>
               LET after == releaseSplit(j)'
               IN  after.toPayee + after.toWorker = 0
                   /\ ~becomes("Completed")

(* An unsettled job that a step does not settle keeps them if its quote was *)
(* not zero already, or if the step leaves the job alone.                   *)
LEMMA UnsettledIsHonest ==
    ASSUME TypeOK, LifeCycle, Accounts, [Next]_vars, NEW j \in JobIds,
           \/ jobs'[j] = jobs[j]
           \/ ~Live(j)
           \/ /\ jobs'[j].status \in {"Open", "Accepted", "Submitted", "Disputed"}
              /\ ~(jobs[j].status = "Accepted" /\ now >= jobs[j].deliveryDeadline)
    PROVE  Honest(j)
<1> DEFINE rel == releaseSplit(j)
<1>1. Live(j) => rel.toPayee + rel.toWorker =
                     IF jobs[j].status = "Accepted" /\ now >= jobs[j].deliveryDeadline
                     THEN 0 ELSE jobs[j].bounty
  BY QuoteSum
<1>2. Live(j) => jobs[j].bounty \in Nat /\ jobs[j].bounty > 0
  BY QuoteSum
<1>3. CASE ~Live(j)
  BY <1>3 DEF Honest
<1>4. CASE Live(j) /\ jobs'[j].status \in {"Open", "Accepted", "Submitted", "Disputed"}
           /\ ~(jobs[j].status = "Accepted" /\ now >= jobs[j].deliveryDeadline)
  <2>1. rel.toPayee + rel.toWorker # 0
    BY <1>1, <1>2, <1>4
  <2>2. jobs'[j].status \notin {"Completed", "Expired", "Refunded"}
    BY <1>4
  <2>3. QED
    BY <2>1, <2>2 DEF Honest
<1>5. CASE Live(j) /\ jobs'[j] = jobs[j] /\ jobs[j].status = "Accepted" /\ now >= jobs[j].deliveryDeadline
  <2>1. now' \in Nat /\ now' >= now /\ now \in Nat /\ jobs[j].deliveryDeadline \in Nat
    BY TimePasses DEF TypeOK, Job
  <2>2. jobs'[j].status = "Accepted" /\ now' >= jobs'[j].deliveryDeadline
    BY <1>5, <2>1
  <2>3. releaseSplit(j)' = [payee |-> NoAddr, toPayee |-> 0, toWorker |-> 0]
    BY <2>2 DEF releaseSplit
  <2>4. QED
    BY <1>5, <2>2, <2>3 DEF Honest
<1>6. CASE Live(j) /\ jobs'[j] = jobs[j]
           /\ ~(jobs[j].status = "Accepted" /\ now >= jobs[j].deliveryDeadline)
  <2>1. jobs[j].status \in {"Open", "Accepted", "Submitted", "Disputed"}
    BY <1>6 DEF Live, TypeOK, Job, Status, Settled
  <2>2. QED
    BY <1>4, <1>6, <2>1
<1>7. QED
  BY <1>3, <1>4, <1>5, <1>6

LEMMA SettlementIsHonest ==
    ASSUME TypeOK, LifeCycle, Accounts, [Next]_vars, NEW j \in JobIds, Settles(j)
    PROVE  Honest(j)
<1>1. PICK status \in Settled, refund \in Nat, side \in [payee : Nat, worker : Nat], burn \in Nat :
          /\ jobs[j].requester # NoAddr
          /\ Route(j, status, refund, side, burn)
          /\ settle(j, status, refund, side, burn)
  BY DEF Settles
<1> DEFINE rel == releaseSplit(j)
           exp == expirySplit(j)
<1>2. jobs'[j].status = status
  <2>1. jobs[j] \in Job /\ jobs' = [jobs EXCEPT ![j].status = status]
    BY <1>1 DEF settle, TypeOK
  <2>2. QED
    BY <2>1 DEF TypeOK, Job
<1>3. /\ jobs[j].status = "Submitted" /\ status = "Expired" =>
             credits'[j] = Legs(j, exp.toRequester, exp.toPayee, exp.toWorker)
      /\ \/ jobs[j].status = "Submitted" /\ status = "Completed"
         \/ jobs[j].status = "Disputed" /\ status \in {"Completed", "Expired"}
         => credits'[j] = Legs(j, 0, rel.toPayee, rel.toWorker)
  BY <1>1, CreditsAreQuoted
<1>4. Live(j) /\ releaseSplit(j)' = [payee |-> NoAddr, toPayee |-> 0, toWorker |-> 0]
  BY <1>1, <1>2 DEF Route, Live, Settled, releaseSplit
<1>5. /\ rel.toPayee + rel.toWorker =
             IF jobs[j].status = "Accepted" /\ now >= jobs[j].deliveryDeadline
             THEN 0 ELSE jobs[j].bounty
      /\ jobs[j].bounty \in Nat /\ jobs[j].bounty > 0
  BY <1>4, QuoteSum
<1>6. WasDisputed(j) => jobs[j].status = "Disputed"
  <2>1. jobs[j].disputeDeadline > 0 => jobs[j].status \notin {"Open", "Accepted", "Submitted"}
    BY DEF Accounts, RecordOk
  <2>2. QED
    BY <1>1, <2>1 DEF WasDisputed, Route
<1> HIDE DEF rel, exp
<1>7. status = "Completed" => rel.toPayee + rel.toWorker # 0
  BY <1>1, <1>5 DEF Route
<1>8. jobs[j].status = "Accepted" => rel.toPayee + rel.toWorker = 0
  BY <1>1, <1>5 DEF Route
<1>9. status = "Completed" => jobs[j].status \in {"Submitted", "Disputed"}
  BY <1>1 DEF Route
<1>10. QED
  BY <1>2, <1>3, <1>4, <1>6, <1>7, <1>8, <1>9 DEF Honest, rel, exp

LEMMA StepHonest ==
    ASSUME TypeOK, LifeCycle, Accounts, [Next]_vars, NEW j \in JobIds
    PROVE  Honest(j)
<1>1. ASSUME NEW m \in Addr, NEW b \in Bounties, NEW s \in Scores, NEW w \in Windows,
             postJob(m, b, s, w)
      PROVE  Honest(j)
  <2>1. PICK p \in JobIds : ~Live(p) /\ \A i \in JobIds \ {p} : jobs'[i] = jobs[i]
    BY <1>1, PostTotals
  <2>2. jobs'[j] = jobs[j] \/ ~Live(j)
    BY <2>1
  <2>3. QED
    BY <2>2, UnsettledIsHonest
<1>2. ASSUME NEW k \in JobIds, NEW rec, jobs' = [jobs EXCEPT ![k] = rec],
             rec.status \in {"Open", "Accepted", "Submitted", "Disputed"},
             ~(jobs[k].status = "Accepted" /\ now >= jobs[k].deliveryDeadline)
      PROVE  Honest(j)
  <2>1. \/ jobs'[j] = jobs[j]
        \/ /\ jobs'[j].status \in {"Open", "Accepted", "Submitted", "Disputed"}
           /\ ~(jobs[j].status = "Accepted" /\ now >= jobs[j].deliveryDeadline)
    BY <1>2 DEF TypeOK
  <2>2. QED
    BY <2>1, UnsettledIsHonest
<1>3. ASSUME NEW m \in Addr, NEW k \in JobIds, NEW answer, acceptJob(m, k, answer)
      PROVE  Honest(j)
  <2> DEFINE rec == [jobs[k] EXCEPT !.worker = m, !.status = "Accepted",
                                    !.deliveryDeadline = now + jobs[k].deliveryWindow]
  <2>1. jobs' = [jobs EXCEPT ![k] = rec] /\ jobs[k] \in Job
    BY <1>3 DEF acceptJob, TypeOK
  <2>2. rec.status = "Accepted" /\ jobs[k].status = "Open"
    BY <1>3, <2>1 DEF Job, acceptJob
  <2> HIDE DEF rec
  <2>3. QED
    BY <1>2, <2>1, <2>2
<1>4. ASSUME NEW m \in Addr, NEW k \in JobIds, submitWork(m, k)
      PROVE  Honest(j)
  <2> DEFINE rec == [jobs[k] EXCEPT !.status = "Submitted", !.reviewDeadline = now + REVIEW_WINDOW]
  <2>1. jobs' = [jobs EXCEPT ![k] = rec] /\ jobs[k] \in Job
    BY <1>4 DEF submitWork, TypeOK
  <2>2. rec.status = "Submitted"
    BY <2>1 DEF Job
  <2>3. ~(now >= jobs[k].deliveryDeadline)
    BY <1>4, <2>1 DEF submitWork, TypeOK, Job
  <2> HIDE DEF rec
  <2>4. QED
    BY <1>2, <2>1, <2>2, <2>3
<1>5. ASSUME NEW m \in Addr, NEW k \in JobIds, NEW payee, NEW amount, assignPayee(m, k, payee, amount)
      PROVE  Honest(j)
  <2> DEFINE rec == [jobs[k] EXCEPT !.payee = payee, !.payeeAmount = amount]
  <2>1. jobs' = [jobs EXCEPT ![k] = rec] /\ jobs[k] \in Job
    BY <1>5 DEF assignPayee, TypeOK
  <2>2. rec.status = "Accepted"
    BY <1>5, <2>1 DEF Job, assignPayee
  <2>3. ~(now >= jobs[k].deliveryDeadline)
    BY <1>5, <2>1 DEF assignPayee, TypeOK, Job
  <2> HIDE DEF rec
  <2>4. QED
    BY <1>2, <2>1, <2>2, <2>3
<1>6. ASSUME NEW m \in Addr, NEW k \in JobIds, raiseDispute(m, k)
      PROVE  Honest(j)
  <2> DEFINE rec == [jobs[k] EXCEPT !.status = "Disputed", !.disputeDeadline = now + DISPUTE_WINDOW]
  <2>1. jobs' = [jobs EXCEPT ![k] = rec] /\ jobs[k] \in Job
    BY <1>6 DEF raiseDispute, TypeOK
  <2>2. rec.status = "Disputed" /\ jobs[k].status = "Submitted"
    BY <1>6, <2>1 DEF Job, raiseDispute
  <2> HIDE DEF rec
  <2>3. QED
    BY <1>2, <2>1, <2>2
<1>7. ASSUME NEW k \in JobIds, Settles(k)
      PROVE  Honest(j)
  <2>1. CASE k = j
    BY <1>7, <2>1, SettlementIsHonest
  <2>2. CASE k # j
    <3>1. jobs'[j] = jobs[j]
      BY <1>7, <2>2, SettleTotals
    <3>2. QED
      BY <3>1, UnsettledIsHonest
  <2>3. QED
    BY <2>1, <2>2
<1>8. ASSUME UNCHANGED jobs
      PROVE  Honest(j)
  BY <1>8, UnsettledIsHonest
<1>9. QED
  BY <1>1, <1>3, <1>4, <1>5, <1>6, <1>7, <1>8, StepKinds DEF withdrawTo, strayTransfer

(* What the views quote is what a settlement pays: a release what           *)
(* releaseSplit says, a silence what expirySplit says, and a quote of zero  *)
(* means that the worker side can no longer be paid.                        *)
THEOREM HonestQuotes == Spec => QuotesAreHonest
<1>1. TypeOK /\ LifeCycle /\ Accounts /\ [Next]_vars => [\A j \in JobIds : Honest(j)]_vars
  BY StepHonest
<1>2. QED
  BY <1>1, LifeCycleHolds, AccountsHold, TypeCorrect, PTL DEF Spec, QuotesAreHonest, Honest

-----------------------------------------------------------------------------
(* The bound a redeployment waits for.  Each clock of a job is started      *)
(* before the one of its previous state ran out, by the guards of the calls *)
(* except for raiseDispute, which has none: there it is the keepers.        *)

Young(job, t) ==
    job.requester # NoAddr /\ job.status \notin Settled =>
        LET born == job.openDeadline
            startsBy(due, bound) == t <= due /\ due < bound
        IN  /\ job.deliveryWindow <= MAX_DELIVERY_WINDOW
            /\ job.status = "Open" => t <= born
            /\ job.status = "Accepted" =>
                   startsBy(job.deliveryDeadline, born + MAX_DELIVERY_WINDOW)
            /\ job.status = "Submitted" =>
                   startsBy(job.reviewDeadline, born + MAX_DELIVERY_WINDOW + REVIEW_WINDOW)
            /\ job.status = "Disputed" => startsBy(job.disputeDeadline, born + FullLife)

AllYoung == \A j \in JobIds : Young(jobs[j], now)

(* A call that touches one job leaves every job young if it does that one. *)
LEMMA OneJobYoung ==
    ASSUME TypeOK, AllYoung, now' = now, NEW j \in JobIds, NEW rec,
           jobs' = [jobs EXCEPT ![j] = rec], Young(rec, now)
    PROVE  AllYoung'
<1>1. jobs'[j] = rec /\ \A i \in JobIds \ {j} : jobs'[i] = jobs[i]
  BY DEF TypeOK
<1> SUFFICES ASSUME NEW i \in JobIds PROVE Young(jobs'[i], now)
  BY DEF AllYoung
<1>2. CASE i = j
  BY <1>1, <1>2
<1>3. CASE i # j
  BY <1>1, <1>3 DEF AllYoung
<1>4. QED
  BY <1>2, <1>3

LEMMA StepYoung ==
    ASSUME TypeOK, LifeCycle, AllYoung, [Next]_vars, [Overdue => UNCHANGED now]_vars
    PROVE  AllYoung'
<1>0. ASSUME NEW j \in JobIds
      PROVE  /\ jobs[j] \in Job /\ Young(jobs[j], now)
             /\ jobs[j].openDeadline \in Nat /\ jobs[j].deliveryDeadline \in Nat
             /\ jobs[j].reviewDeadline \in Nat /\ jobs[j].disputeDeadline \in Nat
             /\ jobs[j].deliveryWindow \in Nat
  <2>1. jobs[j] \in Job
    BY <1>0 DEF TypeOK
  <2>2. QED
    BY <1>0, <2>1 DEF AllYoung, Job
<1>1. /\ now \in Nat /\ MAX_OPEN_WINDOW \in Nat /\ MAX_DELIVERY_WINDOW \in Nat
      /\ REVIEW_WINDOW \in Nat /\ DISPUTE_WINDOW \in Nat
      /\ FullLife = MAX_DELIVERY_WINDOW + REVIEW_WINDOW + DISPUTE_WINDOW
  BY ConfigAssumption DEF ConfigOk, TypeOK, FullLife
<1>2. ASSUME UNCHANGED <<jobs, now>>
      PROVE  AllYoung'
  BY <1>2 DEF AllYoung
<1>3. ASSUME now' = now + 1, UNCHANGED jobs
      PROVE  AllYoung'
  <2>1. ~Overdue
    BY <1>1, <1>3 DEF vars
  <2> SUFFICES ASSUME NEW j \in JobIds, Live(j) PROVE Young(jobs[j], now + 1)
    BY <1>3 DEF AllYoung, Young, Live
  <2>2. now < Deadline(j) /\ Deadline(j) \in Nat
    BY <1>0, <1>1, <2>1 DEF Overdue, Deadline
  <2>3. QED
    BY <1>0, <1>1, <2>2 DEF Young, Live, Deadline
<1>4. ASSUME NEW m \in Addr, NEW b \in Bounties, NEW s \in Scores, NEW w \in Windows,
             postJob(m, b, s, w)
      PROVE  AllYoung'
  <2> DEFINE rec == newJob(m, b, s, w)
  <2>1. jobCount + 1 \in JobIds /\ jobs' = [jobs EXCEPT ![jobCount + 1] = rec] /\ now' = now
    BY <1>4, InputAssumption DEF postJob, TypeOK, JobIds
  <2>2. Young(rec, now)
    BY <1>1, <1>4 DEF postJob, newJob, Young, Settled
  <2> HIDE DEF rec
  <2>3. QED
    BY <2>1, <2>2, OneJobYoung
<1>5. ASSUME NEW m \in Addr, NEW j \in JobIds, NEW answer, acceptJob(m, j, answer)
      PROVE  AllYoung'
  <2> DEFINE due == now + jobs[j].deliveryWindow
             rec == [jobs[j] EXCEPT !.worker = m, !.status = "Accepted", !.deliveryDeadline = due]
  <2>1. jobs' = [jobs EXCEPT ![j] = rec] /\ now' = now
    BY <1>5 DEF acceptJob, TypeOK
  <2>2. /\ rec.status = "Accepted" /\ rec.deliveryDeadline = due
        /\ rec.openDeadline = jobs[j].openDeadline
        /\ rec.deliveryWindow = jobs[j].deliveryWindow
    <3> HIDE DEF due
    <3>1. QED
      BY <1>0 DEF Job
  <2>3. /\ jobs[j].deliveryWindow <= MAX_DELIVERY_WINDOW
        /\ now < jobs[j].openDeadline
    BY <1>0, <1>5 DEF acceptJob, Young, Settled
  <2>4. now <= due /\ due < jobs[j].openDeadline + MAX_DELIVERY_WINDOW
    BY <1>0, <1>1, <2>3
  <2> HIDE DEF rec, due
  <2>5. Young(rec, now)
    BY <2>2, <2>3, <2>4 DEF Young
  <2>6. QED
    BY <2>1, <2>5, OneJobYoung
<1>6. ASSUME NEW m \in Addr, NEW j \in JobIds, submitWork(m, j)
      PROVE  AllYoung'
  <2> DEFINE due == now + REVIEW_WINDOW
             rec == [jobs[j] EXCEPT !.status = "Submitted", !.reviewDeadline = due]
  <2>1. jobs' = [jobs EXCEPT ![j] = rec] /\ now' = now
    BY <1>6 DEF submitWork, book, TypeOK
  <2>2. /\ rec.status = "Submitted" /\ rec.reviewDeadline = due
        /\ rec.openDeadline = jobs[j].openDeadline
        /\ rec.deliveryWindow = jobs[j].deliveryWindow
    <3> HIDE DEF due
    <3>1. QED
      BY <1>0 DEF Job
  <2>3. jobs[j].requester # NoAddr
    BY <1>6 DEF submitWork, LifeCycle, NoPhantomJobs, NoJob
  <2>4. /\ jobs[j].deliveryWindow <= MAX_DELIVERY_WINDOW
        /\ now < jobs[j].deliveryDeadline
        /\ jobs[j].deliveryDeadline < jobs[j].openDeadline + MAX_DELIVERY_WINDOW
    BY <1>0, <1>6, <2>3 DEF submitWork, Young, Settled
  <2>5. now <= due /\ due < jobs[j].openDeadline + MAX_DELIVERY_WINDOW + REVIEW_WINDOW
    BY <1>0, <1>1, <2>4
  <2> HIDE DEF rec, due
  <2>6. Young(rec, now)
    BY <2>2, <2>4, <2>5 DEF Young
  <2>7. QED
    BY <2>1, <2>6, OneJobYoung
<1>7. ASSUME NEW m \in Addr, NEW j \in JobIds, raiseDispute(m, j)
      PROVE  AllYoung'
  <2> DEFINE due == now + DISPUTE_WINDOW
             rec == [jobs[j] EXCEPT !.status = "Disputed", !.disputeDeadline = due]
  <2>1. jobs' = [jobs EXCEPT ![j] = rec] /\ now' = now
    BY <1>7 DEF raiseDispute, book, TypeOK
  <2>2. /\ rec.status = "Disputed" /\ rec.disputeDeadline = due
        /\ rec.openDeadline = jobs[j].openDeadline
        /\ rec.deliveryWindow = jobs[j].deliveryWindow
    <3> HIDE DEF due
    <3>1. QED
      BY <1>0 DEF Job
  <2>3. jobs[j].requester # NoAddr
    BY <1>7 DEF raiseDispute, LifeCycle, NoPhantomJobs, NoJob
  <2>4. /\ jobs[j].deliveryWindow <= MAX_DELIVERY_WINDOW
        /\ now <= jobs[j].reviewDeadline
        /\ jobs[j].reviewDeadline < jobs[j].openDeadline + MAX_DELIVERY_WINDOW + REVIEW_WINDOW
    BY <1>0, <1>7, <2>3 DEF raiseDispute, Young, Settled
  <2>5. now <= due /\ due < jobs[j].openDeadline + FullLife
    BY <1>0, <1>1, <2>4
  <2> HIDE DEF rec, due
  <2>6. Young(rec, now)
    BY <2>2, <2>4, <2>5 DEF Young
  <2>7. QED
    BY <2>1, <2>6, OneJobYoung
<1>8. ASSUME NEW m \in Addr, NEW j \in JobIds, NEW payee, NEW amount,
             assignPayee(m, j, payee, amount)
      PROVE  AllYoung'
  <2> DEFINE rec == [jobs[j] EXCEPT !.payee = payee, !.payeeAmount = amount]
  <2>1. jobs' = [jobs EXCEPT ![j] = rec] /\ now' = now
    BY <1>8 DEF assignPayee, book, TypeOK
  <2>2. /\ rec.status = jobs[j].status /\ rec.requester = jobs[j].requester
        /\ rec.openDeadline = jobs[j].openDeadline
        /\ rec.deliveryWindow = jobs[j].deliveryWindow
        /\ rec.deliveryDeadline = jobs[j].deliveryDeadline
        /\ rec.reviewDeadline = jobs[j].reviewDeadline
        /\ rec.disputeDeadline = jobs[j].disputeDeadline
    BY <1>0 DEF Job
  <2> HIDE DEF rec
  <2>3. Young(rec, now)
    BY <1>0, <2>2 DEF Young
  <2>4. QED
    BY <2>1, <2>3, OneJobYoung
<1>9. ASSUME NEW j \in JobIds, Settles(j)
      PROVE  AllYoung'
  <2>1. PICK status \in Settled : /\ jobs' = [jobs EXCEPT ![j].status = status]
                                  /\ now' = now
    BY <1>9 DEF Settles, settle
  <2> DEFINE rec == [jobs[j] EXCEPT !.status = status]
  <2>2. jobs' = [jobs EXCEPT ![j] = rec]
    BY <2>1 DEF TypeOK
  <2>3. rec.status = status
    BY <1>0 DEF Job
  <2> HIDE DEF rec
  <2>4. Young(rec, now)
    BY <2>3 DEF Young
  <2>5. QED
    BY <2>1, <2>2, <2>4, OneJobYoung
<1>10. ASSUME UNCHANGED jobs
       PROVE  AllYoung'
  BY <1>2, <1>3, <1>10, ClockMoves
<1>11. QED
  BY <1>4, <1>5, <1>6, <1>7, <1>8, <1>9, <1>10, StepKinds DEF withdrawTo, strayTransfer

LEMMA YoungAtFirst == Init => AllYoung
BY DEF Init, AllYoung, Young, NoJob

LEMMA YoungIsInTime == TypeOK /\ AllYoung => NoneOutlivesIt
<1> SUFFICES ASSUME TypeOK, AllYoung, NEW j \in JobIds, Live(j)
             PROVE  ~PastItsLife(j)
  BY DEF NoneOutlivesIt
<1>1. /\ jobs[j].openDeadline \in Nat /\ jobs[j].deliveryDeadline \in Nat
      /\ jobs[j].reviewDeadline \in Nat /\ jobs[j].disputeDeadline \in Nat
      /\ jobs[j].status \in {"Open", "Accepted", "Submitted", "Disputed"}
  BY DEF TypeOK, Job, Live, Status, Settled
<1>2. /\ now \in Nat /\ MAX_DELIVERY_WINDOW \in Nat
      /\ REVIEW_WINDOW \in Nat \ {0} /\ DISPUTE_WINDOW \in Nat \ {0}
  BY ConfigAssumption DEF TypeOK, ConfigOk
<1>3. now < jobs[j].openDeadline + FullLife
  BY <1>1, <1>2 DEF AllYoung, Young, Live, FullLife
<1>4. QED
  BY <1>1, <1>2, <1>3 DEF PastItsLife, FullLife

(* With keepers that take every exit before the clock moves on, no job      *)
(* outlives the sum of the windows, whatever a griefer does in between: the *)
(* late dispute, which alone can restart a clock, is then never late.       *)
THEOREM PromptKeepersBoundIt == Spec /\ KeepersArePrompt => []NoneOutlivesIt
<1>1. TypeOK /\ LifeCycle /\ AllYoung /\ [Next]_vars /\ [Overdue => UNCHANGED now]_vars
        => AllYoung'
  BY StepYoung
<1>2. QED
  BY <1>1, YoungAtFirst, YoungIsInTime, TypeCorrect, LifeCycleHolds, PTL DEF Spec, KeepersArePrompt

(* The same bound as long as the clock has not yet moved while an exit was  *)
(* open, which `late' remembers (DiesOfOldAge): a keeper that dawdled once  *)
(* is what it takes, and not one that will dawdle later.                    *)
THEOREM LateKeepersAreToBlame == WatchSpec => []DiesOfOldAge
<1>1. WatchSpec => Spec
  <2>1. WatchInit => Init
    BY DEF WatchInit
  <2>2. [Next /\ Watch]_<<vars, late>> => [Next]_vars
    OBVIOUS
  <2>3. QED
    BY <2>1, <2>2, PTL DEF WatchSpec, Spec
<1>2. WatchInit => (~late => AllYoung)
  BY YoungAtFirst DEF WatchInit
<1>3. TypeOK /\ LifeCycle /\ (~late => AllYoung) /\ [Next /\ Watch]_<<vars, late>>
        => (~late => AllYoung)'
  <2> SUFFICES ASSUME TypeOK, LifeCycle, ~late => AllYoung, [Next /\ Watch]_<<vars, late>>, ~late'
               PROVE  AllYoung'
    OBVIOUS
  <2>1. ~late /\ [Overdue => UNCHANGED now]_vars
    <3>1. CASE Next /\ Watch
      BY <3>1, Zenon DEF Watch
    <3>2. CASE UNCHANGED <<vars, late>>
      BY <3>2
    <3>3. QED
      BY <3>1, <3>2
  <2>2. QED
    BY <2>1, StepYoung
<1>4. TypeOK /\ (~late => AllYoung) => DiesOfOldAge
  BY YoungIsInTime DEF DiesOfOldAge
<1>5. QED
  BY <1>1, <1>2, <1>3, <1>4, TypeCorrect, LifeCycleHolds, PTL DEF WatchSpec
-----------------------------------------------------------------------------
(* AdvanceDesk: advances, for any number of requests, lenders, jobs and     *)
(* mishaps.  The desk takes steps of the contract, so what is proved above  *)
(* of a lien, a worker, a deadline and the credits of a job holds here; the *)
(* rest is what each request knows of its job at each of its statements     *)
(* (Inv), and what keeps two requests for one job apart (DeskOk).           *)

PCs == {"idle", "row", "assign", "assigning", "verify", "pay", "paying", "record", "fail", "done"}
Loan == [pc : PCs, job : Nat, borrower : Addr \cup {NoAddr}, lender : Addr \cup {NoAddr},
         advance : Nat, pledge : Nat, since : Nat]

(* What a request that quoted a job knows: whose job it is, that there is   *)
(* time left for as long as it lives, and, once it is to pay, the lien.     *)
Knows(r) ==
    /\ loan[r].job \in JobIds /\ loan[r].lender \in Addr /\ loan[r].borrower \in Addr
    /\ collateral(r).worker = loan[r].borrower
    /\ live(r) => /\ now <= loan[r].since + LIFE
                  /\ loan[r].since + MIN_RUNWAY <= collateral(r).deliveryDeadline
    /\ r \in payments \/ loan[r].pc \in {"pay", "paying"} => pledged(r)

Inv ==
    /\ TypeOK /\ LifeCycle
    /\ loan \in [Requests -> Loan]
    /\ \A r \in Requests : IF At(r, "idle") THEN r \notin pledges \cup payments ELSE Knows(r)

(* The pledge of a quote is an amount.                                      *)
LEMMA QuoteIsNat ==
    ASSUME NEW record \in Records, NEW advance \in Nat
    PROVE  advance + fee(advance, feeRate(orchestrationLtv(record))) \in Nat
<1> DEFINE ltv == orchestrationLtv(record)
           rate == feeRate(ltv)
<1>1. ltv \in 25..90
  <2>1. record \in [attempts : Nat, completed : Nat, largest : Nat]
    BY DeskAssumption
  <2>2. ASSUME NEW x \in Int
        PROVE  within(LTV_MIN, x, LTV_MAX) \in 25..90
    BY DEF within, LTV_MIN, LTV_MAX
  <2>3. CASE record.attempts < 5
    <3>1. 50 + (10 * (2 * record.completed - record.attempts)) \in Int
      BY <2>1
    <3>2. QED
      BY <2>2, <2>3, <3>1 DEF orchestrationLtv, LTV_CONFIDENCE_ATTEMPTS, LTV_COLD_START
  <2>4. CASE ~(record.attempts < 5)
    <3>1. (200 * record.completed + record.attempts) \div (2 * record.attempts) \in Int
      BY <2>1, <2>4
    <3>2. QED
      BY <2>2, <2>4, <3>1 DEF orchestrationLtv, LTV_CONFIDENCE_ATTEMPTS
  <2>5. QED
    BY <2>3, <2>4
<1> HIDE DEF ltv
<1>2. rate \in Nat
  BY <1>1 DEF feeRate, LTV_MIN, LTV_MAX, FEE_RATE_MIN, FEE_RATE_MAX
<1> HIDE DEF rate
<1>3. advance * rate \in Nat
  BY <1>2
<1>4. fee(advance, rate) \in Nat
  BY <1>3 DEF fee
<1>5. QED
  BY <1>4 DEF rate, ltv

(* Every step of the desk is a step of the contract, or none.               *)
LEMMA DeskIsMarket ==
    Inv /\ [DeskNext]_deskVars => [Next]_vars
<1> SUFFICES ASSUME Inv, [DeskNext]_deskVars
             PROVE  [Next]_vars
  OBVIOUS
<1>1. CASE Parties
  BY <1>1 DEF Parties, Next, Transact
<1>2. CASE DeskTick
  BY <1>2 DEF DeskTick, Next
<1>3. ASSUME NEW r \in Requests, AssignMined(r)
      PROVE  [Next]_vars
  <2>1. CASE UNCHANGED vars
    BY <2>1
  <2>2. CASE assignPayee(loan[r].borrower, loan[r].job, loan[r].lender, loan[r].pledge)
    <3>1. ~At(r, "idle")
      BY <1>3 DEF AssignMined, Inv
    <3>2. /\ loan[r].job \in JobIds /\ loan[r].lender \in Addr /\ loan[r].borrower \in Addr
          /\ loan[r].pledge \in Nat
      BY <3>1 DEF Inv, Knows, Loan
    <3>3. jobs[loan[r].job].bounty \in Nat
      BY <3>2 DEF Inv, TypeOK, Job
    <3>4. loan[r].pledge \in 0..jobs[loan[r].job].bounty + 1
      BY <2>2, <3>2, <3>3 DEF assignPayee
    <3>5. QED
      BY <2>2, <3>2, <3>4 DEF Next, Transact
  <2>3. QED
    BY <1>3, <2>1, <2>2 DEF AssignMined
<1>4. ASSUME NEW r \in Requests, Step(r), ~AssignMined(r)
      PROVE  UNCHANGED vars
  BY <1>4 DEF Step, InsertRow, Fail, SendAssign, AssignHeard, AssignUnheard, Verify, SendPay,
              PayMined, PayHeard, PayUnheard, Record, Die
<1>5. QED
  BY <1>1, <1>2, <1>3, <1>4 DEF DeskNext, Quote, SpendElsewhere, deskVars

(* What a request knows of its job, the contract does not take back.        *)
LEMMA JobKept ==
    ASSUME Inv, NEW r \in Requests, ~At(r, "idle"), \A j \in JobIds : TermsKept(j),
           loan'[r].job = loan[r].job, loan'[r].borrower = loan[r].borrower,
           loan'[r].lender = loan[r].lender, loan'[r].pledge = loan[r].pledge
    PROVE  /\ collateral(r)'.worker = loan'[r].borrower
           /\ collateral(r)'.deliveryDeadline = collateral(r).deliveryDeadline
           /\ pledged(r) => pledged(r)'
<1>1. Knows(r) /\ TermsKept(loan[r].job)
  BY DEF Inv, Knows
<1>2. NoAddr \notin Addr
  BY ConfigAssumption DEF ConfigOk
<1>3. QED
  BY <1>1, <1>2 DEF Knows, TermsKept, collateral, pledged

(* So a request that stands still keeps what it knows, while the clock does *)
(* not run past its life.                                                   *)
LEMMA StandsStill ==
    ASSUME Inv, NEW r \in Requests, \A j \in JobIds : TermsKept(j),
           loan'[r] = loan[r], now' = now \/ (live(r) => now' <= loan[r].since + LIFE),
           r \in payments' => r \in payments, r \in pledges' => r \in pledges
    PROVE  IF At(r, "idle")' THEN r \notin (pledges \cup payments)' ELSE Knows(r)'
<1>1. CASE At(r, "idle")
  BY <1>1 DEF Inv, At
<1>2. CASE ~At(r, "idle")
  <2>1. Knows(r) /\ ~At(r, "idle")'
    BY <1>2 DEF Inv, At
  <2>2. /\ collateral(r)'.worker = loan'[r].borrower
        /\ collateral(r)'.deliveryDeadline = collateral(r).deliveryDeadline
        /\ pledged(r) => pledged(r)'
    BY <1>2, JobKept
  <2>3. QED
    BY <2>1, <2>2 DEF Knows, live
<1>3. QED
  BY <1>1, <1>2

(* One statement of a request: it moves on, and pays only on a lien.        *)
LEMMA OneMoves ==
    ASSUME Inv, NEW r \in Requests, NEW pc \in PCs, ~At(r, "idle"), pc # "idle",
           \A j \in JobIds : TermsKept(j),
           \/ loan' = [loan EXCEPT ![r].pc = pc] /\ live(r)
           \/ loan' = [loan EXCEPT ![r].pc = pc, ![r].since = 0] /\ pc = "done",
           now' = now,
           \A q \in Requests \ {r} : /\ q \in payments' => q \in payments
                                     /\ q \in pledges' => q \in pledges,
           r \in payments' \/ pc \in {"pay", "paying"} => pledged(r)
    PROVE  /\ loan' \in [Requests -> Loan]
           /\ \A q \in Requests : IF At(q, "idle")' THEN q \notin (pledges \cup payments)'
                                  ELSE Knows(q)'
<1>1. /\ loan'[r].pc = pc /\ loan'[r].job = loan[r].job /\ loan'[r].borrower = loan[r].borrower
      /\ loan'[r].lender = loan[r].lender /\ loan'[r].pledge = loan[r].pledge
      /\ loan'[r].since = loan[r].since \/ pc = "done"
      /\ \A q \in Requests \ {r} : loan'[q] = loan[q]
      /\ loan' \in [Requests -> Loan]
  <2>1. loan \in [Requests -> Loan]
    BY DEF Inv
  <2>2. QED
    BY <2>1 DEF Loan
<1>2. Knows(r)
  BY DEF Inv
<1>3. /\ collateral(r)'.worker = loan'[r].borrower
      /\ collateral(r)'.deliveryDeadline = collateral(r).deliveryDeadline
      /\ pledged(r) => pledged(r)'
  BY <1>1, JobKept
<1>4. ~At(r, "idle")' /\ Knows(r)'
  <2>1. live(r)' => live(r) /\ loan'[r].since = loan[r].since
    BY <1>1 DEF live
  <2>2. QED
    BY <1>1, <1>2, <1>3, <2>1 DEF Knows, At
<1>5. ASSUME NEW q \in Requests, q # r
      PROVE  IF At(q, "idle")' THEN q \notin (pledges \cup payments)' ELSE Knows(q)'
  BY <1>1, <1>5, StandsStill
<1>6. QED
  BY <1>1, <1>4, <1>5

LEMMA StepKnows ==
    ASSUME Inv, [DeskNext]_deskVars, \A j \in JobIds : TermsKept(j)
    PROVE  /\ loan' \in [Requests -> Loan]
           /\ \A q \in Requests : IF At(q, "idle")' THEN q \notin (pledges \cup payments)'
                                  ELSE Knows(q)'
<1> DEFINE Goal == /\ loan' \in [Requests -> Loan]
                   /\ \A q \in Requests : IF At(q, "idle")' THEN q \notin (pledges \cup payments)'
                                          ELSE Knows(q)'
<1>1. ASSUME UNCHANGED <<loan, pledges, payments>>,
             now' = now \/ \A r \in Requests : live(r) => now' <= loan[r].since + LIFE
      PROVE  Goal
  BY <1>1, StandsStill DEF Inv
<1>2. CASE Parties
  <2>1. now' = now
    <3>1. ASSUME NEW j, NEW status, NEW refund, NEW side, NEW burn,
                 settle(j, status, refund, side, burn)
          PROVE  now' = now
      BY <3>1 DEF settle
    <3>2. ASSUME NEW j \in JobIds, exit(j)
          PROVE  now' = now
      BY <3>1, <3>2 DEF exit, reclaimJob, expireOpen, expireReview, expireDispute, release
    <3>3. ASSUME NEW j \in JobIds, NEW m \in Addr, NEW verdict \in BOOLEAN,
                 approveJob(m, j) \/ cancelJob(m, j) \/ resolveDispute(m, j, verdict)
          PROVE  now' = now
      BY <3>1, <3>3 DEF approveJob, cancelJob, resolveDispute, release
    <3>4. ASSUME NEW m, NEW b, NEW s, NEW w, postJob(m, b, s, w)
          PROVE  now' = now
      BY <3>4 DEF postJob
    <3>5. ASSUME NEW j, NEW m, NEW answer,
                 acceptJob(m, j, answer) \/ submitWork(m, j) \/ raiseDispute(m, j)
          PROVE  now' = now
      BY <3>5 DEF acceptJob, submitWork, raiseDispute
    <3>6. QED
      BY <1>2, <3>2, <3>3, <3>4, <3>5 DEF Parties
  <2>2. QED
    BY <1>1, <1>2, <2>1 DEF Parties, desk
<1>3. CASE DeskTick
  <2>1. now' = now + 1 /\ \A r \in Requests : live(r) => now < loan[r].since + LIFE
    BY <1>3 DEF DeskTick, Tick
  <2>2. now \in Nat /\ LIFE \in Nat /\ \A r \in Requests : loan[r].since \in Nat
    BY DeskAssumption DEF Inv, TypeOK, Loan
  <2>3. \A r \in Requests : live(r) => now' <= loan[r].since + LIFE
    BY <2>1, <2>2
  <2>4. QED
    BY <1>1, <1>3, <2>3 DEF DeskTick, desk
<1>4. ASSUME NEW l \in Lenders, SpendElsewhere(l)
      PROVE  Goal
  BY <1>1, <1>4 DEF SpendElsewhere, vars
<1>5. ASSUME NEW r \in Requests, NEW j \in JobIds, NEW m \in Addr, NEW l \in Lenders,
             NEW record \in Records, NEW asked \in Asked, Quote(r, j, m, l, record, asked)
      PROVE  Goal
  <2> DEFINE adv == quoteAdvance(jobs[j].bounty, record, asked)
             amount == adv + fee(adv, feeRate(orchestrationLtv(record)))
             new == [pc |-> "row", job |-> j, borrower |-> m, lender |-> l, since |-> now,
                     advance |-> adv, pledge |-> amount]
  <2>1. /\ loan' = [loan EXCEPT ![r] = new]
        /\ adv \in MIN_ADVANCE..jobs[j].bounty
        /\ At(r, "idle") /\ jobs[j].worker = m /\ runway(j)
        /\ UNCHANGED <<vars, pledges, payments>>
    BY <1>5 DEF Quote
  <2> HIDE DEF adv
  <2>2. adv \in Nat
    BY <2>1 DEF MIN_ADVANCE
  <2>3. amount \in Nat
    BY <2>2, QuoteIsNat
  <2> HIDE DEF amount
  <2>4. new \in Loan
    <3>1. now \in Nat /\ j \in Nat /\ l \in Addr
      BY DeskAssumption DEF Inv, TypeOK, JobIds
    <3>2. QED
      BY <2>2, <2>3, <3>1 DEF Loan, PCs
  <2>5. loan \in [Requests -> Loan]
    BY DEF Inv
  <2>6. loan' \in [Requests -> Loan] /\ loan'[r] = new /\ \A q \in Requests \ {r} : loan'[q] = loan[q]
    BY <2>1, <2>4, <2>5
  <2>7. ~At(r, "idle")' /\ Knows(r)'
    <3>1. /\ loan'[r].pc = "row" /\ loan'[r].job = j /\ loan'[r].borrower = m
          /\ loan'[r].lender = l /\ loan'[r].since = now
      BY <2>6
    <3>2. collateral(r)' = jobs[j] /\ now' = now
      BY <2>1, <3>1 DEF collateral, vars
    <3>3. r \notin payments'
      BY <2>1 DEF Inv
    <3>4. now <= now + LIFE
      BY DeskAssumption DEF Inv, TypeOK
    <3>5. QED
      BY <2>1, <3>1, <3>2, <3>3, <3>4, DeskAssumption DEF Knows, At, live, runway
  <2>8. ASSUME NEW q \in Requests, q # r
        PROVE  IF At(q, "idle")' THEN q \notin (pledges \cup payments)' ELSE Knows(q)'
    BY <2>1, <2>6, <2>8, StandsStill DEF vars
  <2>9. QED
    BY <2>6, <2>7, <2>8
<1>6. ASSUME NEW r \in Requests, Step(r)
      PROVE  Goal
  <2>1. CASE AssignMined(r)
    <3>1. now' = now
      BY <2>1 DEF AssignMined, assignPayee, vars
    <3>2. loan' = loan /\ payments' = payments /\ pledges' \subseteq pledges
      BY <2>1 DEF AssignMined
    <3>3. QED
      BY <3>1, <3>2, StandsStill DEF Inv
  <2>2. CASE PayMined(r)
    <3>1. now' = now /\ loan' = loan /\ pledges' = pledges /\ payments' \subseteq payments
      BY <2>2 DEF PayMined, vars
    <3>2. QED
      BY <3>1, StandsStill DEF Inv
  <2>3. CASE Verify(r)
    <3> DEFINE pc == IF verifyLien(r) THEN "pay" ELSE "fail"
    <3>1. loan' = [loan EXCEPT ![r].pc = pc] /\ UNCHANGED <<vars, pledges, payments>>
      BY <2>3 DEF Verify, Goto
    <3>2. pc \in PCs /\ pc # "idle" /\ ~At(r, "idle") /\ live(r)
      BY <2>3 DEF Verify, At, live, PCs
    <3>3. Knows(r) /\ NoAddr \notin Addr
      BY <3>2, ConfigAssumption DEF Inv, ConfigOk
    <3>4. verifyLien(r) => pledged(r)
      BY <3>3 DEF Knows, verifyLien, releaseSplit, pledged, collateral
    <3>5. r \in payments' \/ pc \in {"pay", "paying"} => pledged(r)
      BY <3>1, <3>3, <3>4 DEF Knows
    <3>6. now' = now
      BY <3>1 DEF vars
    <3> HIDE DEF pc
    <3>7. QED
      BY <3>1, <3>2, <3>5, <3>6, OneMoves
  <2>4. CASE SendPay(r)
    <3>1. ~At(r, "idle") /\ live(r) /\ pledged(r) /\ now' = now /\ pledges' = pledges
          /\ payments' \subseteq payments \cup {r}
      BY <2>4 DEF SendPay, At, live, Inv, Knows, vars
    <3>2. loan' = [loan EXCEPT ![r].pc = "paying"] \/ loan' = [loan EXCEPT ![r].pc = "fail"]
      BY <2>4 DEF SendPay, Goto
    <3>3. {"paying", "fail"} \subseteq PCs
      BY DEF PCs
    <3>4. QED
      BY <3>1, <3>2, <3>3, OneMoves
  <2>5. CASE InsertRow(r) \/ SendAssign(r) \/ AssignHeard(r) \/ AssignUnheard(r)
    <3>1. /\ ~At(r, "idle") /\ live(r) /\ now' = now /\ payments' = payments
          /\ pledges' \subseteq pledges \cup {r}
      BY <2>5 DEF InsertRow, SendAssign, AssignHeard, AssignUnheard, At, live, vars
    <3>2. r \in payments => pledged(r)
      BY <3>1 DEF Inv, Knows
    <3>3. PICK pc \in {"assign", "fail", "assigning", "verify", "done"} :
             \/ loan' = [loan EXCEPT ![r].pc = pc]
             \/ loan' = [loan EXCEPT ![r].pc = pc, ![r].since = 0] /\ pc = "done"
      BY <2>5 DEF InsertRow, SendAssign, AssignHeard, AssignUnheard, Goto, End
    <3>4. pc \in PCs /\ pc # "idle" /\ pc \notin {"pay", "paying"}
      BY <3>3 DEF PCs
    <3>5. QED
      BY <3>1, <3>2, <3>3, <3>4, OneMoves
  <2>6. CASE Fail(r) \/ PayHeard(r) \/ PayUnheard(r) \/ Record(r) \/ Die(r)
    <3>1. /\ ~At(r, "idle") /\ live(r) /\ now' = now /\ payments' = payments
          /\ pledges' = pledges
      BY <2>6 DEF Fail, PayHeard, PayUnheard, Record, Die, At, live, vars
    <3>2. r \in payments => pledged(r)
      BY <3>1 DEF Inv, Knows
    <3>3. PICK pc \in {"fail", "record", "done"} :
             \/ loan' = [loan EXCEPT ![r].pc = pc]
             \/ loan' = [loan EXCEPT ![r].pc = pc, ![r].since = 0] /\ pc = "done"
      BY <2>6 DEF Fail, PayHeard, PayUnheard, Record, Die, Goto, End
    <3>4. pc \in PCs /\ pc # "idle" /\ pc \notin {"pay", "paying"}
      BY <3>3 DEF PCs
    <3>5. QED
      BY <3>1, <3>2, <3>3, <3>4, OneMoves
  <2>7. QED
    BY <1>6, <2>1, <2>2, <2>3, <2>4, <2>5, <2>6 DEF Step
<1>7. CASE UNCHANGED deskVars
  BY <1>1, <1>7 DEF deskVars, desk, vars
<1>8. QED
  BY <1>2, <1>3, <1>4, <1>5, <1>6, <1>7 DEF DeskNext

LEMMA InvHolds == DeskSpec => []Inv
<1>1. DeskInit => Inv
  <2> SUFFICES ASSUME DeskInit  PROVE  Inv
    OBVIOUS
  <2>1. TypeOK
    BY InputAssumption DEF DeskInit, Init, TypeOK, Nothing, NoJob, Job, Status
  <2>2. LifeCycle
    BY InputAssumption DEF DeskInit, Init, LifeCycle, NoPhantomJobs, NoJob, JobIds
  <2>3. loan \in [Requests -> Loan]
    BY DEF DeskInit, NoLoan, Loan, PCs
  <2>4. \A r \in Requests : At(r, "idle") /\ r \notin pledges \cup payments
    BY DEF DeskInit, NoLoan, At
  <2>5. QED
    BY <2>1, <2>2, <2>3, <2>4 DEF Inv
<1>2. Inv /\ [DeskNext]_deskVars => Inv'
  <2> SUFFICES ASSUME Inv, [DeskNext]_deskVars
               PROVE  Inv'
    OBVIOUS
  <2>1. [Next]_vars
    BY DeskIsMarket
  <2>2. TypeOK' /\ LifeCycle' /\ \A j \in JobIds : TermsKept(j)
    BY <2>1, StepType, StepFinal DEF Inv
  <2>3. QED
    BY <2>2, StepKnows DEF Inv
<1>3. QED
  BY <1>1, <1>2, PTL DEF DeskSpec

(* No lender's money moves without the lien that was agreed, nor, while its *)
(* request is there to see it, on a job that can only be reclaimed.         *)
THEOREM LienComesFirst == DeskSpec => LienBeforeMoney
<1>1. Inv /\ [DeskNext]_deskVars
        => [\A r \in lent' \ lent : pledged(r) /\ (At(r, "paying") => ~reclaimable(r))]_deskVars
  <2> SUFFICES ASSUME Inv, [DeskNext]_deskVars, NEW r \in lent' \ lent
               PROVE  pledged(r) /\ (At(r, "paying") => ~reclaimable(r))
    OBVIOUS
  <2>1. PICK q \in Requests : PayMined(q)
    BY DEF DeskNext, Parties, DeskTick, SpendElsewhere, Quote, Step, InsertRow, Fail, SendAssign,
           AssignMined, AssignHeard, AssignUnheard, Verify, SendPay, PayHeard, PayUnheard, Record,
           Die, desk, deskVars, history
  <2>2. r = q /\ r \in Requests /\ r \in payments
    BY <2>1 DEF PayMined
  <2>3. Knows(r)
    BY <2>2 DEF Inv
  <2>4. At(r, "paying") => now < collateral(r).deliveryDeadline
    <3>1. At(r, "paying") => live(r)
      BY DEF At, live
    <3>2. now \in Nat /\ loan[r].since \in Nat /\ collateral(r).deliveryDeadline \in Nat
      BY <2>2, <2>3 DEF Inv, TypeOK, Loan, Knows, Job, collateral
    <3>3. QED
      BY <2>3, <3>1, <3>2, DeskAssumption DEF Knows
  <2>5. ASSUME At(r, "paying")
        PROVE  ~reclaimable(r)
    <3>1. now \in Nat /\ collateral(r).deliveryDeadline \in Nat
      BY <2>2, <2>3 DEF Inv, TypeOK, Knows, Job, collateral
    <3>2. QED
      BY <2>4, <2>5, <3>1 DEF reclaimable
  <2>6. QED
    BY <2>2, <2>3, <2>5 DEF Knows
<1>2. QED
  BY <1>1, InvHolds, PTL DEF DeskSpec, LienBeforeMoney

-----------------------------------------------------------------------------
(* Every step of the desk is a step of the contract or leaves it alone, so  *)
(* whatever is proved of the contract holds of one that is lent against.    *)
THEOREM DeskRunsTheMarket == DeskSpec => Spec
<1>1. DeskInit => Init
  BY DEF DeskInit
<1>2. QED
  BY <1>1, DeskIsMarket, InvHolds, PTL DEF DeskSpec, Spec

(* One lien, one advance.  The partial unique index keeps two requests for  *)
(* a job from being under way together; a request that gave up on its       *)
(* transfer leaves it behind, with a lien that stops the next one.          *)
Active(r) == loan[r].pc \in {"assign", "assigning", "verify", "pay", "paying", "record", "fail"}
Risky(r) == loan[r].pc \in {"assigning", "verify", "pay", "paying"} \/ r \in payments \cup lent
Spent(r) == loan[r].pc \in {"pay", "paying"} \/ r \in payments \cup lent
RowLives(r) == row[r] \in {"pledging", "open"}

(* The row keeps step with the request, and the money with the lien.        *)
RowFollows(r) ==
    /\ loan[r].pc \in {"idle", "row"} => row[r] = "none"
    /\ Active(r) => row[r] = "pledging"
    /\ r \in pledges \cup payments \cup lent => row[r] # "none"
    /\ r \in payments \cup lent => loan[r].pc \in {"paying", "record", "fail", "done"}
    /\ r \in lent => pledged(r)

(* What became of the transfer.                                             *)
Moved(r) ==
    /\ At(r, "paying") => r \in payments \cup lent \cup hollow
    /\ At(r, "record") \/ row[r] = "open" => r \in lent \cup hollow
    /\ (At(r, "fail") \/ row[r] = "failed") /\ r \in payments \cup lent => r \in unheard

Apart(r, q) ==
    loan[r].job = loan[q].job => ~(RowLives(r) /\ RowLives(q)) /\ (Spent(r) => ~Risky(q))

LiensHaveRows ==
    \A j \in JobIds :
        jobs[j].payee # NoAddr =>
            \E r \in Requests : loan[r].job = j /\ loan[r].lender = jobs[j].payee /\ row[r] # "none"

RequestsOk ==
    /\ row \in [Requests -> {"none", "pledging", "open", "failed"}]
    /\ \A r \in Requests : RowFollows(r) /\ Moved(r)
    /\ \A r, q \in Requests : r # q => Apart(r, q)

DeskOk == lent \subseteq Requests /\ RequestsOk /\ LiensHaveRows

(* A step leaves request q alone.                                           *)
Same(q) ==
    /\ loan'[q] = loan[q] /\ row'[q] = row[q]
    /\ q \in pledges' <=> q \in pledges
    /\ q \in payments' <=> q \in payments
    /\ q \in lent' <=> q \in lent
    /\ q \in hollow' <=> q \in hollow
    /\ q \in unheard' <=> q \in unheard

LEMMA LienStays ==
    ASSUME Inv, RequestsOk, NEW r \in Requests, \A j \in JobIds : TermsKept(j),
           loan'[r].job = loan[r].job, loan'[r].borrower = loan[r].borrower,
           loan'[r].lender = loan[r].lender, loan'[r].pledge = loan[r].pledge,
           r \in payments \cup lent
    PROVE  pledged(r)'
<1>1. ~At(r, "idle")
  BY DEF RequestsOk, RowFollows, At
<1>2. pledged(r)
  BY <1>1 DEF RequestsOk, RowFollows, Inv, Knows
<1>3. QED
  BY <1>1, <1>2, JobKept

LEMMA SameKeeps ==
    ASSUME Inv, RequestsOk, NEW q \in Requests, Same(q), \A j \in JobIds : TermsKept(j)
    PROVE  RowFollows(q)' /\ Moved(q)'
<1>1. RowFollows(q) /\ Moved(q)
  BY DEF RequestsOk
<1>2. q \in lent => pledged(q)'
  BY LienStays DEF Same
<1>3. RowFollows(q)'
  BY <1>1, <1>2 DEF Same, RowFollows, Active
<1>4. Moved(q)'
  BY <1>1 DEF Same, Moved, At
<1>5. QED
  BY <1>3, <1>4

(* Two requests stay apart when neither takes up what it had not.           *)
LEMMA ApartKept ==
    ASSUME RequestsOk, NEW r \in Requests, NEW q \in Requests, r # q,
           loan'[r].job = loan[r].job, loan'[q].job = loan[q].job,
           RowLives(r)' => RowLives(r), RowLives(q)' => RowLives(q),
           Spent(r)' => Spent(r), Risky(q)' => Risky(q)
    PROVE  Apart(r, q)'
<1>1. Apart(r, q)
  BY DEF RequestsOk
<1>2. QED
  BY <1>1 DEF Apart

LEMMA SameLives ==
    ASSUME NEW q, Same(q)
    PROVE  /\ RowLives(q)' <=> RowLives(q)
           /\ Spent(q)' <=> Spent(q)
           /\ Risky(q)' <=> Risky(q)
           /\ loan'[q].job = loan[q].job
BY DEF Same, RowLives, Spent, Risky

(* A step of request r.                                                     *)
LEMMA OneRequest ==
    ASSUME Inv, RequestsOk, \A j \in JobIds : TermsKept(j),
           row' \in [Requests -> {"none", "pledging", "open", "failed"}],
           NEW r \in Requests, \A q \in Requests \ {r} : Same(q),
           RowFollows(r)', Moved(r)',
           \A q \in Requests \ {r} : Apart(r, q)' /\ Apart(q, r)'
    PROVE  RequestsOk'
<1>1. \A q \in Requests : RowFollows(q)' /\ Moved(q)'
  BY SameKeeps
<1>2. ASSUME NEW q \in Requests, NEW p \in Requests, q # p, q # r, p # r
      PROVE  Apart(q, p)'
  BY <1>2, ApartKept, SameLives
<1>3. QED
  BY <1>1, <1>2 DEF RequestsOk

(* ... that takes up nothing new.                                           *)
LEMMA OneRequestGoesOn ==
    ASSUME Inv, RequestsOk, \A j \in JobIds : TermsKept(j),
           row' \in [Requests -> {"none", "pledging", "open", "failed"}],
           NEW r \in Requests, \A q \in Requests \ {r} : Same(q),
           RowFollows(r)', Moved(r)', loan'[r].job = loan[r].job,
           RowLives(r)' => RowLives(r), Spent(r)' => Spent(r), Risky(r)' => Risky(r)
    PROVE  RequestsOk'
<1>1. ASSUME NEW q \in Requests \ {r}
      PROVE  Apart(r, q)' /\ Apart(q, r)'
  <2>1. /\ RowLives(q)' => RowLives(q)
        /\ Spent(q)' => Spent(q)
        /\ Risky(q)' => Risky(q)
        /\ loan'[q].job = loan[q].job
    BY <1>1, SameLives
  <2>2. QED
    BY <1>1, <2>1, ApartKept
<1>2. QED
  BY <1>1, OneRequest

LEMMA StepRequests ==
    ASSUME Inv, RequestsOk, [DeskNext]_deskVars, \A j \in JobIds : TermsKept(j)
    PROVE  RequestsOk'
<1>0. ASSUME NEW r \in Requests
      PROVE  /\ loan \in [Requests -> Loan] /\ loan[r] \in Loan
             /\ row \in [Requests -> {"none", "pledging", "open", "failed"}]
             /\ RowFollows(r) /\ Moved(r)
  BY DEF Inv, RequestsOk, RowFollows
<1>1. ASSUME UNCHANGED <<loan, row, pledges, payments, history>>
      PROVE  RequestsOk'
  <2>1. \A q \in Requests : Same(q)
    BY <1>1 DEF Same, history
  <2>2. \A q \in Requests : RowFollows(q)' /\ Moved(q)'
    BY <2>1, SameKeeps
  <2>3. ASSUME NEW q \in Requests, NEW p \in Requests, q # p
        PROVE  Apart(q, p)'
    BY <2>1, <2>3, ApartKept, SameLives
  <2>4. QED
    BY <1>1, <2>2, <2>3 DEF RequestsOk
<1>2. ASSUME NEW r \in Requests, NEW j \in JobIds, NEW m \in Addr, NEW l \in Lenders,
             NEW record \in Records, NEW asked \in Asked, Quote(r, j, m, l, record, asked)
      PROVE  RequestsOk'
  <2>1. PICK new : loan' = [loan EXCEPT ![r] = new] /\ new.pc = "row"
    <3> DEFINE adv == quoteAdvance(jobs[j].bounty, record, asked)
               new == [pc |-> "row", job |-> j, borrower |-> m, lender |-> l, since |-> now,
                       advance |-> adv, pledge |-> adv + fee(adv, feeRate(orchestrationLtv(record)))]
    <3>1. loan' = [loan EXCEPT ![r] = new]
      BY <1>2 DEF Quote
    <3>2. new.pc = "row"
      OBVIOUS
    <3> HIDE DEF new
    <3>3. QED
      BY <3>1, <3>2
  <2>2. /\ At(r, "idle") /\ row' = row
        /\ pledges' = pledges /\ payments' = payments
        /\ lent' = lent /\ hollow' = hollow /\ unheard' = unheard
    BY <1>2 DEF Quote, history
  <2>3. loan'[r].pc = "row" /\ \A q \in Requests \ {r} : loan'[q] = loan[q]
    BY <1>0, <2>1
  <2>4. row[r] = "none" /\ r \notin pledges \cup payments \cup lent
    BY <1>0, <2>2 DEF RowFollows, At
  <2>5. \A q \in Requests \ {r} : Same(q)
    BY <2>2, <2>3 DEF Same
  <2>6. RowFollows(r)' /\ Moved(r)'
    BY <2>2, <2>3, <2>4 DEF RowFollows, Moved, At, Active
  <2>7. ~RowLives(r)' /\ ~Spent(r)' /\ ~Risky(r)'
    BY <2>2, <2>3, <2>4 DEF RowLives, Spent, Risky
  <2>8. \A q \in Requests \ {r} : Apart(r, q)' /\ Apart(q, r)'
    BY <2>7 DEF Apart
  <2>9. QED
    BY <1>0, <2>2, <2>5, <2>6, <2>8, OneRequest
<1>3. ASSUME NEW r \in Requests, NEW pc, loan' = [loan EXCEPT ![r].pc = pc] \/
                                         loan' = [loan EXCEPT ![r].pc = pc, ![r].since = 0]
      PROVE  /\ loan'[r].pc = pc /\ loan'[r].job = loan[r].job
             /\ loan'[r].borrower = loan[r].borrower /\ loan'[r].lender = loan[r].lender
             /\ loan'[r].pledge = loan[r].pledge
             /\ \A q \in Requests \ {r} : loan'[q] = loan[q]
  BY <1>0, <1>3 DEF Loan
<1>4. ASSUME NEW r \in Requests, InsertRow(r)
      PROVE  RequestsOk'
  <2>1. /\ At(r, "row") /\ pledges' = pledges /\ payments' = payments
        /\ lent' = lent /\ hollow' = hollow /\ unheard' = unheard
    BY <1>4 DEF InsertRow, history
  <2>2. row[r] = "none" /\ r \notin pledges \cup payments \cup lent
    BY <1>0, <2>1 DEF RowFollows, At
  <2>3. CASE liveAdvance(loan[r].job)
    <3>1. loan' = [loan EXCEPT ![r].pc = "done", ![r].since = 0] /\ row' = row
      BY <1>4, <2>3 DEF InsertRow, End
    <3>2. loan'[r].pc = "done" /\ loan'[r].job = loan[r].job /\ \A q \in Requests \ {r} : loan'[q] = loan[q]
      BY <1>3, <3>1
    <3>3. \A q \in Requests \ {r} : Same(q)
      BY <2>1, <3>1, <3>2 DEF Same
    <3>4. RowFollows(r)' /\ Moved(r)'
      BY <2>1, <2>2, <3>1, <3>2 DEF RowFollows, Moved, At, Active
    <3>5. ~RowLives(r)' /\ ~Spent(r)' /\ ~Risky(r)'
      BY <2>1, <2>2, <3>1, <3>2 DEF RowLives, Spent, Risky
    <3>6. QED
      BY <1>0, <3>1, <3>2, <3>3, <3>4, <3>5, OneRequestGoesOn
  <2>4. CASE ~liveAdvance(loan[r].job)
    <3>1. loan' = [loan EXCEPT ![r].pc = "assign"] /\ row' = [row EXCEPT ![r] = "pledging"]
      BY <1>4, <2>4 DEF InsertRow, Goto
    <3>2. loan'[r].pc = "assign" /\ loan'[r].job = loan[r].job /\ \A q \in Requests \ {r} : loan'[q] = loan[q]
      BY <1>3, <3>1
    <3>3. row' \in [Requests -> {"none", "pledging", "open", "failed"}]
      BY <1>0, <3>1
    <3>4. row'[r] = "pledging" /\ \A q \in Requests \ {r} : row'[q] = row[q]
      BY <1>0, <3>1
    <3>5. \A q \in Requests \ {r} : Same(q)
      BY <2>1, <3>2, <3>4 DEF Same
    <3>6. RowFollows(r)' /\ Moved(r)'
      BY <2>1, <2>2, <3>2, <3>4 DEF RowFollows, Moved, At, Active
    <3>7. ~Spent(r)' /\ ~Risky(r)'
      BY <2>1, <2>2, <3>2 DEF Spent, Risky
    <3>8. \A q \in Requests \ {r} : loan[q].job = loan[r].job => ~RowLives(q)
      BY <2>4 DEF liveAdvance, RowLives
    <3>9. \A q \in Requests \ {r} : Apart(r, q)' /\ Apart(q, r)'
      BY <3>2, <3>5, <3>7, <3>8, SameLives DEF Apart
    <3>10. QED
      BY <3>3, <3>5, <3>6, <3>9, OneRequest
  <2>5. QED
    BY <2>3, <2>4

<1>5. ASSUME NEW r \in Requests, NEW pc, live(r), row' = row, pledges' = pledges,
             loan' = [loan EXCEPT ![r].pc = pc] \/ loan' = [loan EXCEPT ![r].pc = pc, ![r].since = 0],
             \A q \in Requests \ {r} : /\ q \in payments' <=> q \in payments
                                       /\ q \in lent' <=> q \in lent
                                       /\ q \in hollow' <=> q \in hollow
                                       /\ q \in unheard' <=> q \in unheard
      PROVE  /\ loan'[r].pc = pc /\ row'[r] = row[r] /\ loan'[r].job = loan[r].job
             /\ \A q \in Requests \ {r} : Same(q)
  BY <1>3, <1>5 DEF Same
<1>6. ASSUME NEW r \in Requests, Fail(r)
      PROVE  RequestsOk'
  <2>1. /\ At(r, "fail") /\ pledges' = pledges /\ payments' = payments
        /\ lent' = lent /\ hollow' = hollow /\ unheard' = unheard
        /\ loan' = [loan EXCEPT ![r].pc = "done", ![r].since = 0]
        /\ row' = row \/ row' = [row EXCEPT ![r] = "failed"]
    BY <1>6 DEF Fail, End, history
  <2>2. /\ row' \in [Requests -> {"none", "pledging", "open", "failed"}]
        /\ row'[r] \in {row[r], "failed"}
        /\ \A q \in Requests \ {r} : row'[q] = row[q]
    BY <1>0, <2>1
  <2>3. loan'[r].pc = "done" /\ loan'[r].job = loan[r].job /\ \A q \in Requests \ {r} : loan'[q] = loan[q]
    BY <1>3, <2>1
  <2>4. row[r] = "pledging"
    BY <1>0, <2>1 DEF RowFollows, Active, At
  <2>5. \A q \in Requests \ {r} : Same(q)
    BY <2>1, <2>2, <2>3 DEF Same
  <2>6. r \in lent => pledged(r)'
    BY <1>3, <2>1, LienStays
  <2>7. RowFollows(r)'
    BY <1>0, <2>1, <2>2, <2>3, <2>4, <2>6 DEF RowFollows, Active
  <2>8. Moved(r)'
    BY <1>0, <2>1, <2>2, <2>3, <2>4 DEF Moved, At
  <2>9. RowLives(r) /\ (Spent(r)' => Spent(r)) /\ (Risky(r)' => Risky(r))
    BY <2>1, <2>3, <2>4 DEF RowLives, Spent, Risky
  <2>10. QED
    BY <2>2, <2>3, <2>5, <2>7, <2>8, <2>9, OneRequestGoesOn
<1>7. ASSUME NEW r \in Requests, SendAssign(r)
      PROVE  RequestsOk'
  <2>1. PICK pc \in {"assigning", "fail"} :
           /\ loan' = [loan EXCEPT ![r].pc = pc]
           /\ pledges' \in {pledges, pledges \cup {r}}
           /\ pc = "assigning" => assignable(r)
    BY <1>7 DEF SendAssign, Goto
  <2>2. /\ At(r, "assign") /\ row' = row /\ payments' = payments
        /\ lent' = lent /\ hollow' = hollow /\ unheard' = unheard
    BY <1>7 DEF SendAssign, history
  <2>3. loan'[r].pc = pc /\ loan'[r].job = loan[r].job /\ \A q \in Requests \ {r} : loan'[q] = loan[q]
    BY <1>3, <2>1
  <2>4. row[r] = "pledging" /\ r \notin payments \cup lent
    BY <1>0, <2>2 DEF RowFollows, Active, At
  <2>5. \A q \in Requests \ {r} : Same(q)
    BY <2>1, <2>2, <2>3 DEF Same
  <2>6. RowFollows(r)' /\ Moved(r)'
    BY <2>1, <2>2, <2>3, <2>4 DEF RowFollows, Active, Moved, At
  <2>7. ASSUME NEW q \in Requests \ {r}
        PROVE  Apart(r, q)' /\ Apart(q, r)'
    <3>1. Apart(r, q) /\ Apart(q, r)
      BY DEF RequestsOk
    <3>2. RowLives(r)' => RowLives(r)
      BY <2>2 DEF RowLives
    <3>3. ~Spent(r)'
      BY <2>1, <2>2, <2>3, <2>4 DEF Spent
    <3>4. ASSUME loan[q].job = loan[r].job, Spent(q)
          PROVE  ~Risky(r)'
      <4>1. ~At(q, "idle")
        BY <1>0, <3>4 DEF Spent, RowFollows, At
      <4>2. pledged(q) /\ Knows(q)
        BY <1>0, <3>4, <4>1 DEF Inv, Spent, Knows, RowFollows
      <4>3. collateral(r).payee # NoAddr
        BY <3>4, <4>2, ConfigAssumption DEF pledged, Knows, collateral, ConfigOk
      <4>4. pc = "fail"
        BY <2>1, <4>3 DEF assignable
      <4>5. QED
        BY <2>2, <2>3, <2>4, <4>4 DEF Risky
    <3>5. QED
      BY <2>3, <2>5, <3>1, <3>2, <3>3, <3>4, SameLives DEF Apart
  <2>8. QED
    BY <1>0, <2>2, <2>5, <2>6, <2>7, OneRequest
<1>8. ASSUME NEW r \in Requests, AssignMined(r)
      PROVE  RequestsOk'
  <2>1. loan' = loan /\ row' = row /\ payments' = payments /\ pledges' = pledges \ {r}
        /\ lent' = lent /\ hollow' = hollow /\ unheard' = unheard
    BY <1>8 DEF AssignMined, history
  <2>2. \A q \in Requests \ {r} : Same(q)
    BY <2>1 DEF Same
  <2>3. r \in lent => pledged(r)'
    BY <2>1, LienStays
  <2>4. RowFollows(r)' /\ Moved(r)'
    BY <1>0, <2>1, <2>3 DEF RowFollows, Active, Moved, At
  <2>5. (RowLives(r)' => RowLives(r)) /\ (Spent(r)' => Spent(r)) /\ (Risky(r)' => Risky(r))
    BY <2>1 DEF RowLives, Spent, Risky
  <2>6. QED
    BY <1>0, <2>1, <2>2, <2>4, <2>5, OneRequestGoesOn
<1>9. ASSUME NEW r \in Requests, AssignHeard(r) \/ AssignUnheard(r)
      PROVE  RequestsOk'
  <2>1. PICK pc \in {"verify", "fail"} : loan' = [loan EXCEPT ![r].pc = pc]
    BY <1>9 DEF AssignHeard, AssignUnheard, Goto
  <2>2. /\ At(r, "assigning") /\ row' = row /\ pledges' = pledges /\ payments' = payments
        /\ lent' = lent /\ hollow' = hollow /\ unheard' = unheard
    BY <1>9 DEF AssignHeard, AssignUnheard, history
  <2>3. loan'[r].pc = pc /\ row'[r] = row[r] /\ loan'[r].job = loan[r].job /\ \A q \in Requests \ {r} : Same(q)
    BY <1>5, <2>1, <2>2 DEF live, At
  <2>4. row[r] = "pledging" /\ r \notin payments \cup lent
    BY <1>0, <2>2 DEF RowFollows, Active, At
  <2>5. RowFollows(r)' /\ Moved(r)'
    BY <2>1, <2>2, <2>3, <2>4 DEF RowFollows, Active, Moved, At
  <2>6. RowLives(r) /\ ~Spent(r)' /\ Risky(r)
    BY <2>1, <2>2, <2>3, <2>4 DEF RowLives, Spent, Risky, At
  <2>7. QED
    BY <1>0, <2>2, <2>3, <2>5, <2>6, OneRequestGoesOn
<1>10. ASSUME NEW r \in Requests, Verify(r)
       PROVE  RequestsOk'
  <2>1. PICK pc \in {"pay", "fail"} : loan' = [loan EXCEPT ![r].pc = pc]
    BY <1>10 DEF Verify, Goto
  <2>2. /\ At(r, "verify") /\ row' = row /\ pledges' = pledges /\ payments' = payments
        /\ lent' = lent /\ hollow' = hollow /\ unheard' = unheard
    BY <1>10 DEF Verify, history
  <2>3. loan'[r].pc = pc /\ row'[r] = row[r] /\ loan'[r].job = loan[r].job /\ \A q \in Requests \ {r} : Same(q)
    BY <1>5, <2>1, <2>2 DEF live, At
  <2>4. row[r] = "pledging" /\ r \notin payments \cup lent
    BY <1>0, <2>2 DEF RowFollows, Active, At
  <2>5. RowFollows(r)' /\ Moved(r)'
    BY <2>1, <2>2, <2>3, <2>4 DEF RowFollows, Active, Moved, At
  <2>6. ASSUME NEW q \in Requests \ {r}
        PROVE  Apart(r, q)' /\ Apart(q, r)'
    <3>1. Apart(r, q) /\ Apart(q, r) /\ Same(q)
      BY <2>3 DEF RequestsOk
    <3>2. RowLives(r) /\ RowLives(r)' /\ Risky(r)
      BY <2>2, <2>3, <2>4 DEF RowLives, Risky, At
    <3>3. ASSUME loan[q].job = loan[r].job
          PROVE  ~RowLives(q) /\ ~Spent(q) /\ ~Risky(q)
      <4>1. ~RowLives(q) /\ ~Spent(q)
        BY <3>1, <3>2, <3>3 DEF Apart
      <4>2. ~Risky(q)
        <5>1. Active(q) => RowLives(q)
          BY <1>0 DEF RowFollows, RowLives
        <5>2. QED
          BY <4>1, <5>1 DEF Risky, Spent, Active
      <4>3. QED
        BY <4>1, <4>2
    <3>4. QED
      BY <2>3, <3>1, <3>3, SameLives DEF Apart
  <2>7. QED
    BY <1>0, <2>2, <2>3, <2>5, <2>6, OneRequest
<1>11. ASSUME NEW r \in Requests, SendPay(r)
       PROVE  RequestsOk'
  <2>1. PICK pc \in {"paying", "fail"} :
           /\ loan' = [loan EXCEPT ![r].pc = pc]
           /\ payments' = IF pc = "paying" THEN payments \cup {r} ELSE payments
    BY <1>11 DEF SendPay, Goto
  <2>2. /\ At(r, "pay") /\ row' = row /\ pledges' = pledges
        /\ lent' = lent /\ hollow' = hollow /\ unheard' = unheard
    BY <1>11 DEF SendPay, history
  <2>3. loan'[r].pc = pc /\ row'[r] = row[r] /\ loan'[r].job = loan[r].job /\ \A q \in Requests \ {r} : Same(q)
    BY <1>5, <2>1, <2>2 DEF live, At
  <2>4. row[r] = "pledging" /\ r \notin payments \cup lent
    BY <1>0, <2>2 DEF RowFollows, Active, At
  <2>5. RowFollows(r)' /\ Moved(r)'
    BY <2>1, <2>2, <2>3, <2>4 DEF RowFollows, Active, Moved, At
  <2>6. RowLives(r) /\ Spent(r) /\ Risky(r)
    BY <2>2, <2>4 DEF RowLives, Spent, Risky, At
  <2>7. QED
    BY <1>0, <2>2, <2>3, <2>5, <2>6, OneRequestGoesOn
<1>12. ASSUME NEW r \in Requests, PayMined(r)
       PROVE  RequestsOk'
  <2>1. /\ r \in payments /\ payments' = payments \ {r}
        /\ \/ lent' = lent \cup {r} /\ hollow' = hollow
           \/ lent' = lent /\ hollow' = hollow \cup {r}
        /\ loan' = loan /\ row' = row /\ pledges' = pledges /\ unheard' = unheard
    BY <1>12 DEF PayMined
  <2>2. \A q \in Requests \ {r} : Same(q)
    BY <2>1 DEF Same
  <2>3. pledged(r)'
    BY <2>1, LienStays
  <2>4. RowFollows(r)' /\ Moved(r)'
    BY <1>0, <2>1, <2>3 DEF RowFollows, Active, Moved, At
  <2>5. (RowLives(r)' => RowLives(r)) /\ Spent(r) /\ Risky(r)
    BY <2>1 DEF RowLives, Spent, Risky
  <2>6. QED
    BY <1>0, <2>1, <2>2, <2>4, <2>5, OneRequestGoesOn
<1>13. ASSUME NEW r \in Requests, PayHeard(r) \/ PayUnheard(r)
       PROVE  RequestsOk'
  <2>1. /\ At(r, "paying") /\ row' = row /\ pledges' = pledges /\ payments' = payments
        /\ lent' = lent /\ hollow' = hollow
    BY <1>13 DEF PayHeard, PayUnheard, history
  <2>2. PICK pc \in {"record", "fail"} :
           /\ loan' = [loan EXCEPT ![r].pc = pc]
           /\ IF pc = "record" THEN unheard' = unheard /\ r \notin payments
              ELSE unheard' = unheard \cup {r}
    BY <1>13 DEF PayHeard, PayUnheard, Goto, history
  <2>3. loan'[r].pc = pc /\ row'[r] = row[r] /\ loan'[r].job = loan[r].job /\ \A q \in Requests \ {r} : Same(q)
    BY <1>5, <2>1, <2>2 DEF live, At
  <2>4. row[r] = "pledging"
    BY <1>0, <2>1 DEF RowFollows, Active, At
  <2>5. r \in lent => pledged(r)'
    BY <1>3, <2>2, LienStays
  <2>6. RowFollows(r)'
    BY <1>0, <2>1, <2>2, <2>3, <2>4, <2>5 DEF RowFollows, Active
  <2>7. Moved(r)'
    BY <1>0, <2>1, <2>2, <2>3, <2>4 DEF Moved, At
  <2>8. RowLives(r) /\ Spent(r) /\ Risky(r)
    BY <2>1, <2>4 DEF RowLives, Spent, Risky, At
  <2>9. QED
    BY <1>0, <2>1, <2>3, <2>6, <2>7, <2>8, OneRequestGoesOn
<1>14. ASSUME NEW r \in Requests, Record(r) \/ Die(r)
       PROVE  RequestsOk'
  <2>1. /\ live(r) /\ pledges' = pledges /\ payments' = payments
        /\ lent' = lent /\ hollow' = hollow /\ unheard' = unheard
        /\ loan' = [loan EXCEPT ![r].pc = "done", ![r].since = 0]
        /\ row' = row \/ (At(r, "record") /\ row' = [row EXCEPT ![r] = "open"])
    BY <1>14 DEF Record, Die, End, live, At, history
  <2>2. /\ row' \in [Requests -> {"none", "pledging", "open", "failed"}]
        /\ row'[r] = row[r] \/ (At(r, "record") /\ row'[r] = "open")
        /\ \A q \in Requests \ {r} : row'[q] = row[q]
    BY <1>0, <2>1
  <2>3. loan'[r].pc = "done" /\ loan'[r].job = loan[r].job /\ \A q \in Requests \ {r} : loan'[q] = loan[q]
    BY <1>3, <2>1
  <2>4. At(r, "record") => row[r] = "pledging" /\ r \in lent \cup hollow
    BY <1>0 DEF RowFollows, Moved, Active, At
  <2>5. \A q \in Requests \ {r} : Same(q)
    BY <2>1, <2>2, <2>3 DEF Same
  <2>6. r \in lent => pledged(r)'
    BY <1>3, <2>1, LienStays
  <2>7. row[r] \notin {"open", "failed"}
    <3>1. Active(r) \/ loan[r].pc = "row"
      BY <1>0, <2>1 DEF live, Loan, PCs, Active
    <3>2. QED
      BY <1>0, <3>1 DEF RowFollows
  <2>8. RowFollows(r)'
    BY <1>0, <2>1, <2>2, <2>3, <2>6 DEF RowFollows, Active
  <2>9. Moved(r)'
    BY <1>0, <2>1, <2>2, <2>3, <2>4, <2>7 DEF Moved, At
  <2>10. (RowLives(r)' => RowLives(r)) /\ (Spent(r)' => Spent(r)) /\ (Risky(r)' => Risky(r))
    BY <2>1, <2>2, <2>3, <2>4 DEF RowLives, Spent, Risky
  <2>11. QED
    BY <2>2, <2>3, <2>5, <2>8, <2>9, <2>10, OneRequestGoesOn
<1>15. QED
  BY <1>1, <1>2, <1>4, <1>6, <1>7, <1>8, <1>9, <1>10, <1>11, <1>12, <1>13, <1>14
     DEF DeskNext, Parties, DeskTick, SpendElsewhere, Step, desk, deskVars

LEMMA StepLiens ==
    ASSUME Inv, RequestsOk, LiensHaveRows, [DeskNext]_deskVars, \A j \in JobIds : TermsKept(j)
    PROVE  LiensHaveRows'
<1>1. ASSUME NEW r \in Requests, row[r] # "none"
      PROVE  /\ row'[r] # "none"
             /\ loan'[r].job = loan[r].job /\ loan'[r].lender = loan[r].lender
  <2>1. loan \in [Requests -> Loan] /\ ~At(r, "idle")
        /\ row \in [Requests -> {"none", "pledging", "open", "failed"}]
    BY <1>1 DEF Inv, RequestsOk, RowFollows, At
  <2>2. row' = row \/ \E q \in Requests, x \in {"pledging", "open", "failed"} : row' = [row EXCEPT ![q] = x]
    BY DEF DeskNext, Parties, DeskTick, SpendElsewhere, Quote, Step, InsertRow, Fail, SendAssign,
           AssignMined, AssignHeard, AssignUnheard, Verify, SendPay, PayMined, PayHeard, PayUnheard,
           Record, Die, desk, deskVars
  <2>3. row'[r] # "none"
    BY <1>1, <2>1, <2>2
  <2>4. \/ loan' = loan
        \/ \E q \in Requests : \E pc :
              \/ loan' = [loan EXCEPT ![q].pc = pc]
              \/ loan' = [loan EXCEPT ![q].pc = pc, ![q].since = 0]
        \/ \E q \in Requests \ {r} : \E new : loan' = [loan EXCEPT ![q] = new]
    <3>1. ASSUME NEW q \in Requests, Step(q)
          PROVE  \/ loan' = loan
                 \/ \E pc : \/ loan' = [loan EXCEPT ![q].pc = pc]
                           \/ loan' = [loan EXCEPT ![q].pc = pc, ![q].since = 0]
      <4>1. CASE AssignMined(q) \/ PayMined(q)
        BY <4>1 DEF AssignMined, PayMined
      <4>2. CASE InsertRow(q) \/ Fail(q) \/ Record(q) \/ Die(q)
        BY <4>2 DEF InsertRow, Fail, Record, Die, Goto, End
      <4>3. CASE SendAssign(q) \/ AssignHeard(q) \/ AssignUnheard(q) \/ Verify(q)
        BY <4>3 DEF SendAssign, AssignHeard, AssignUnheard, Verify, Goto
      <4>4. CASE SendPay(q) \/ PayHeard(q) \/ PayUnheard(q)
        BY <4>4 DEF SendPay, PayHeard, PayUnheard, Goto
      <4>5. QED
        BY <3>1, <4>1, <4>2, <4>3, <4>4 DEF Step
    <3>2. ASSUME NEW q \in Requests, NEW j, NEW m, NEW l, NEW record, NEW asked,
                 Quote(q, j, m, l, record, asked)
          PROVE  q # r /\ \E new : loan' = [loan EXCEPT ![q] = new]
      BY <2>1, <3>2 DEF Quote
    <3>3. QED
      BY <3>1, <3>2 DEF DeskNext, Parties, DeskTick, SpendElsewhere, desk, deskVars
  <2>5. loan'[r].job = loan[r].job /\ loan'[r].lender = loan[r].lender
    <3>1. CASE loan' = loan
      BY <3>1
    <3>2. ASSUME NEW q \in Requests, NEW pc,
                 loan' = [loan EXCEPT ![q].pc = pc] \/ loan' = [loan EXCEPT ![q].pc = pc, ![q].since = 0]
          PROVE  loan'[r].job = loan[r].job /\ loan'[r].lender = loan[r].lender
      <4>1. CASE q = r
        BY <2>1, <3>2, <4>1 DEF Loan
      <4>2. CASE q # r
        BY <2>1, <3>2, <4>2
      <4>3. QED
        BY <4>1, <4>2
    <3>3. ASSUME NEW q \in Requests \ {r}, NEW new, loan' = [loan EXCEPT ![q] = new]
          PROVE  loan'[r].job = loan[r].job /\ loan'[r].lender = loan[r].lender
      BY <2>1, <3>3
    <3>4. QED
      BY <2>4, <3>1, <3>2, <3>3
  <2>6. QED
    BY <2>3, <2>5
<1>2. ASSUME NEW j \in JobIds, jobs'[j].payee # NoAddr, jobs'[j].payee # jobs[j].payee
      PROVE  \E r \in Requests : loan[r].job = j /\ loan[r].lender = jobs'[j].payee /\ row[r] # "none"
  <2>0. jobs \in [JobIds -> Job]
    BY DEF Inv, TypeOK
  <2>1. CASE Parties
    <3>1. ASSUME NEW i, NEW status, NEW refund, NEW side, NEW burn,
                 settle(i, status, refund, side, burn)
          PROVE  jobs'[j].payee = jobs[j].payee
      BY <2>0, <3>1 DEF settle, Job
    <3>2. ASSUME NEW i \in JobIds, exit(i)
          PROVE  jobs'[j].payee = jobs[j].payee
      BY <3>1, <3>2 DEF exit, reclaimJob, expireOpen, expireReview, expireDispute, release
    <3>3. ASSUME NEW i \in JobIds, NEW m \in Addr, NEW verdict \in BOOLEAN,
                 approveJob(m, i) \/ cancelJob(m, i) \/ resolveDispute(m, i, verdict)
          PROVE  jobs'[j].payee = jobs[j].payee
      BY <3>1, <3>3 DEF approveJob, cancelJob, resolveDispute, release
    <3>4. ASSUME NEW m, NEW b, NEW s, NEW w, postJob(m, b, s, w)
          PROVE  jobs'[j].payee \in {jobs[j].payee, NoAddr}
      BY <2>0, <3>4 DEF postJob, newJob
    <3>5. ASSUME NEW i \in JobIds, NEW m, NEW answer,
                 acceptJob(m, i, answer) \/ submitWork(m, i) \/ raiseDispute(m, i)
          PROVE  jobs'[j].payee = jobs[j].payee
      BY <2>0, <3>5 DEF acceptJob, submitWork, raiseDispute, Job
    <3>6. QED
      BY <1>2, <2>1, <3>2, <3>3, <3>4, <3>5 DEF Parties
  <2>2. ASSUME NEW r \in Requests, AssignMined(r)
        PROVE  loan[r].job = j /\ loan[r].lender = jobs'[j].payee /\ row[r] # "none"
    <3>1. r \in pledges
      BY <2>2 DEF AssignMined
    <3>2. row[r] # "none"
      BY <3>1 DEF RequestsOk, RowFollows
    <3>3. assignPayee(loan[r].borrower, loan[r].job, loan[r].lender, loan[r].pledge)
      BY <1>2, <2>2 DEF AssignMined, vars
    <3>4. jobs' = [jobs EXCEPT ![loan[r].job].payee = loan[r].lender, ![loan[r].job].payeeAmount = loan[r].pledge]
      BY <3>3 DEF assignPayee
    <3>5. loan[r].job = j /\ jobs'[j].payee = loan[r].lender
      BY <1>2, <2>0, <3>4 DEF Job
    <3>6. QED
      BY <3>2, <3>5
  <2>3. CASE ~Parties /\ ~(\E r \in Requests : AssignMined(r))
    <3>1. jobs' = jobs
      BY <2>3 DEF DeskNext, DeskTick, Tick, SpendElsewhere, Quote, Step, InsertRow, Fail, SendAssign,
                  AssignHeard, AssignUnheard, Verify, SendPay, PayMined, PayHeard, PayUnheard,
                  Record, Die, deskVars, vars
    <3>2. QED
      BY <1>2, <3>1
  <2>4. QED
    BY <2>1, <2>2, <2>3
<1>3. ASSUME NEW j \in JobIds, jobs'[j].payee # NoAddr
      PROVE  \E r \in Requests : loan'[r].job = j /\ loan'[r].lender = jobs'[j].payee /\ row'[r] # "none"
  <2>1. PICK r \in Requests : loan[r].job = j /\ loan[r].lender = jobs'[j].payee /\ row[r] # "none"
    BY <1>2, <1>3 DEF LiensHaveRows
  <2>2. QED
    BY <1>1, <2>1
<1>4. QED
  BY <1>3 DEF LiensHaveRows

LEMMA DeskOkHolds == DeskSpec => []DeskOk
<1>1. DeskInit => DeskOk
  <2> SUFFICES ASSUME DeskInit  PROVE  DeskOk
    OBVIOUS
  <2>1. /\ row = [r \in Requests |-> "none"] /\ loan = [r \in Requests |-> NoLoan]
        /\ pledges = {} /\ payments = {} /\ lent = {} /\ jobs = [j \in JobIds |-> NoJob]
    BY DEF DeskInit, Init
  <2>2. \A r \in Requests : loan[r].pc = "idle" /\ row[r] = "none"
    BY <2>1 DEF NoLoan
  <2>3. RequestsOk
    <3>1. row \in [Requests -> {"none", "pledging", "open", "failed"}]
      BY <2>1
    <3>2. \A r \in Requests : RowFollows(r) /\ Moved(r)
      BY <2>1, <2>2 DEF RowFollows, Moved, Active, At
    <3>3. \A r, q \in Requests : Apart(r, q)
      BY <2>1, <2>2 DEF Apart, RowLives, Spent
    <3>4. QED
      BY <3>1, <3>2, <3>3 DEF RequestsOk
  <2>4. LiensHaveRows
    BY <2>1 DEF LiensHaveRows, NoJob
  <2>5. QED
    BY <2>1, <2>3, <2>4 DEF DeskOk
<1>2. Inv /\ DeskOk /\ [DeskNext]_deskVars => DeskOk'
  <2> SUFFICES ASSUME Inv, DeskOk, [DeskNext]_deskVars
               PROVE  DeskOk'
    OBVIOUS
  <2>1. \A j \in JobIds : TermsKept(j)
    BY DeskIsMarket, StepFinal DEF Inv
  <2>2. lent' \subseteq Requests
    <3>1. ASSUME NEW r \in Requests, Step(r)
          PROVE  lent' \subseteq lent \cup {r}
      <4>1. CASE PayMined(r)
        BY <4>1 DEF PayMined
      <4>2. CASE PayUnheard(r)
        BY <4>2 DEF PayUnheard
      <4>3. CASE ~PayMined(r) /\ ~PayUnheard(r)
        BY <3>1, <4>3 DEF Step, InsertRow, Fail, SendAssign, AssignMined, AssignHeard, AssignUnheard,
                          Verify, SendPay, PayHeard, Record, Die, history
      <4>4. QED
        BY <4>1, <4>2, <4>3
    <3>2. QED
      BY <3>1 DEF DeskOk, DeskNext, Parties, DeskTick, SpendElsewhere, Quote, desk, deskVars, history
  <2>3. QED
    BY <2>1, <2>2, StepRequests, StepLiens DEF DeskOk
<1>3. QED
  BY <1>1, <1>2, InvHolds, PTL DEF DeskSpec

(* What is owed on a job is the pledge of one request, or nothing.          *)
LEMMA OneIsOwed ==
    ASSUME Inv, DeskOk, NEW r \in lent
    PROVE  loan[r].pledge \in Nat /\ owed(loan[r].job, loan[r].lender) = loan[r].pledge
<1>1. r \in Requests /\ loan[r].pledge \in Nat
  BY DEF Inv, DeskOk, Loan
<1>2. {q \in lent : loan[q].job = loan[r].job /\ loan[q].lender = loan[r].lender} = {r}
  <2>1. ASSUME NEW q \in lent, q # r
        PROVE  loan[q].job # loan[r].job
    BY <1>1, <2>1 DEF DeskOk, RequestsOk, Apart, Spent, Risky
  <2>2. QED
    BY <2>1
<1> DEFINE promised == [q \in Requests |-> loan[q].pledge]
<1>3. owed(loan[r].job, loan[r].lender) = SumOf(promised, {r})
  BY <1>2 DEF owed, SumOf
<1>4. promised[r] = loan[r].pledge
  BY <1>1
<1>5. IsFiniteSet({r})
  BY FS_Singleton
<1> HIDE DEF promised
<1>6. SumOf(promised, {r}) = promised[r]
  <2>1. r \in {r} /\ promised[r] \in Int /\ \A x \in {r} \ {r} : promised[x] = 0
    BY <1>1, <1>4
  <2>2. QED
    BY <1>5, <2>1, SumOne
<1>7. QED
  BY <1>1, <1>3, <1>4, <1>6

LEMMA NothingIsOwed ==
    ASSUME NEW j, NEW l, {r \in lent : loan[r].job = j /\ loan[r].lender = l} = {}
    PROVE  owed(j, l) = 0
<1> DEFINE promised == [r \in Requests |-> loan[r].pledge]
<1>1. owed(j, l) = SumOf(promised, {})
  BY DEF owed, SumOf
<1>2. QED
  BY <1>1, SumEmpty

(* A completed job pays its payee the whole of its claim.                   *)
LEMMA ReleasePaysPayee ==
    ASSUME TypeOK, Accounts, NEW j \in JobIds, jobs[j].status = "Completed", jobs[j].payee # NoAddr
    PROVE  credits[j][jobs[j].payee] >= jobs[j].payeeAmount
<1> DEFINE job == jobs[j]
<1>1. /\ job \in Job /\ job.bounty \in Nat /\ job.payeeAmount \in Nat /\ job.reviewDeadline \in Nat
      /\ job.payee \in Addr /\ RecordOk(job) /\ PaidOut(job, credits[j])
  BY DEF TypeOK, Job, Accounts
<1>2. job.requester # NoAddr /\ job.reviewDeadline # 0 /\ job.payeeAmount <= job.bounty
  BY <1>1 DEF RecordOk, NoJob
<1>3. credits[j] = Share(job, 0, workerSide(job, job.bounty))
  BY <1>1, <1>2 DEF PaidOut, Settled
<1> DEFINE side == workerSide(job, job.bounty)
<1>4. side.payee = job.payeeAmount /\ side.worker \in Nat
  <2>1. side.payee = toPayee(job, job.bounty) /\ side.worker \in Nat
    BY <1>1, WorkerLegs DEF workerSide
  <2>2. QED
    BY <1>1, <1>2, <2>1 DEF toPayee
<1> HIDE DEF side
<1>5. credits[j][job.payee] = (IF job.payee = job.requester THEN 0 ELSE 0)
                            + side.payee + (IF job.payee = job.worker THEN side.worker ELSE 0)
  BY <1>1, <1>3 DEF Share, side
<1>6. QED
  BY <1>1, <1>4, <1>5

(* One lien secures one advance: a lender is credited, when the job is      *)
(* released, with everything it was promised for the money that moved.      *)
THEOREM LoansAreRepaid == DeskSpec => []LentIsRepaid
<1>1. Inv /\ DeskOk /\ Accounts => LentIsRepaid
  <2> SUFFICES ASSUME Inv, DeskOk, Accounts,
                      NEW j \in JobIds, NEW l \in Lenders, jobs[j].status = "Completed"
               PROVE  credits[j][l] + 1 >= owed(j, l)
    BY DEF LentIsRepaid
  <2>0. TypeOK /\ credits[j][l] \in Nat
    BY DeskAssumption DEF Inv, TypeOK
  <2>1. CASE {r \in lent : loan[r].job = j /\ loan[r].lender = l} = {}
    BY <2>0, <2>1, NothingIsOwed
  <2>2. ASSUME NEW r \in lent, loan[r].job = j, loan[r].lender = l
        PROVE  credits[j][l] + 1 >= owed(j, l)
    <3>1. pledged(r) /\ owed(j, l) = loan[r].pledge /\ loan[r].pledge \in Nat
      BY <2>2, OneIsOwed DEF DeskOk, RequestsOk, RowFollows
    <3>2. jobs[j].payee = l /\ jobs[j].payeeAmount + 1 >= loan[r].pledge /\ jobs[j].payeeAmount \in Nat
      BY <2>0, <2>2, <3>1 DEF pledged, collateral, TypeOK, Job
    <3>3. l # NoAddr
      BY ConfigAssumption, DeskAssumption DEF ConfigOk
    <3>4. credits[j][l] >= jobs[j].payeeAmount
      BY <2>0, <3>2, <3>3, ReleasePaysPayee
    <3>5. QED
      BY <2>0, <3>1, <3>2, <3>4
  <2>3. QED
    BY <2>1, <2>2
<1>2. QED
  BY <1>1, DeskOkHolds, InvHolds, DeskRunsTheMarket, AccountsHold, PTL

(* The rows tell the truth of the money: an open advance was paid or its    *)
(* transfer reverted as it was mined, a failed one was not paid unless      *)
(* nobody saw it, and nothing is paid or pledged without a row.             *)
THEOREM RowsAreTrue == DeskSpec => []RowsTellTheTruth
<1>1. DeskOk => RowsTellTheTruth
  <2> SUFFICES ASSUME DeskOk  PROVE RowsTellTheTruth
    OBVIOUS
  <2>1. ASSUME NEW r \in Requests
        PROVE  /\ row[r] = "open" => r \in lent \cup hollow
               /\ row[r] = "failed" => r \notin lent \/ r \in unheard
               /\ r \in lent => row[r] # "none"
    BY DEF DeskOk, RequestsOk, RowFollows, Moved
  <2>2. QED
    BY <2>1 DEF DeskOk, LiensHaveRows, RowsTellTheTruth
<1>2. QED
  BY <1>1, DeskOkHolds, PTL
=============================================================================
