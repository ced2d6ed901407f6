----------------------------- MODULE AdvanceDesk -----------------------------
(***************************************************************************)
(* Advances (lib/advance, lib/advance-server, lib/onchain/advance-chain)   *)
(* over the escrow contract they lend against: a request quotes an         *)
(* accepted job, writes its row, has the borrower pledge the job, reads    *)
(* the lien back, moves the lender's USDC and records the advance.         *)
(*                                                                         *)
(* A definition named X_slip is X with a mistake a change could make.      *)
(*                                                                         *)
(* Abstractions.  Money is in whole cents and the arithmetic is exact (a   *)
(* product of floats may add a cent to a fee).  What a request reads       *)
(* before its row is written, the borrower's record included, it reads in  *)
(* one step.  An operation is simulated when it is sent and may revert     *)
(* when it is mined; sendAgentCalls returns its hash all the same, and     *)
(* throws only when it gives up waiting.  An operation never mined is one  *)
(* that is not mined yet.  Nothing collects withdrawable balances here.    *)
(***************************************************************************)
EXTENDS LaborMarketV2, FiniteSetsExt

CONSTANTS
    Requests,               \* calls of openAdvance
    Lenders, PURSE,         \* lending accounts, and what each holds at first
    Records,                \* orchestration records: attempts, completed, largest
                            \* completed budget
    Asked,                  \* amounts a borrower may ask for
    MIN_RUNWAY, LIFE,       \* MIN_RUNWAY_MS; how long an invocation may live
    MaxMishaps              \* bound: deaths, lost writes, refusals, unheard operations

ASSUME DeskAssumption ==
    /\ Lenders \subseteq Addr
    /\ PURSE \in Nat /\ MaxMishaps \in Nat
    /\ Asked \subseteq Nat
    /\ Records \subseteq [attempts : Nat, completed : Nat, largest : Nat]
    /\ \A record \in Records : record.completed <= record.attempts
    /\ LIFE \in Nat /\ MIN_RUNWAY \in Nat /\ LIFE < MIN_RUNWAY     \* 300 s, 30 min

VARIABLES
    loan,       \* each request's local state
    row,        \* the status of its agent_advance row
    purse,      \* the lenders' USDC
    pledges,    \* requests whose assignPayee is sent and not mined
    payments,   \* requests whose transfer is sent and not mined
    lent,       \* history: requests whose transfer moved the money
    hollow,     \* history: those whose transfer was mined and moved none
    unheard,    \* history: those that gave up waiting for their transfer
    mishaps

history == <<lent, hollow, unheard>>
desk == <<loan, row, purse, pledges, payments, history, mishaps>>
deskVars == <<vars, desk>>

NoLoan == [pc |-> "idle", job |-> 0, borrower |-> NoAddr, lender |-> NoAddr, advance |-> 0,
           pledge |-> 0, since |-> 0]

DeskInit ==
    /\ Init
    /\ loan = [r \in Requests |-> NoLoan]
    /\ row = [r \in Requests |-> "none"]
    /\ purse = [l \in Lenders |-> PURSE]
    /\ pledges = {} /\ payments = {}
    /\ lent = {} /\ hollow = {} /\ unheard = {}
    /\ mishaps = 0

At(r, pc) == loan[r].pc = pc
Goto(r, pc) == loan' = [loan EXCEPT ![r].pc = pc]
End(r) == loan' = [loan EXCEPT ![r].pc = "done", ![r].since = 0]
Mishap == mishaps < MaxMishaps /\ mishaps' = mishaps + 1
collateral(r) == jobs[loan[r].job]

-----------------------------------------------------------------------------
(* The quote, in cents, percent and hundredths of a percent.                *)

within(lo, x, hi) == IF x < lo THEN lo ELSE IF x > hi THEN hi ELSE x
least(x, y) == IF x < y THEN x ELSE y

LTV_COLD_START == 50
LTV_MIN == 25
LTV_MAX == 90
LTV_CONFIDENCE_ATTEMPTS == 5

(* Shrunk toward the cold start while the attempts are few.                 *)
orchestrationLtv(record) ==
    LET a == record.attempts
        blended == IF a < LTV_CONFIDENCE_ATTEMPTS
                   THEN LTV_COLD_START + (10 * (2 * record.completed - a))
                   ELSE (200 * record.completed + a) \div (2 * a)
    IN  within(LTV_MIN, blended, LTV_MAX)

STEP_UP_MULTIPLE == 2
advanceLimit(bounty, record) ==
    LET byRatio == bounty * orchestrationLtv(record)
        ceiling == IF record.completed = 0 THEN byRatio
                   ELSE least(byRatio, 100 * STEP_UP_MULTIPLE * record.largest)
    IN  (ceiling + 50) \div 100

FEE_RATE_MIN == 200
FEE_RATE_MAX == 1000
feeRate(ltv) ==
    LET span == LTV_MAX - LTV_MIN
        rate == span * FEE_RATE_MAX - (FEE_RATE_MAX - FEE_RATE_MIN) * (ltv - LTV_MIN)
    IN  (2 * rate + span) \div (2 * span)

MIN_ADVANCE == 100
fee(amount, rate) == (amount * rate + 9999) \div 10000

(* How much of what was asked is advanced.  A pledge that passes the bounty *)
(* is shaved by a cent until it fits.                                       *)
quoteAdvance(bounty, record, asked) ==
    LET rate == feeRate(orchestrationLtv(record))
        byBounty == (bounty * 10000) \div (10000 + rate)
        available == least(advanceLimit(bounty, record), byBounty)
        shaved[x \in 0..bounty] == IF x = 0 \/ x + fee(x, rate) <= bounty THEN x ELSE shaved[x - 1]
    IN  shaved[least(available, asked)]

runway_slip(j) == now < jobs[j].deliveryDeadline
runway(j) == now + MIN_RUNWAY <= jobs[j].deliveryDeadline

(* offerFor, and the lender's balance.                                      *)
Quote(r, j, borrower, lender, record, asked) ==
    LET advance == quoteAdvance(jobs[j].bounty, record, asked)
    IN  /\ At(r, "idle") /\ borrower # lender
        /\ jobs[j].status = "Accepted" /\ jobs[j].worker = borrower
        /\ jobs[j].payee = NoAddr
        /\ runway(j)
        /\ advance \in MIN_ADVANCE..jobs[j].bounty
        /\ purse[lender] >= advance
        /\ loan' = [loan EXCEPT ![r] =
               [pc |-> "row", job |-> j, borrower |-> borrower, lender |-> lender, since |-> now,
                advance |-> advance,
                pledge |-> advance + fee(advance, feeRate(orchestrationLtv(record)))]]
        /\ UNCHANGED <<vars, row, purse, pledges, payments, history, mishaps>>

-----------------------------------------------------------------------------
(* The row, under the partial unique index.                                 *)

liveAdvance_slip(j) == FALSE
liveAdvance(j) == \E r \in Requests : loan[r].job = j /\ row[r] \notin {"none", "failed"}

InsertRow(r) ==
    /\ At(r, "row")
    /\ IF liveAdvance(loan[r].job)
       THEN End(r) /\ row' = row
       ELSE Goto(r, "assign") /\ row' = [row EXCEPT ![r] = "pledging"]
    /\ UNCHANGED <<vars, purse, pledges, payments, history, mishaps>>

(* fail(): the write may be lost, and nobody hears of it.                   *)
Fail(r) ==
    /\ At(r, "fail")
    /\ End(r)
    /\ \/ row' = [row EXCEPT ![r] = "failed"] /\ UNCHANGED mishaps
       \/ row' = row /\ Mishap
    /\ UNCHANGED <<vars, purse, pledges, payments, history>>

-----------------------------------------------------------------------------
(* The pledge: assignPayee, sent by the borrower, and the lien read back.   *)

assignable(r) ==
    /\ collateral(r).status = "Accepted"
    /\ now < collateral(r).deliveryDeadline
    /\ collateral(r).payee = NoAddr

SendAssign(r) ==
    /\ At(r, "assign")
    /\ IF assignable(r)
       THEN Goto(r, "assigning") /\ pledges' = pledges \cup {r}
       ELSE Goto(r, "fail") /\ pledges' = pledges
    /\ UNCHANGED <<vars, row, purse, payments, history, mishaps>>

AssignMined(r) ==
    /\ r \in pledges
    /\ pledges' = pledges \ {r}
    /\ IF assignable(r)
       THEN assignPayee(loan[r].borrower, loan[r].job, loan[r].lender, loan[r].pledge)
       ELSE UNCHANGED vars
    /\ UNCHANGED <<loan, row, purse, payments, history, mishaps>>

AssignHeard(r) ==
    /\ At(r, "assigning") /\ r \notin pledges
    /\ Goto(r, "verify")
    /\ UNCHANGED <<vars, row, purse, pledges, payments, history, mishaps>>

AssignUnheard(r) ==
    /\ At(r, "assigning") /\ r \in pledges
    /\ Mishap
    /\ Goto(r, "fail")
    /\ UNCHANGED <<vars, row, purse, pledges, payments, history>>

(* A hash is taken for a lien.                                              *)
verifyLien_slip(r) == TRUE
verifyLien(r) ==
    LET split == releaseSplit(loan[r].job)
    IN  split.payee = loan[r].lender /\ split.toPayee + 1 >= loan[r].pledge

Verify(r) ==
    /\ At(r, "verify")
    /\ Goto(r, IF verifyLien(r) THEN "pay" ELSE "fail")
    /\ UNCHANGED <<vars, row, purse, pledges, payments, history, mishaps>>

-----------------------------------------------------------------------------
(* The money: transferUsdc, sent by the lender.                             *)

canPay(r) == purse[loan[r].lender] >= loan[r].advance

(* The send may also be refused: gas, the bundler, the network.             *)
SendPay(r) ==
    /\ At(r, "pay")
    /\ \/ canPay(r) /\ Goto(r, "paying") /\ payments' = payments \cup {r} /\ UNCHANGED mishaps
       \/ Goto(r, "fail") /\ payments' = payments
          /\ IF canPay(r) THEN Mishap ELSE UNCHANGED mishaps
    /\ UNCHANGED <<vars, row, purse, pledges, history>>

PayMined(r) ==
    /\ r \in payments
    /\ payments' = payments \ {r}
    /\ IF canPay(r)
       THEN /\ purse' = [purse EXCEPT ![loan[r].lender] = @ - loan[r].advance]
            /\ lent' = lent \cup {r} /\ hollow' = hollow
       ELSE /\ hollow' = hollow \cup {r}
            /\ UNCHANGED <<purse, lent>>
    /\ UNCHANGED <<vars, loan, row, pledges, unheard, mishaps>>

PayHeard(r) ==
    /\ At(r, "paying") /\ r \notin payments
    /\ Goto(r, "record")
    /\ UNCHANGED <<vars, row, purse, pledges, payments, history, mishaps>>

(* What has been sent is taken to have arrived.                             *)
PayUnheard_slip(r) ==
    /\ At(r, "paying") /\ r \in payments
    /\ Mishap
    /\ unheard' = unheard \cup {r}
    /\ Goto(r, "record")
    /\ UNCHANGED <<vars, row, purse, pledges, payments, lent, hollow>>
PayUnheard(r) ==
    /\ At(r, "paying") /\ r \in payments
    /\ Mishap
    /\ unheard' = unheard \cup {r}
    /\ Goto(r, "fail")
    /\ UNCHANGED <<vars, row, purse, pledges, payments, lent, hollow>>

(* The last write, which throws when it fails.                              *)
Record(r) ==
    /\ At(r, "record")
    /\ End(r)
    /\ \/ row' = [row EXCEPT ![r] = "open"] /\ UNCHANGED mishaps
       \/ row' = row /\ Mishap
    /\ UNCHANGED <<vars, purse, pledges, payments, history>>

-----------------------------------------------------------------------------
live(r) == loan[r].pc \notin {"idle", "done"}

Die(r) ==
    /\ live(r)
    /\ Mishap
    /\ End(r)
    /\ UNCHANGED <<vars, row, purse, pledges, payments, history>>

(* A lender's agent spends its balance on something else.                   *)
SpendElsewhere(l) ==
    /\ purse[l] > 0
    /\ purse' = [purse EXCEPT ![l] = 0]
    /\ UNCHANGED <<vars, loan, row, pledges, payments, history, mishaps>>

(* The parties to the job.  Nobody pledges it but through the desk.         *)
Parties ==
    /\ \/ \E m \in Addr, b \in Bounties, s \in Scores, w \in Windows : postJob(m, b, s, w)
       \/ \E j \in JobIds : exit(j)
       \/ \E m \in Addr, j \in JobIds :
             \/ \E answer \in Scores \cup {NoScore} : acceptJob(m, j, answer)
             \/ submitWork(m, j) \/ approveJob(m, j) \/ raiseDispute(m, j) \/ cancelJob(m, j)
             \/ \E verdict \in BOOLEAN : resolveDispute(m, j, verdict)
    /\ UNCHANGED desk

(* No invocation outlives LIFE.  The clock stops when no job waits for it.  *)
DeskTick ==
    /\ \E j \in JobIds : Live(j) /\ now < Deadline(j)
    /\ \A r \in Requests : live(r) => now < loan[r].since + LIFE
    /\ Tick
    /\ UNCHANGED desk

Step(r) ==
    \/ InsertRow(r) \/ Fail(r)
    \/ SendAssign(r) \/ AssignMined(r) \/ AssignHeard(r) \/ AssignUnheard(r)
    \/ Verify(r)
    \/ SendPay(r) \/ PayMined(r) \/ PayHeard(r) \/ PayUnheard(r)
    \/ Record(r) \/ Die(r)

DeskNext ==
    \/ Parties
    \/ DeskTick
    \/ \E l \in Lenders : SpendElsewhere(l)
    \/ \E r \in Requests :
          \/ Step(r)
          \/ \E j \in JobIds, m \in Addr, l \in Lenders, record \in Records, asked \in Asked :
                Quote(r, j, m, l, record, asked)

DeskSpec == DeskInit /\ [][DeskNext]_deskVars

-----------------------------------------------------------------------------
(* "Lien first, money second": whenever a lender's money moves, the job is  *)
(* pledged to it for what was agreed (less the cent verifyLien allows).  If *)
(* the request is still there to see it, the job can still be delivered     *)
(* or is past delivery: it is not one that can only be reclaimed.           *)
pledged(r) ==
    collateral(r).payee = loan[r].lender /\ collateral(r).payeeAmount + 1 >= loan[r].pledge
reclaimable(r) == collateral(r).status = "Accepted" /\ now >= collateral(r).deliveryDeadline
LienBeforeMoney ==
    [][\A r \in lent' \ lent : pledged(r) /\ (At(r, "paying") => ~reclaimable(r))]_deskVars

(* One lien secures one advance: when the job is released its lender is     *)
(* credited with everything it was promised for the money that moved.       *)
owed(j, l) ==
    LET promised == [r \in Requests |-> loan[r].pledge]
    IN  MapThenSumSet(LAMBDA r : promised[r], {r \in lent : loan[r].job = j /\ loan[r].lender = l})
LentIsRepaid ==
    \A j \in JobIds, l \in Lenders :
        jobs[j].status = "Completed" => credits[j][l] + 1 >= owed(j, l)

(* What the rows say of the money: an open advance was paid, unless its     *)
(* transfer reverted as it was mined; a failed one was not, unless nobody   *)
(* saw its transfer mined; and no lien and no payment is without a row.     *)
RowsTellTheTruth ==
    /\ \A r \in Requests :
          /\ row[r] = "open" => r \in lent \cup hollow
          /\ row[r] = "failed" => r \notin lent \/ r \in unheard
          /\ r \in lent => row[r] # "none"
    /\ \A j \in JobIds :
          jobs[j].payee # NoAddr =>
              \E r \in Requests : loan[r].job = j /\ loan[r].lender = jobs[j].payee /\ row[r] # "none"
=============================================================================
