---------------------------- MODULE KeeperSweeps ----------------------------
(***************************************************************************)
(* What calls the V2 contract's exits when nobody else does: three steps   *)
(* of the ops cycle (lib/ops-cycle), each a capped pass under a lease of   *)
(* its own (lib/ops-lease).  The dispute gate refunds what its evidence    *)
(* allows (lib/dispute-gate), the deadline sweep calls the exits that are  *)
(* due (lib/deadline-sweep, lib/deadlines), the withdrawal sweep collects  *)
(* what settlement credited (lib/withdraw-sweep).                          *)
(*                                                                         *)
(* A definition named X_slip is X with a mistake a change could make.      *)
(*                                                                         *)
(* Abstractions.  The chain is the status of each job and the balances; a  *)
(* deadline passes at any moment.  Job j's worker is account j, the        *)
(* requester of all of them is account 0; a bounty is ten units and fees   *)
(* and bonds are left out.  RefundDue says which disputes the evidence     *)
(* refunds; of the others, whether there is a spec to rule on is a choice. *)
(* The steps of the cycle that are not these three only take time.         *)
(***************************************************************************)
EXTENDS Integers, FiniteSets, Sequences, SequencesExt

CONSTANTS
    NumJobs,
    Cycles,                 \* invocations of runOpsCycle
    MAX_RULINGS_PER_PASS, MAX_EXITS_PER_PASS, MAX_WITHDRAWALS_PER_PASS,
    MIN_WITHDRAW,
    Blocked,                \* accounts whose withdrawal reverts
    Held,                   \* jobs whose exit keeps failing
    RefundDue,              \* jobs whose dispute the evidence refunds
    LEASE, LIFE,            \* of a step's lease, of an invocation
    MaxFaults               \* bound: deaths, failed calls and lost writes

ASSUME KeeperAssumption ==
    {NumJobs, MAX_RULINGS_PER_PASS, MAX_EXITS_PER_PASS, MAX_WITHDRAWALS_PER_PASS, MIN_WITHDRAW,
     LEASE, LIFE} \subseteq Nat \ {0}

Jobs == 1..NumJobs
Accounts == 0..NumJobs
Steps == <<"disputeGate", "deadlines", "withdrawals">>
Sweeps == ToSet(Steps)
NONE == -1                  \* no row in ops_leases

VARIABLES
    status,     \* of each job on the chain
    lapsed,     \* the jobs whose present deadline has passed, the earliest first
    credit,     \* withdrawable
    mempool,    \* refunds sent, and not yet mined or dropped
    rulings,    \* dispute_ruling
    lease,      \* ops_leases: what is left of each
    cycle,      \* each invocation's local state
    lost,       \* history: jobs a refund was sent for that came to nothing
    faults

vars == <<status, lapsed, credit, mempool, rulings, lease, cycle, lost, faults>>
Chain == <<status, lapsed, credit>>

Idle == [pc |-> "idle", step |-> 1, todo |-> <<>>, ruled |-> 0, life |-> 0]

Init ==
    /\ status = [j \in Jobs |-> "Open"]
    /\ lapsed = <<>>
    /\ credit = [a \in Accounts |-> 0]
    /\ mempool = {}
    /\ rulings = {}
    /\ lease = [s \in Sweeps |-> NONE]
    /\ cycle = [c \in Cycles |-> Idle]
    /\ lost = {}
    /\ faults = 0

Fault == faults < MaxFaults /\ faults' = faults + 1
step(c) == Steps[cycle[c].step]
At(c, s, pc) == cycle[c].pc = pc /\ step(c) = s
Goto(c, label) == cycle' = [cycle EXCEPT ![c].pc = label]
Become(c, invocation) == cycle' = [cycle EXCEPT ![c] = invocation]
Move(c, entry) == cycle' = [cycle EXCEPT ![c].pc = entry.pc, ![c].todo = entry.todo]
current(c) == Head(cycle[c].todo)
(* The batch's next entry; after the last one the lease is given back.      *)
nextEntry(c) ==
    IF Len(cycle[c].todo) = 1 THEN [todo |-> <<>>, pc |-> "release"]
    ELSE [todo |-> Tail(cycle[c].todo), pc |-> "work"]

-----------------------------------------------------------------------------
(* The contract.                                                            *)

Disburse(a, amount) == credit' = [credit EXCEPT ![a] = @ + amount]
IsLapsed(j) == j \in ToSet(lapsed)
Leave(j, to) ==
    /\ status' = [status EXCEPT ![j] = to]
    /\ lapsed' = Remove(lapsed, j)

(* EXITS: the state an exit may be called in, where the money goes - after  *)
(* a silent review a tenth to the worker - and the state it leads to.       *)
callExit(j) ==
    \/ status[j] \in {"Open", "Accepted"} /\ Disburse(0, 10)
    \/ status[j] = "Submitted" /\ credit' = [credit EXCEPT ![j] = @ + 1, ![0] = @ + 9]
    \/ status[j] = "Disputed" /\ Disburse(j, 10)

exitTo(from) == IF from = "Accepted" THEN "Refunded" ELSE "Expired"

Lapse(j) ==
    /\ status[j] \in {"Open", "Accepted", "Submitted", "Disputed"} /\ ~IsLapsed(j)
    /\ lapsed' = Append(lapsed, j)
    /\ UNCHANGED <<status, credit, mempool, rulings, lease, cycle, lost, faults>>

(* A worker accepts and delivers, a requester approves or disputes, in time.*)
Parties(j) ==
    /\ ~IsLapsed(j)
    /\ \/ status[j] = "Open" /\ Leave(j, "Accepted") /\ UNCHANGED credit
       \/ status[j] = "Accepted" /\ Leave(j, "Submitted") /\ UNCHANGED credit
       \/ status[j] = "Submitted" /\ Leave(j, "Disputed") /\ UNCHANGED credit
       \/ status[j] = "Submitted" /\ Leave(j, "Completed") /\ Disburse(j, 10)
    /\ UNCHANGED <<mempool, rulings, lease, cycle, lost, faults>>

(* Anybody may call an exit that is due.                                    *)
Stranger(j) ==
    /\ IsLapsed(j)
    /\ callExit(j) /\ Leave(j, exitTo(status[j]))
    /\ UNCHANGED <<mempool, rulings, lease, cycle, lost, faults>>

(* A refund that was sent is mined, in a dispute that is still open or not. *)
Mine(j) ==
    /\ j \in mempool
    /\ mempool' = mempool \ {j}
    /\ IF status[j] = "Disputed"
       THEN Leave(j, "Refunded") /\ Disburse(0, 10) /\ UNCHANGED lost
       ELSE lost' = lost \cup {j} /\ UNCHANGED Chain
    /\ UNCHANGED <<rulings, lease, cycle, faults>>

Drop(j) ==
    /\ j \in mempool
    /\ Fault
    /\ mempool' = mempool \ {j}
    /\ lost' = lost \cup {j}
    /\ UNCHANGED <<Chain, rulings, lease, cycle>>

-----------------------------------------------------------------------------
(* runOpsCycle: one step after the other, whatever became of the last.      *)

Begin(c) ==
    /\ cycle[c].pc = "idle"
    /\ Goto(c, "lease")
    /\ UNCHANGED <<Chain, mempool, rulings, lease, lost, faults>>

nextStep(c) ==
    IF cycle[c].step = Len(Steps) THEN Idle
    ELSE [Idle EXCEPT !.pc = "lease", !.step = cycle[c].step + 1, !.life = cycle[c].life]

(* INSERT .. ON CONFLICT DO UPDATE .. WHERE leased_until < now().           *)
isFree_slip(s) == lease[s] = NONE       \* ON CONFLICT DO NOTHING
isFree(s) == lease[s] <= 0
acquireOpsLease(c) ==
    /\ cycle[c].pc = "lease"
    /\ IF isFree(step(c))
       THEN lease' = [lease EXCEPT ![step(c)] = LEASE] /\ Goto(c, "read")
       ELSE UNCHANGED lease /\ Become(c, nextStep(c))
    /\ UNCHANGED <<Chain, mempool, rulings, lost, faults>>

(* The pass throws, or the soft budget is spent: the steps behind wait for  *)
(* another cycle.                                                           *)
Skip(c) ==
    /\ cycle[c].pc = "lease"
    /\ Fault
    /\ Become(c, Idle)
    /\ UNCHANGED <<Chain, mempool, rulings, lease, lost>>

(* DELETE .. WHERE name = .., in a finally: whoever holds it by now.        *)
releaseOpsLease(c) ==
    /\ cycle[c].pc = "release"
    /\ lease' = [lease EXCEPT ![step(c)] = NONE]
    /\ Become(c, nextStep(c))
    /\ UNCHANGED <<Chain, mempool, rulings, lost, faults>>

capped(seq, max) == SubSeq(seq, 1, IF Len(seq) < max THEN Len(seq) ELSE max)
startPass(c, batch) ==
    Move(c, [pc |-> IF batch = <<>> THEN "release" ELSE "work", todo |-> batch])

-----------------------------------------------------------------------------
(* sweepDeadlines.                                                          *)

dueDeadlines == lapsed                  \* the earliest deadline first
ReadDeadlines(c) ==
    /\ At(c, "deadlines", "read")
    /\ startPass(c, LET batch == capped(dueDeadlines, MAX_EXITS_PER_PASS)
                    IN  [i \in DOMAIN batch |-> <<batch[i], status[batch[i]]>>])
    /\ UNCHANGED <<Chain, mempool, rulings, lease, lost, faults>>

(* One exit.  It reverts if the job has moved on since it was read, or if   *)
(* its call keeps failing; what reverts is caught.                          *)
afterFailure_slip(c) == [todo |-> <<>>, pc |-> "release"]     \* the error ends the pass
afterFailure(c) == nextEntry(c)
CallExit(c) ==
    LET j == current(c)[1] fn == current(c)[2]
        callable == status[j] = fn /\ IsLapsed(j) /\ j \notin Held
    IN  /\ At(c, "deadlines", "work")
        /\ IF callable
           THEN /\ callExit(j) /\ Leave(j, exitTo(fn))
                /\ Move(c, nextEntry(c))
           ELSE UNCHANGED Chain /\ Move(c, afterFailure(c))
        /\ UNCHANGED <<mempool, rulings, lease, lost, faults>>

-----------------------------------------------------------------------------
(* sweepWithdrawals.                                                        *)

dueWithdrawals ==                       \* the largest first
    SetToSortSeq({a \in Accounts : credit[a] >= MIN_WITHDRAW},
                 LAMBDA a, b : credit[a] > credit[b] \/ (credit[a] = credit[b] /\ a < b))
ReadBalances(c) ==
    /\ At(c, "withdrawals", "read")
    /\ startPass(c, capped(dueWithdrawals, MAX_WITHDRAWALS_PER_PASS))
    /\ UNCHANGED <<Chain, mempool, rulings, lease, lost, faults>>

Withdraw(c) ==
    LET a == current(c)
    IN  /\ At(c, "withdrawals", "work")
        /\ IF a \notin Blocked
           THEN credit' = [credit EXCEPT ![a] = 0] /\ Move(c, nextEntry(c))
           ELSE UNCHANGED credit /\ Move(c, afterFailure(c))
        /\ UNCHANGED <<status, lapsed, mempool, rulings, lease, lost, faults>>

-----------------------------------------------------------------------------
(* settleDisputes.                                                          *)

ReadDisputes(c) ==
    /\ At(c, "disputeGate", "read")
    /\ startPass(c, SetToSortSeq({j \in Jobs : status[j] = "Disputed"}, <))
    /\ UNCHANGED <<Chain, mempool, rulings, lease, lost, faults>>

(* The loop ends early once enough has been ruled.                          *)
afterRuling_slip(c, n) ==               \* one too few
    IF n + 1 >= MAX_RULINGS_PER_PASS THEN [nextEntry(c) EXCEPT !.pc = "release"] ELSE nextEntry(c)
afterRuling(c, n) ==
    IF n >= MAX_RULINGS_PER_PASS THEN [nextEntry(c) EXCEPT !.pc = "release"] ELSE nextEntry(c)
Ruled(c, n) ==
    cycle' = [cycle EXCEPT ![c].pc = afterRuling(c, n).pc, ![c].todo = afterRuling(c, n).todo, ![c].ruled = n]

(* ruleOn.  Without a spec there is no ruling; a ruling that leaves the job *)
(* to its deadline is recorded; a refund is sent first, by a transaction    *)
(* nobody waits for, which is refused at once if the dispute is over.       *)
Rule_slip(c) ==                         \* recorded although the refund was refused
    LET j == current(c)
        n == cycle[c].ruled + 1
    IN  /\ At(c, "disputeGate", "work")
        /\ j \in RefundDue
        /\ mempool' = IF status[j] = "Disputed" THEN mempool \cup {j} ELSE mempool
        /\ cycle' = [cycle EXCEPT ![c].pc = "record", ![c].ruled = n]
        /\ UNCHANGED <<Chain, rulings, lease, lost, faults>>
Rule(c) ==
    LET j == current(c)
        n == cycle[c].ruled + 1
    IN  /\ At(c, "disputeGate", "work")
        /\ \/ /\ j \notin RefundDue
              /\ Ruled(c, n - 1) /\ UNCHANGED mempool
           \/ /\ j \notin RefundDue
              /\ cycle' = [cycle EXCEPT ![c].pc = "record", ![c].ruled = n] /\ UNCHANGED mempool
           \/ /\ j \in RefundDue /\ status[j] = "Disputed"
              /\ mempool' = mempool \cup {j}
              /\ cycle' = [cycle EXCEPT ![c].pc = "record", ![c].ruled = n]
           \/ /\ j \in RefundDue /\ status[j] # "Disputed"
              /\ Ruled(c, n) /\ UNCHANGED mempool
        /\ UNCHANGED <<Chain, rulings, lease, lost, faults>>

RecordRuling(c) ==
    /\ At(c, "disputeGate", "record")
    /\ rulings' = rulings \cup {<<current(c), IF current(c) \in RefundDue THEN "refund" ELSE "no_refund">>}
    /\ Ruled(c, cycle[c].ruled)
    /\ UNCHANGED <<Chain, mempool, lease, lost, faults>>

-----------------------------------------------------------------------------
(* A call, a send, a write or a release fails; the failure is caught.       *)
CallFails(c) ==
    /\ cycle[c].pc \in {"work", "record", "release"}
    /\ Fault
    /\ IF cycle[c].pc = "release" THEN Become(c, nextStep(c))
       ELSE IF step(c) # "disputeGate" THEN Move(c, afterFailure(c))
       ELSE \E n \in IF cycle[c].pc = "record" THEN {cycle[c].ruled} ELSE {cycle[c].ruled, cycle[c].ruled + 1} :
                Ruled(c, n)
    /\ UNCHANGED <<Chain, mempool, rulings, lease, lost>>

Crash(c) ==
    /\ cycle[c].pc # "idle"
    /\ Fault
    /\ Become(c, Idle)
    /\ UNCHANGED <<Chain, mempool, rulings, lease, lost>>

Tick ==
    /\ \A c \in Cycles : cycle[c].life < LIFE
    /\ lease' = [s \in Sweeps |-> IF lease[s] > 0 THEN lease[s] - 1 ELSE lease[s]]
    /\ cycle' = [c \in Cycles |-> IF cycle[c].pc = "idle" THEN Idle ELSE [cycle[c] EXCEPT !.life = @ + 1]]
    /\ UNCHANGED <<Chain, mempool, rulings, lost, faults>>

Advance(c) ==
    \/ acquireOpsLease(c) \/ releaseOpsLease(c)
    \/ ReadDeadlines(c) \/ CallExit(c)
    \/ ReadBalances(c) \/ Withdraw(c)
    \/ ReadDisputes(c) \/ Rule(c) \/ RecordRuling(c)

Next ==
    \/ \E c \in Cycles : Begin(c) \/ Advance(c) \/ Skip(c) \/ CallFails(c) \/ Crash(c)
    \/ \E j \in Jobs : Lapse(j) \/ Parties(j) \/ Stranger(j) \/ Mine(j) \/ Drop(j)
    \/ Tick

Spec == Init /\ [][Next]_vars

(* A live invocation gets on, cycles come round again, time passes, what is *)
(* sent is mined or dropped.  Nothing is asked of the parties.              *)
FairSpec ==
    /\ Spec
    /\ \A c \in Cycles : WF_vars(Begin(c)) /\ WF_vars(Advance(c))
    /\ \A j \in Jobs : WF_vars(Mine(j))
    /\ WF_vars(Tick)

-----------------------------------------------------------------------------
(* Every due exit is called in the end, although the pass is capped, passes *)
(* die, and some exits keep failing - fewer than a pass takes.              *)
EveryDueExitIsCalled == \A j \in Jobs : IsLapsed(j) /\ j \notin Held ~> ~IsLapsed(j)

(* Every balance worth a transaction is collected in the end, although some *)
(* accounts' withdrawals keep reverting - fewer than a pass takes.          *)
EveryBalanceIsCollected ==
    \A a \in Accounts : credit[a] >= MIN_WITHDRAW /\ a \notin Blocked ~> credit[a] = 0

(* A dispute whose evidence carries a refund is refunded unless its         *)
(* deadline comes first, or a refund was sent and dropped, or as many       *)
(* disputes as a pass rules on stand before it with a ruling that changes   *)
(* nothing.                                                                 *)
crowdedOut(j) ==
    Cardinality({i \in 1..(j - 1) : status[i] = "Disputed"})
        >= MAX_RULINGS_PER_PASS
EveryRefundIsMade ==
    \A j \in Jobs :
        status[j] = "Disputed" /\ j \in RefundDue ~>
            status[j] # "Disputed" \/ IsLapsed(j) \/ crowdedOut(j)

(* A published refund happened, or is on its way, or was sent and came to   *)
(* nothing after it was sent; a refund nobody sent is never published.      *)
RulingsWereSent ==
    \A j \in Jobs : <<j, "refund">> \in rulings => status[j] = "Refunded" \/ j \in mempool \cup lost
=============================================================================
