--------------------------- MODULE SettlementQueue ---------------------------
(***************************************************************************)
(* Settling a delivered task: the runtime callback                         *)
(* (app/api/runtime/callback), the settlement itself (lib/callback/settle, *)
(* lib/callback/labor-market), and the queue under both of them            *)
(* (lib/callback/settlement-queue, settlement-drain).                      *)
(*                                                                         *)
(* A worker posts what it made.  The callback stores it, writes a pending  *)
(* row, and settles in the same request.  Passes of the ops cycle drain    *)
(* the rows that are still pending.  Every invocation may die at any await.*)
(*                                                                         *)
(* A definition named X_slip is X with a mistake a change could make.      *)
(*                                                                         *)
(* Abstractions.  A submission is its number.  The tasks are runs of       *)
(* accepted labour-market jobs on the V2 market, where a failed grade      *)
(* moves nothing (lib/dispute-policy.ts); the proving ground's lane, the   *)
(* artifacts and the lifecycle events are left out.  Which of the due rows *)
(* a drain takes is a choice.  Time is counted in units of half an         *)
(* invocation's life or more.                                              *)
(***************************************************************************)
EXTENDS Integers, FiniteSets, Sequences, SequencesExt, FiniteSetsExt

CONSTANTS
    Tasks,
    Callbacks,              \* invocations of the callback route
    Drains,                 \* invocations that reach drainSettlementQueue
    DRAIN_BATCH,
    LOCK_TIMEOUT,
    LIFE,                   \* maxDuration of the routes that settle
    MAX_SETTLEMENT_ATTEMPTS,
    BASE_BACKOFF, MAX_BACKOFF,
    MAX_GRADING_ATTEMPTS,
    MaxRounds, MaxFaults    \* bounds: submissions of a task, crashes and lost writes

ASSUME ConstantsOk ==
    /\ {DRAIN_BATCH, LIFE, MAX_SETTLEMENT_ATTEMPTS, BASE_BACKOFF, MAX_BACKOFF} \subseteq Nat \ {0}
    /\ LOCK_TIMEOUT \in Nat /\ LOCK_TIMEOUT > LIFE
    /\ Callbacks \cap Drains = {}
    /\ IsFiniteSet(Tasks)

Proc == Callbacks \cup Drains
NoRow == [status |-> "none", attempts |-> 0, lock |-> -1, wait |-> 0]
NULL == -1                  \* locked_at IS NULL

VARIABLES
    task,       \* agent_task.status
    round,      \* the submission agent_task.output holds
    row,        \* settlement_queue: lock and wait count down to zero
    job,        \* the job on the chain
    attempts,   \* graded attempts in job_spec.testResult, up to the most allowed
    proc,       \* each invocation's local state
    events,     \* the JOB_TESTS_* credit events of a job: 0, 1, or 2 for more
    returned,   \* history: the submissions whose settleTask returned
    swallowed,  \* history: those of them an attempt at which threw and was caught inside
    unlocked,   \* history: tasks deferred while another invocation settled them
    faults      \* crashes and lost writes so far

vars == <<task, round, row, job, attempts, proc, events, returned, swallowed, unlocked, faults>>
Stored == <<task, round>>
Outcome == <<job, attempts, events, returned, swallowed>>

Idle == [pc |-> "idle", todo |-> <<>>, work |-> 0, prior |-> 0, verdict |-> "none",
         again |-> FALSE, life |-> 0]

Init ==
    /\ task = [t \in Tasks |-> "running"]
    /\ round = [t \in Tasks |-> 0]
    /\ row = [t \in Tasks |-> NoRow]
    /\ job = [t \in Tasks |-> "Accepted"]
    /\ attempts = [t \in Tasks |-> 0]
    /\ proc = [p \in Proc |-> Idle]
    /\ events = [t \in Tasks |-> 0]
    /\ returned = [t \in Tasks |-> {}]
    /\ swallowed = [t \in Tasks |-> {}]
    /\ unlocked = {}
    /\ faults = 0

At(p, pc) == proc[p].pc = pc
Step(p, changes) ==
    proc' = [proc EXCEPT ![p] = [f \in DOMAIN @ |-> IF f \in DOMAIN changes THEN changes[f] ELSE @[f]]]
current(p) == Head(proc[p].todo)
next(p) ==                              \* the drain's loop goes on, or the request ends
    IF Len(proc[p].todo) = 1 THEN Idle
    ELSE [Idle EXCEPT !.pc = "settle", !.todo = Tail(proc[p].todo), !.life = proc[p].life]
(* p has t to settle, now or later in its batch: deferring the row, or a     *)
(* drain's dispatch of a retry, comes after the attempt.                     *)
settling(p, t) ==
    /\ t \in ToSet(proc[p].todo)
    /\ t = current(p) => ~At(p, "backoff") /\ ~(p \in Drains /\ At(p, "rerun"))

Fault == faults < MaxFaults /\ faults' = faults + 1

-----------------------------------------------------------------------------
(* The callback: store the deliverable, then record that it is owed a       *)
(* settlement, then settle.                                                 *)

(* The atomic claim running -> processing; any other status is ignored.     *)
Claim(c, t) ==
    /\ c \in Callbacks /\ At(c, "idle")
    /\ task[t] = "running" /\ round[t] < MaxRounds
    /\ task' = [task EXCEPT ![t] = "processing"]
    /\ Step(c, [pc |-> "store", todo |-> <<t>>])
    /\ UNCHANGED <<round, row, Outcome, unlocked, faults>>

Store(c) ==
    LET t == current(c)
    IN  /\ At(c, "store")
        /\ task' = [task EXCEPT ![t] = "completed"]
        /\ round' = [round EXCEPT ![t] = @ + 1]
        /\ Step(c, [pc |-> "enqueue", work |-> round[t] + 1])
        /\ UNCHANGED <<row, Outcome, unlocked, faults>>

(* The artifacts do not validate, or the deliverable cannot be stored.      *)
StoreFails(c) ==
    /\ At(c, "store")
    /\ task' = [task EXCEPT ![current(c)] = "failed"]
    /\ Step(c, Idle)
    /\ UNCHANGED <<round, row, Outcome, unlocked, faults>>

(* INSERT .. ON CONFLICT (task_id) DO NOTHING.                              *)
enqueueSettlement(c) ==
    LET t == current(c)
    IN  /\ At(c, "enqueue")
        /\ row' = IF row[t] = NoRow THEN [row EXCEPT ![t].status = "pending"] ELSE row
        /\ Step(c, [pc |-> "settle"])
        /\ UNCHANGED <<Stored, Outcome, unlocked, faults>>

(* "Treat as losing the safety net rather than as a reason to stop."        *)
EnqueueFails(c) ==
    /\ At(c, "enqueue")
    /\ Fault
    /\ Step(c, [pc |-> "settle"])
    /\ UNCHANGED <<Stored, row, Outcome, unlocked>>

-----------------------------------------------------------------------------
(* settleTask, of one task, by a callback or a drain.                       *)

(* The job's spec, and for a drain the deliverable, as they are now.        *)
Read(p) ==
    LET t == current(p)
    IN  /\ At(p, "settle")
        /\ Step(p, [pc |-> "grade", prior |-> attempts[t],
                    work |-> IF p \in Drains THEN round[t] ELSE proc[p].work])
        /\ UNCHANGED <<Stored, row, Outcome, unlocked, faults>>

Verdicts == {"passed", "failed", "unavailable"}
Runway == BOOLEAN           \* whether a readable deadline leaves room for an attempt

(* decideGradingRetry: a failed grade is answered, by the same worker on the *)
(* same job, while attempts and delivery window remain.                     *)
decideGradingRetry(t, count, runway) ==
    /\ count < MAX_GRADING_ATTEMPTS
    /\ job[t] = "Accepted" /\ runway
oneMore(p) == Min({MAX_GRADING_ATTEMPTS, proc[p].prior + 1})

(* A failed grade that is answered: nothing is submitted, no event.         *)
Retry(p) ==
    LET t == current(p)
    IN  /\ At(p, "grade")
        /\ \E runway \in Runway : decideGradingRetry(t, oneMore(p), runway)
        /\ attempts' = [attempts EXCEPT ![t] = oneMore(p)]
        /\ Step(p, [pc |-> "credit", prior |-> 0, again |-> TRUE])
        /\ UNCHANGED <<Stored, row, job, events, returned, swallowed, unlocked, faults>>

(* A refusal of the brief is written down and settles nothing.              *)
Refuse(p) ==
    /\ At(p, "grade")
    /\ attempts' = [attempts EXCEPT ![current(p)] = 0]
    /\ Step(p, [pc |-> "credit", prior |-> 0])
    /\ UNCHANGED <<Stored, row, job, events, returned, swallowed, unlocked, faults>>

(* A verdict that settles is submitted first.  submitWork wants an Accepted *)
(* job; that it failed is logged.                                           *)
Submit(p) ==
    LET t == current(p)
    IN  /\ At(p, "grade")
        /\ \E verdict \in Verdicts :
              /\ verdict = "failed" =>
                    \E runway \in Runway : ~decideGradingRetry(t, oneMore(p), runway)
              /\ Step(p, [pc |-> "record", verdict |-> verdict])
        /\ \/ job[t] = "Accepted" /\ job' = [job EXCEPT ![t] = "Submitted"]
           \/ UNCHANGED job
        /\ UNCHANGED <<Stored, row, attempts, events, returned, swallowed, unlocked, faults>>

Record(p) ==
    /\ At(p, "record")
    /\ IF proc[p].verdict = "unavailable"
       THEN /\ attempts' = [attempts EXCEPT ![current(p)] = proc[p].prior]
            /\ Step(p, [pc |-> "credit", prior |-> 0, verdict |-> "none"])
       ELSE /\ attempts' = [attempts EXCEPT ![current(p)] = oneMore(p)]
            /\ Step(p, [pc |-> "event", prior |-> 0])
    /\ UNCHANGED <<Stored, row, job, events, returned, swallowed, unlocked, faults>>

Event(p) ==
    /\ At(p, "event")
    /\ events' = [events EXCEPT ![current(p)] = Min({2, @ + 1})]
    /\ Step(p, [pc |-> IF proc[p].verdict = "passed" THEN "pay" ELSE "credit", verdict |-> "none"])
    /\ UNCHANGED <<Stored, row, job, attempts, returned, swallowed, unlocked, faults>>

(* autoApprovePassedJob: declined, held, failed and logged, or done.        *)
Pay(p) ==
    LET t == current(p)
    IN  /\ At(p, "pay")
        /\ \/ job[t] = "Submitted" /\ job' = [job EXCEPT ![t] = "Completed"]
           \/ UNCHANGED job
        /\ Step(p, [pc |-> "credit"])
        /\ UNCHANGED <<Stored, row, attempts, events, returned, swallowed, unlocked, faults>>

(* The catch around all of that: settleLaborMarketJob returns null, as it   *)
(* does for a task that is no job's, and its callers close the row.         *)
Swallow(p) ==
    /\ proc[p].pc \in {"grade", "record", "event"}
    /\ swallowed' = [swallowed EXCEPT ![current(p)] = @ \cup {proc[p].work}]
    /\ Step(p, [pc |-> "credit", prior |-> 0, verdict |-> "none", again |-> FALSE])
    /\ UNCHANGED <<Stored, row, job, attempts, events, returned, unlocked, faults>>

(* The credit is recomputed and settleTask returns its verdict.             *)
Credit(p) ==
    /\ At(p, "credit")
    /\ returned' = [returned EXCEPT ![current(p)] = @ \cup {proc[p].work}]
    /\ Step(p, [pc |-> IF p \in Callbacks /\ proc[p].again THEN "rerun" ELSE "close", work |-> 0])
    /\ UNCHANGED <<Stored, row, job, attempts, events, swallowed, unlocked, faults>>

(* What throws lies before the grader and after it; in the callback, the    *)
(* reopening of the task as well.                                           *)
Throw_slip(p) ==                        \* an attempt that threw is closed like any other
    /\ proc[p].pc \in {"settle", "credit"}
    /\ Step(p, [pc |-> "close", work |-> 0, again |-> FALSE])
    /\ UNCHANGED <<Stored, row, Outcome, unlocked, faults>>
Throw(p) ==
    /\ proc[p].pc \in {"settle", "credit"} \/ (p \in Callbacks /\ At(p, "rerun"))
    /\ Step(p, [pc |-> "defer", work |-> 0, again |-> FALSE])
    /\ UNCHANGED <<Stored, row, Outcome, unlocked, faults>>

(* A retry verdict: the callback reopens the task and then closes the row,  *)
(* a drain closes the row and then dispatches the task again, or fails to.  *)
Rerun(p) ==
    /\ At(p, "rerun")
    /\ \/ task' = [task EXCEPT ![current(p)] = "running"]
       \/ p \in Drains /\ UNCHANGED task
    /\ IF p \in Drains THEN Step(p, next(p)) ELSE Step(p, [pc |-> "close", again |-> FALSE])
    /\ UNCHANGED <<round, row, Outcome, unlocked, faults>>

-----------------------------------------------------------------------------
(* The queue.                                                               *)

afterClose(p) ==
    IF p \in Drains /\ proc[p].again THEN [pc |-> "rerun"] ELSE next(p)

completeSettlement(p) ==
    LET t == current(p)
    IN  /\ At(p, "close")
        /\ row' = IF row[t] = NoRow THEN row
                  ELSE [row EXCEPT ![t].status = "done", ![t].lock = NULL]
        /\ Step(p, afterClose(p))
        /\ UNCHANGED <<Stored, Outcome, unlocked, faults>>

CloseFails(p) ==                        \* the row stays as it is
    /\ At(p, "close")
    /\ Fault
    /\ Step(p, afterClose(p))
    /\ UNCHANGED <<Stored, row, Outcome, unlocked>>

(* deferSettlement is two statements: count the attempt and release the     *)
(* lock, then set the backoff or give up.                                   *)
Count(p) ==
    LET t == current(p)
    IN  /\ At(p, "defer")
        /\ IF row[t] = NoRow THEN row' = row /\ Step(p, next(p))
           ELSE /\ row' = [row EXCEPT ![t].attempts = @ + 1, ![t].lock = NULL]
                /\ Step(p, [pc |-> "backoff", prior |-> row[t].attempts + 1])
        /\ unlocked' = IF \E q \in Proc \ {p} : settling(q, t) THEN unlocked \cup {t} ELSE unlocked
        /\ UNCHANGED <<Stored, Outcome, faults>>

backoff_slip(n) == BASE_BACKOFF * 2 ^ (n - 1)     \* not capped
backoff(n) == Min({MAX_BACKOFF, BASE_BACKOFF * 2 ^ (n - 1)})
hasGivenUp(n) == n >= MAX_SETTLEMENT_ATTEMPTS

Backoff(p) ==
    LET t == current(p)
    IN  /\ At(p, "backoff")
        /\ row' = IF hasGivenUp(proc[p].prior) THEN [row EXCEPT ![t].status = "abandoned"]
                  ELSE [row EXCEPT ![t].wait = backoff(proc[p].prior)]
        /\ Step(p, next(p))
        /\ UNCHANGED <<Stored, Outcome, unlocked, faults>>

DeferFails(p) ==
    /\ proc[p].pc \in {"defer", "backoff"}
    /\ Fault
    /\ Step(p, next(p))
    /\ UNCHANGED <<Stored, row, Outcome, unlocked>>

isDue_slip(t) == row[t].status = "pending" /\ row[t].wait = 0    \* the lock is not looked at
isDue_slip2(t) == row[t].status = "pending" /\ row[t].wait = 0 /\ row[t].lock = NULL
isDue(t) == row[t].status = "pending" /\ row[t].wait = 0 /\ row[t].lock <= 0

(* One UPDATE .. FOR UPDATE SKIP LOCKED takes up to a batch of due rows.    *)
claimSettlements(d) ==
    LET due == {t \in Tasks : isDue(t)}
    IN  /\ d \in Drains /\ At(d, "idle")
        /\ due # {}
        /\ \E batch \in kSubset(Min({DRAIN_BATCH, Cardinality(due)}), due) :
              /\ row' = [t \in Tasks |-> IF t \in batch THEN [row[t] EXCEPT !.lock = LOCK_TIMEOUT]
                                         ELSE row[t]]
              /\ \E todo \in SetToSeqs(batch) : Step(d, [pc |-> "settle", todo |-> todo])
        /\ UNCHANGED <<Stored, Outcome, unlocked, faults>>

-----------------------------------------------------------------------------
Crash(p) ==
    /\ ~At(p, "idle")
    /\ Fault
    /\ Step(p, Idle)
    /\ UNCHANGED <<Stored, row, Outcome, unlocked>>

countDown(n) == IF n > 0 THEN n - 1 ELSE n

(* A unit of time.  No invocation outlives LIFE: it ends, or it is killed.  *)
Tick ==
    /\ \A p \in Proc : proc[p].life < LIFE
    /\ row' = [t \in Tasks |-> [row[t] EXCEPT !.lock = countDown(@), !.wait = countDown(@)]]
    /\ proc' = [p \in Proc |-> IF At(p, "idle") THEN proc[p] ELSE [proc[p] EXCEPT !.life = @ + 1]]
    /\ UNCHANGED <<Stored, Outcome, unlocked, faults>>

Settle(p) ==
    \/ Read(p) \/ Retry(p) \/ Refuse(p) \/ Submit(p) \/ Record(p) \/ Event(p)
    \/ Pay(p) \/ Swallow(p) \/ Credit(p) \/ Throw(p) \/ Rerun(p)
Advance(p) ==
    \/ Store(p) \/ StoreFails(p) \/ enqueueSettlement(p) \/ Settle(p)
    \/ completeSettlement(p) \/ Count(p) \/ Backoff(p)

Next ==
    \/ \E c \in Callbacks, t \in Tasks : Claim(c, t)
    \/ \E p \in Proc : Advance(p) \/ EnqueueFails(p) \/ CloseFails(p) \/ DeferFails(p) \/ Crash(p)
    \/ \E d \in Drains : claimSettlements(d)
    \/ Tick

Spec == Init /\ [][Next]_vars

(* A live invocation gets on, the ops cycle comes round again, time passes. *)
FairSpec ==
    /\ Spec
    /\ WF_vars(Tick)
    /\ \A p \in Proc : WF_vars(Advance(p))
    /\ \A d \in Drains : WF_vars(claimSettlements(d))

-----------------------------------------------------------------------------
TypeOK ==
    /\ task \in [Tasks -> {"running", "processing", "completed", "failed"}]
    /\ round \in [Tasks -> 0..MaxRounds]
    /\ row \in [Tasks -> [status : {"none", "pending", "done", "abandoned"}, attempts : Nat,
                          lock : -1..LOCK_TIMEOUT, wait : 0..MAX_BACKOFF]]
    /\ job \in [Tasks -> {"Accepted", "Submitted", "Completed"}]
    /\ attempts \in [Tasks -> 0..MAX_GRADING_ATTEMPTS]
    /\ \A p \in Proc : ~At(p, "idle") => /\ proc[p].todo # <<>>
                                         /\ p \in Callbacks => Len(proc[p].todo) = 1
    /\ events \in [Tasks -> 0..2]
    /\ faults \in 0..MaxFaults

(* "Two drains racing split the work instead of duplicating it": a row that *)
(* one drain has in its batch, being settled or waiting its turn, is in no  *)
(* other's, whoever dies, unless a deferral by the inline attempt, which    *)
(* holds no lock, has released the lock the drain holds.                    *)
OneDrainPerTask ==
    \A t \in Tasks \ unlocked :
        Cardinality({d \in Drains : settling(d, t)}) <= 1

(* What the queue is for: once a deliverable is stored, either somebody is  *)
(* still settling it, or its settlements ran to their end, or its row is    *)
(* pending, or a human is asked to look at the row.                         *)
concluded(t) == returned[t] \ swallowed[t]
isKept(t) ==
    \/ task[t] # "completed" \/ round[t] \in concluded(t)
    \/ row[t].status \in {"pending", "abandoned"}
    \/ \E p \in Proc : settling(p, t)

(* With its row written, no death at any await, no write that is lost and   *)
(* no attempt whose throw reaches the queue loses a task's first            *)
(* submission.  One thing does: a throw that settleLaborMarketJob itself    *)
(* catches, for the row is then marked done over a settlement that failed,  *)
(* where the queue promises that a failure "leaves it pending".             *)
hasRow(t) == row[t].status # "none"
FirstSubmissionIsKept ==
    \A t \in Tasks : hasRow(t) /\ round[t] = 1 => isKept(t) \/ 1 \in swallowed[t]

(* "A request killed at the budget leaves a pending row in settlement_queue *)
(* rather than nothing at all", whichever submission of the task it is.     *)
(* Not an invariant: the second one finds its row closed.                   *)
EverySubmissionIsKept == \A t \in Tasks : hasRow(t) => isKept(t)

(* "Must be safe to run twice": however often a job is settled, its worker  *)
(* is credited with one verdict.  Not an invariant: the inline attempt      *)
(* holds no lock that a drain would see.                                    *)
OneVerdictPerJob == \A t \in Tasks : events[t] <= 1

(* A pending row is settled, or given up on after its last attempt: no lock *)
(* of a dead invocation, and no deferral cut short, keeps it for ever.      *)
EveryRowIsClosed ==
    \A t \in Tasks : row[t].status = "pending" ~> row[t].status \in {"done", "abandoned"}
=============================================================================
