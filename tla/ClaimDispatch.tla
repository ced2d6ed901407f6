---------------------------- MODULE ClaimDispatch ----------------------------
(***************************************************************************)
(* One labour-market job on its way to a worker: the off-chain claim and   *)
(* the accept (lib/labor-dispatch), the worker's run and its callback      *)
(* (lib/agent-tasks, app/api/runtime/callback), the settlement of what it  *)
(* delivered (lib/callback/labor-market), and the self-heal of a mining    *)
(* agent's sweep (lib/auto-mine, lib/mining-scheduler).                    *)
(*                                                                         *)
(* A definition named X_slip is X with a mistake a change could make.      *)
(*                                                                         *)
(* Abstractions.  The workers are those every gate lets through (self      *)
(* dealing, lineage, fitness, lane, bond; nobody has the job reserved).  A *)
(* request reads the market and the spec, or claims, in one step.  A run   *)
(* that waits in the queue of a local worker is running.  The claim's time *)
(* to live, the silence before a reap and the cooldown of a heal pass at   *)
(* any moment, but no request outlives the cooldown.  A deliverable that   *)
(* is stored gets its row in the queue (SettlementQueue says what happens  *)
(* to one that does not), two drains never hold one row, and what follows  *)
(* the submission is left out.                                             *)
(***************************************************************************)
EXTENDS Integers, FiniteSets, Sequences

CONSTANTS
    Workers,
    Miners,                 \* those with autoMine, whose sweeps heal
    NoWorker,
    Procs,                  \* requests that accept, and sweeps
    MAX_SLOTS,              \* resolveMiningConcurrency
    MAX_GRADING_ATTEMPTS,
    MaxTasks, MaxMishaps    \* bounds: runs of the job; operations mined in vain or
                            \* not seen mined, deaths, refusals, failures of a run,
                            \* and drains that begin beside a callback

ASSUME ClaimAssumption ==
    /\ Miners \subseteq Workers
    /\ NoWorker \notin Workers
    /\ {MAX_SLOTS, MAX_GRADING_ATTEMPTS} \subseteq Nat \ {0}

NONE == 0
NoWork == <<NONE, NONE>>    \* a deliverable is a task and an attempt

VARIABLES
    job,        \* the job on the chain
    spec,       \* job_spec: claimedByAgentId, agentTaskId, workerAgentId, the attempts graded
    tasks,      \* agent_task: the runs started for this job, with their settlement rows
    proc,       \* each request's local state
    ops,        \* operations nobody waits for any more, that may still be mined
    judges,     \* settleLaborMarketJob under way: in the callback, or in a drain
    sentBack,   \* history: the deliverables grading returned for another attempt
    astray,     \* history: the ones a sweep submitted while they were being settled, a
                \* drain settled beside the callback, or a worker was never told of
    late,       \* history: runs whose cooldown passed before they were settled
    blind,      \* history: a run was started on an accept not seen mined
    doubled,    \* history: a run was started past an outdated read
    mishaps

history == <<sentBack, astray, late, blind, doubled>>
vars == <<job, spec, tasks, proc, ops, judges, history, mishaps>>

Idle == [pc |-> "idle", me |-> NoWorker, saw |-> NONE, work |-> NoWork, lapsed |-> FALSE]

Init ==
    /\ job = [status |-> "Open", by |-> NoWorker, work |-> NoWork, runway |-> TRUE]
    /\ spec = [claim |-> NoWorker, task |-> NONE, worker |-> NoWorker, tries |-> 0]
    /\ tasks = <<>>
    /\ proc = [p \in Procs |-> Idle]
    /\ ops = {}
    /\ judges = {}
    /\ sentBack = {} /\ astray = {}
    /\ late = {} /\ blind = FALSE /\ doubled = FALSE
    /\ mishaps = 0

At(p, pc) == proc[p].pc = pc
End(p) == proc' = [proc EXCEPT ![p] = Idle]
Dispatch(p, worker, saw) ==
    proc' = [proc EXCEPT ![p].pc = "dispatch", ![p].me = worker, ![p].saw = saw, ![p].lapsed = FALSE]
me(p) == proc[p].me
Change(t, run) == tasks' = [tasks EXCEPT ![t] = run]
Mishap == mishaps < MaxMishaps /\ mishaps' = mishaps + 1

Active(t) == tasks[t].status = "running"    \* or queued, or processing
workOf(t) == <<t, tasks[t].round>>         \* the output the task holds
op(w, work) == [by |-> w, work |-> work]

-----------------------------------------------------------------------------
(* The market.                                                              *)

accepted(w) == [job EXCEPT !.status = "Accepted", !.by = w]
submitted(work) == [job EXCEPT !.status = "Submitted", !.work = work]
submittable(w) == job.status = "Accepted" /\ job.by = w

(* An operation that was given up is mined, or reverts.                     *)
Land(o) ==
    /\ o \in ops
    /\ ops' = ops \ {o}
    /\ job' = IF o.work = NoWork /\ job.status = "Open" THEN accepted(o.by)
              ELSE IF o.work # NoWork /\ submittable(o.by) THEN submitted(o.work)
              ELSE job
    /\ UNCHANGED <<spec, tasks, proc, judges, history, mishaps>>

(* Too little of the window is left for another run or attempt; what        *)
(* arrives now may still be submitted, until the job is reclaimed.          *)
Deadline ==
    /\ job.status = "Accepted" /\ job.runway
    /\ job' = [job EXCEPT !.runway = FALSE]
    /\ UNCHANGED <<spec, tasks, proc, ops, judges, history, mishaps>>

-----------------------------------------------------------------------------
(* Claiming and accepting: acceptAndDispatchJob, acceptJobForExternalWorker.*)

claimable_slip(w) == TRUE
claimable(w) == spec.claim \in {NoWorker, w}

claimJobSpec(p, w) ==
    /\ At(p, "idle") /\ job.status = "Open"
    /\ claimable(w)
    /\ spec' = [spec EXCEPT !.claim = w]
    /\ proc' = [proc EXCEPT ![p].pc = "accept", ![p].me = w]
    /\ UNCHANGED <<job, tasks, ops, judges, history, mishaps>>

(* JOB_CLAIM_TTL_MS passes, over accepts that are still under way.  A stale *)
(* claim binds nobody, and nobody looks at it once the job is taken.        *)
Expire ==
    /\ spec.claim # NoWorker /\ job.status = "Open"
    /\ spec' = [spec EXCEPT !.claim = NoWorker]
    /\ proc' = [p \in Procs |-> [proc[p] EXCEPT !.lapsed = @ \/ At(p, "accept")]]
    /\ UNCHANGED <<job, tasks, ops, judges, history, mishaps>>

Accepted(p) ==
    /\ At(p, "accept") /\ job.status = "Open"
    /\ job' = accepted(me(p))
    /\ Dispatch(p, me(p), spec.task)
    /\ UNCHANGED <<spec, tasks, ops, judges, history, mishaps>>

releases(w) == spec.claim = w

(* The work is done even after a revert.                                    *)
Refused_slip(p) ==
    /\ At(p, "accept")
    /\ job.status # "Open"
    /\ Dispatch(p, me(p), spec.task)
    /\ UNCHANGED <<job, spec, tasks, ops, judges, history, mishaps>>

(* The accept reverts, or is not sent: the claim is released, and with it   *)
(* the claim of another request of the same worker.                         *)
Refused(p) ==
    /\ At(p, "accept")
    /\ IF job.status = "Open" THEN Mishap ELSE UNCHANGED mishaps
    /\ IF releases(me(p))
       THEN /\ spec' = [spec EXCEPT !.claim = NoWorker]
            /\ proc' = [q \in Procs |-> IF q = p THEN Idle
                            ELSE [proc[q] EXCEPT !.lapsed = @ \/ (At(q, "accept") /\ me(q) = me(p))]]
       ELSE spec' = spec /\ End(p)
    /\ UNCHANGED <<job, tasks, ops, judges, history>>

(* It reverts as it is mined, which nobody looks at: the work is done.      *)
InVain(p) ==
    /\ At(p, "accept") /\ job.status # "Open"
    /\ Mishap
    /\ blind' = TRUE
    /\ Dispatch(p, me(p), spec.task)
    /\ UNCHANGED <<job, spec, tasks, ops, judges, sentBack, astray, late, doubled>>

(* Not seen mined: the claim is kept and the work is done.                  *)
Pending(p) ==
    /\ At(p, "accept")
    /\ Mishap
    /\ ops' = ops \cup {op(me(p), NoWork)}
    /\ blind' = TRUE
    /\ Dispatch(p, me(p), spec.task)
    /\ UNCHANGED <<job, spec, tasks, judges, sentBack, astray, late, doubled>>

-----------------------------------------------------------------------------
(* dispatchAcceptedJob: a task is inserted, started, and linked to the spec.*)

Run(w, status) == [agent |-> w, status |-> status, live |-> status = "running", ok |-> FALSE,
                   round |-> 0, aged |-> FALSE, row |-> "none"]

Insert(p) ==
    /\ At(p, "dispatch") /\ Len(tasks) < MaxTasks
    /\ tasks' = Append(tasks, Run(me(p), "running"))
    /\ doubled' = (doubled \/ spec.task # proc[p].saw \/ \E q \in Procs : At(q, "link"))
    /\ proc' = [proc EXCEPT ![p].pc = "link", ![p].saw = Len(tasks) + 1]
    /\ UNCHANGED <<job, spec, ops, judges, sentBack, astray, late, blind, mishaps>>

(* The runtime refuses the dispatch, and the task is never linked.          *)
InsertFails(p) ==
    /\ At(p, "dispatch") /\ Len(tasks) < MaxTasks
    /\ Mishap
    /\ tasks' = Append(tasks, Run(me(p), "failed"))
    /\ End(p)
    /\ UNCHANGED <<job, spec, ops, judges, history>>

Link(p) ==
    /\ At(p, "link")
    /\ spec' = [spec EXCEPT !.task = proc[p].saw, !.worker = me(p)]
    /\ End(p)
    /\ UNCHANGED <<job, tasks, ops, judges, history, mishaps>>

(* A request dies at any await; what it was sending may be mined or not.    *)
Die(p) ==
    /\ ~At(p, "idle")
    /\ Mishap
    /\ \/ ops' = ops
       \/ proc[p].pc \in {"accept", "resubmit"} /\ ops' = ops \cup {op(me(p), proc[p].work)}
    /\ doubled' = (doubled \/ At(p, "link"))
    /\ End(p)
    /\ UNCHANGED <<job, spec, tasks, judges, sentBack, astray, late, blind>>

-----------------------------------------------------------------------------
(* The run and its callback.                                                *)

worked(g) == <<g.task, g.round>>           \* the output that g settles
judgesOf(t) == {g \in judges : g.task = t}

(* A settlement looks its spec up by the task as it begins.  A run that was *)
(* replaced finds none, and has nothing to settle but its row.              *)
findsSpec(t) == spec.task = t
begins(t, round, who) ==
    judges' = IF ~findsSpec(t) THEN judges
              ELSE judges \cup {[task |-> t, round |-> round, who |-> who, pc |-> "judge",
                                 by |-> spec.worker, prior |-> spec.tries]}

(* The worker delivers: running -> processing -> completed, a row says that *)
(* a settlement is owed unless the task has had one, and the callback       *)
(* begins to settle.                                                        *)
delivers(t) == tasks[t].status = "running" /\ tasks[t].live
owes(t) ==
    IF ~findsSpec(t) THEN "done"
    ELSE IF tasks[t].row = "none" THEN "pending" ELSE tasks[t].row
delivered(t, ok) ==
    /\ Change(t, [tasks[t] EXCEPT !.status = "completed", !.live = FALSE, !.ok = ok, !.aged = FALSE,
                                  !.round = @ + 1, !.row = owes(t)])
    /\ begins(t, tasks[t].round + 1, "callback")
Deliver(t) ==
    /\ delivers(t)
    /\ delivered(t, TRUE)
    /\ UNCHANGED <<job, spec, proc, ops, history, mishaps>>

(* It reports success: false.                                               *)
ReportFailure(t) ==
    /\ delivers(t)
    /\ Mishap
    /\ delivered(t, FALSE)
    /\ UNCHANGED <<job, spec, proc, ops, history>>

(* The worker dies, or the callback does after its claim of the task, which *)
(* leaves it processing.                                                    *)
FallSilent(t) ==
    /\ delivers(t)
    /\ Mishap
    /\ Change(t, [tasks[t] EXCEPT !.live = FALSE])
    /\ UNCHANGED <<job, spec, proc, ops, judges, history>>

(* Silent for half an hour: a worker that still lives will find its         *)
(* callback ignored.                                                        *)
reapStuckTasks(t) ==
    /\ Active(t)
    /\ IF tasks[t].live THEN Mishap ELSE UNCHANGED mishaps
    /\ Change(t, [tasks[t] EXCEPT !.status = "failed", !.live = FALSE, !.ok = FALSE, !.aged = FALSE])
    /\ UNCHANGED <<job, spec, proc, ops, judges, history>>
deadDispatch(t) ==
    /\ t \in DOMAIN tasks
    /\ \/ tasks[t].status = "failed"
       \/ tasks[t].status = "completed" /\ ~tasks[t].ok

(* REDISPATCH_COOLDOWN_MS from the task's updatedAt, settled or not.        *)
settling(t) == tasks[t].row = "pending" \/ judgesOf(t) # {}
Cooldown(t) ==
    /\ deadDispatch(t) /\ ~tasks[t].aged
    /\ Change(t, [tasks[t] EXCEPT !.aged = TRUE])
    /\ late' = IF settling(t) THEN late \cup {t} ELSE late
    /\ UNCHANGED <<job, spec, proc, ops, judges, sentBack, astray, blind, doubled, mishaps>>

-----------------------------------------------------------------------------
(* settleLaborMarketJob: in the callback, and in a drain of the queue, which *)
(* does not see whether the callback is at it.                              *)

Drain(t) ==
    /\ tasks[t].row = "pending"
    /\ \A g \in judgesOf(t) : g.who # "drain"
    /\ begins(t, tasks[t].round, "drain")
    /\ Change(t, [tasks[t] EXCEPT !.row = owes(t)])
    /\ IF judgesOf(t) # {} THEN Mishap ELSE UNCHANGED mishaps
    /\ astray' = IF workOf(t) \in sentBack \cup {worked(g) : g \in judges}
                 THEN astray \cup {workOf(t)} ELSE astray
    /\ UNCHANGED <<job, spec, proc, ops, sentBack, late, blind, doubled>>

Ends(g) == judges' = judges \ {g}
Close(g) == Ends(g) /\ Change(g.task, [tasks[g.task] EXCEPT !.row = "done"])

(* The chain is committed before the verdict, as it once was.               *)
SendBack_slip(g) ==
    /\ g.pc = "judge" /\ g.prior + 1 < MAX_GRADING_ATTEMPTS
    /\ job.status = "Accepted" /\ job.runway
    /\ spec' = [spec EXCEPT !.tries = g.prior + 1]
    /\ sentBack' = sentBack \cup {worked(g)}
    /\ job' = IF submittable(g.by) THEN submitted(worked(g)) ELSE job
    /\ judges' = (judges \ {g}) \cup {[g EXCEPT !.pc = "retry"]}
    /\ UNCHANGED <<tasks, proc, ops, astray, late, blind, doubled, mishaps>>

(* The grade fails, and the job stays with its worker: the attempt is       *)
(* written down, nothing is submitted.                                      *)
SendBack(g) ==
    /\ g.pc = "judge" /\ g.prior + 1 < MAX_GRADING_ATTEMPTS
    /\ job.status = "Accepted" /\ job.runway
    /\ spec' = [spec EXCEPT !.tries = g.prior + 1]
    /\ sentBack' = sentBack \cup {worked(g)}
    /\ judges' = (judges \ {g}) \cup {[g EXCEPT !.pc = "retry"]}
    /\ UNCHANGED <<job, tasks, proc, ops, astray, late, blind, doubled, mishaps>>

(* The callback reopens the task and closes the row, a drain closes it and  *)
(* dispatches the task again; whatever has become of the task meanwhile.    *)
reopened(t) == [tasks[t] EXCEPT !.status = "running", !.ok = FALSE, !.aged = FALSE]
Redispatch(g) ==
    /\ g.pc = "retry"
    /\ Ends(g)
    /\ Change(g.task, [reopened(g.task) EXCEPT !.live = TRUE, !.row = "done"])
    /\ UNCHANGED <<job, spec, proc, ops, history, mishaps>>

(* Or a drain closes the row and only logs that the dispatch failed.        *)
RetryFails(g) ==
    /\ g.pc = "retry" /\ g.who = "drain"
    /\ astray' = astray \cup {worked(g)}
    /\ Close(g)
    /\ UNCHANGED <<job, spec, proc, ops, sentBack, late, blind, doubled, mishaps>>

(* This attempt settles, and is submitted for the spec's worker; a brief    *)
(* refused, a deliverable nothing can grade, or a throw that is caught, is  *)
(* not.                                                                     *)
Settle(g) ==
    /\ g.pc = "judge"
    /\ \/ job' = job
       \/ submittable(g.by) /\ job' = submitted(worked(g))
    /\ Close(g)
    /\ UNCHANGED <<spec, proc, ops, history, mishaps>>

SubmitPending(g) ==
    /\ g.pc = "judge"
    /\ Mishap
    /\ ops' = ops \cup {op(g.by, worked(g))}
    /\ Close(g)
    /\ UNCHANGED <<job, spec, proc, history>>

(* The request dies, or defers the row; a drain of the queue begins again   *)
(* if the row is still pending.  A callback that dies between reopening a   *)
(* task and closing its row tells no worker.                                *)
SettlementDies(g) ==
    /\ Mishap
    /\ Ends(g)
    /\ \/ tasks' = tasks
       \/ g.pc = "retry" /\ g.who = "callback" /\ Change(g.task, reopened(g.task))
    /\ astray' = IF g.pc = "retry" THEN astray \cup {worked(g)} ELSE astray
    /\ UNCHANGED <<job, spec, proc, ops, sentBack, late, blind, doubled>>

-----------------------------------------------------------------------------
(* The self-heal of autoMineTick.                                           *)

linked == spec.task
freeSlot(w) == Cardinality({t \in DOMAIN tasks : tasks[t].agent = w /\ Active(t)}) < MAX_SLOTS

shouldResubmitAcceptedJob ==
    linked # NONE /\ tasks[linked].status = "completed" /\ tasks[linked].ok
(* Without the task that failed.                                            *)
shouldHealAcceptedJob_slip == job.runway /\ linked = NONE
(* Without the cooldown.                                                    *)
shouldHealAcceptedJob_slip2 == job.runway /\ (linked = NONE \/ deadDispatch(linked))
(* Over a task that is in flight.                                           *)
shouldHealAcceptedJob_slip3 == job.runway /\ (linked = NONE \/ deadDispatch(linked) \/ (linked # NONE /\ Active(linked)))
shouldHealAcceptedJob ==
    /\ job.runway
    /\ linked = NONE \/ (deadDispatch(linked) /\ tasks[linked].aged)

sweeps(p, w) == At(p, "idle") /\ job.status = "Accepted" /\ job.by = w /\ freeSlot(w)

(* Finished work is submitted, whoever made it and whatever stage it is at. *)
HealSubmit(p, w) ==
    /\ sweeps(p, w) /\ shouldResubmitAcceptedJob
    /\ proc' = [proc EXCEPT ![p].pc = "resubmit", ![p].me = w, ![p].work = workOf(linked)]
    /\ astray' = IF settling(linked) THEN astray \cup {workOf(linked)} ELSE astray
    /\ UNCHANGED <<job, spec, tasks, ops, judges, sentBack, late, blind, doubled, mishaps>>

HealDispatch(p, w) ==
    /\ sweeps(p, w) /\ shouldHealAcceptedJob /\ Len(tasks) < MaxTasks
    /\ Dispatch(p, w, linked)
    /\ UNCHANGED <<job, spec, tasks, ops, judges, history, mishaps>>

Resubmit(p) ==
    /\ At(p, "resubmit")
    /\ job' = IF submittable(me(p)) THEN submitted(proc[p].work) ELSE job
    /\ End(p)
    /\ UNCHANGED <<spec, tasks, ops, judges, history, mishaps>>

-----------------------------------------------------------------------------
Request(p) == Accepted(p) \/ Refused(p) \/ Insert(p) \/ Link(p) \/ Resubmit(p)
Judging(g) == SendBack(g) \/ Redispatch(g) \/ Settle(g)

Next ==
    \/ Deadline
    \/ Expire
    \/ \E o \in ops : Land(o)
    \/ \E p \in Procs :
           \/ Request(p) \/ InVain(p) \/ Pending(p) \/ InsertFails(p) \/ Die(p)
           \/ \E w \in Workers : claimJobSpec(p, w)
           \/ \E w \in Miners : HealSubmit(p, w) \/ HealDispatch(p, w)
    \/ \E t \in DOMAIN tasks :
           \/ Deliver(t) \/ ReportFailure(t) \/ FallSilent(t) \/ reapStuckTasks(t) \/ Cooldown(t)
           \/ Drain(t)
    \/ \E g \in judges : Judging(g) \/ RetryFails(g) \/ SubmitPending(g) \/ SettlementDies(g)

Spec == Init /\ [][Next]_vars

(* Requests go on or die, workers deliver or are reaped, the queue is       *)
(* drained, and miners keep sweeping.                                       *)
Fairness ==
    /\ \A p \in Procs : WF_vars(Request(p))
    /\ \A w \in Miners : WF_vars(\E p \in Procs : HealSubmit(p, w) \/ HealDispatch(p, w))
    /\ \A t \in 1..MaxTasks :
           /\ WF_vars(t \in DOMAIN tasks /\ (Deliver(t) \/ reapStuckTasks(t)))
           /\ WF_vars(t \in DOMAIN tasks /\ Cooldown(t))
           /\ WF_vars(t \in DOMAIN tasks /\ Drain(t))
           /\ WF_vars(\E g \in judgesOf(t) : Judging(g))

FairSpec == Spec /\ Fairness

-----------------------------------------------------------------------------
(* "Exactly one concurrent claimer wins": two workers send an accept at     *)
(* once only if a claim had run out by then, or a second request of its     *)
(* worker had released it.                                                  *)
OneClaimer ==
    \A p, q \in Procs :
        At(p, "accept") /\ At(q, "accept") /\ me(p) # me(q) => proc[p].lapsed \/ proc[q].lapsed

(* The work is done once at a time: two runs of the job are in flight only  *)
(* if one was started on an accept nobody saw succeed, or past a read that  *)
(* another dispatch had outdated, or if grading sent one back whose failure *)
(* report had outlived the cooldown before it was settled.                  *)
OneRunAtATime ==
    Cardinality({t \in DOMAIN tasks : Active(t)}) > 1
    => blind \/ doubled \/ \E t \in late : Active(t)

(* What is being graded is the run the job is linked to: nothing replaces a *)
(* run while a request judges it, unless its cooldown ran out before it was *)
(* settled, or two dispatches crossed.                                      *)
GradesTheLinkedRun ==
    \A g \in judges : spec.task = g.task \/ g.task \in late \/ blind \/ doubled

(* A worker is paid for its own work: what is submitted was made by the     *)
(* chain's worker, unless a run was started on an accept not seen mined.    *)
SubmittedByItsMaker ==
    job.status = "Submitted" => tasks[job.work[1]].agent = job.by \/ blind

(* "Called once, on the attempt that is actually going to settle": the      *)
(* chain is not committed to an attempt that was sent back, unless a sweep  *)
(* submitted it while it was being settled, or the worker could not be told *)
(* and its output stayed where a sweep or a drain finds it, or a drain      *)
(* judged it beside the callback and came to another verdict.               *)
SentBackIsNotSubmitted ==
    job.status = "Submitted" /\ job.work \in sentBack => job.work \in astray

(* A job a miner holds, with the time to do it, never rests on a run that   *)
(* is missing, dead or finished without a submission.                       *)
Abandoned ==
    /\ job.status = "Accepted" /\ job.runway /\ job.by \in Miners
    /\ \/ linked = NONE
       \/ tasks[linked].status = "failed"
       \/ Active(linked) /\ ~tasks[linked].live
       \/ tasks[linked].status = "completed" /\ ~settling(linked)
    /\ Len(tasks) < MaxTasks
AcceptedIsWorked == []<>~Abandoned
=============================================================================
