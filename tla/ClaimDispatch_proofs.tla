------------------------ MODULE ClaimDispatch_proofs ------------------------
(***************************************************************************)
(* One job and everybody who may work on it, for any number of workers,    *)
(* requests, sweeps, runs and operations mined late, and for every claim   *)
(* that runs out and every request that dies.                              *)
(*                                                                         *)
(* The claim comes first.  Then the runs: RunMoves and RunTells say what a *)
(* step of a run or of its settlement may do, Turn and AddsRun what one of *)
(* a request; each action is shown to do no more, and four invariants are  *)
(* kept by that: the records are sound (Sound), what may be submitted is   *)
(* judged for good (Judged), it was made by whom it pays (Made), and no    *)
(* run is beside another in flight or under judgement that did not outlive *)
(* its cooldown (AloneUnlessDoubled).                                      *)
(***************************************************************************)
EXTENDS ClaimDispatch, FiniteSetTheorems, TLAPS

(* What an entry of proc is, and the row of job_spec.                       *)
Entry(r) == DOMAIN r = {"pc", "me", "saw", "work", "lapsed"} /\ r.lapsed \in BOOLEAN
Row == spec = [claim |-> spec.claim, task |-> spec.task, worker |-> spec.worker, tries |-> spec.tries]
Shape == proc = [p \in Procs |-> proc[p]] /\ (\A p \in Procs : Entry(proc[p])) /\ Row

(* A request that is about to accept holds the claim, unless it has lost it *)
(* since: to time, or to the release of another request of its worker.      *)
HoldsClaim(p) == At(p, "accept") => me(p) \in Workers /\ (proc[p].lapsed \/ spec.claim = me(p))

Inv == Shape /\ \A p \in Procs : HoldsClaim(p)

(* What each form of assignment does to the entries.                        *)
LEMMA EndAssigns ==
    ASSUME Shape, NEW p \in Procs, End(p), NEW q \in Procs
    PROVE  proc'[q] = (IF q = p THEN Idle ELSE proc[q]) /\ proc' = [r \in Procs |-> proc'[r]]
BY DEF Shape, End

LEMMA DispatchAssigns ==
    ASSUME Shape, NEW p \in Procs, NEW w, NEW n, Dispatch(p, w, n), NEW q \in Procs
    PROVE  /\ Entry(proc'[q]) /\ proc' = [r \in Procs |-> proc'[r]]
           /\ q = p => proc'[q].pc = "dispatch"
           /\ q # p => proc'[q] = proc[q]
<1>1. proc' = [r \in Procs |-> proc'[r]] /\ (q # p => proc'[q] = proc[q])
  BY DEF Shape, Dispatch
<1>2. DOMAIN proc'[p] = DOMAIN proc[p]
  BY DEF Shape, Entry, Dispatch
<1>3. proc'[p].pc = "dispatch" /\ proc'[p].lapsed = FALSE
  BY DEF Shape, Entry, Dispatch
<1>4. QED
  BY <1>1, <1>2, <1>3 DEF Shape, Entry

LEMMA IdleEntry == Entry(Idle) /\ Idle.pc = "idle"
BY DEF Entry, Idle

(* A step that neither claims nor ends a claim: it leaves the claim, and    *)
(* leads nobody to an accept.                                               *)
LEMMA Elsewhere ==
    ASSUME Inv, Row', spec'.claim = spec.claim, proc' = [r \in Procs |-> proc'[r]],
           \A q \in Procs : Entry(proc'[q]) /\ (proc'[q] = proc[q] \/ proc'[q].pc # "accept")
    PROVE  Inv'
<1>1. Shape'
  BY DEF Shape
<1>2. ASSUME NEW q \in Procs  PROVE  HoldsClaim(q)'
  <2>1. CASE proc'[q] = proc[q]
    BY <2>1 DEF Inv, HoldsClaim, At, me
  <2>2. CASE proc'[q].pc # "accept"
    BY <2>2 DEF HoldsClaim, At
  <2>3. QED
    BY <2>1, <2>2
<1>3. QED
  BY <1>1, <1>2 DEF Inv

LEMMA EndKeeps ==
    ASSUME Inv, NEW p \in Procs, End(p), spec' = spec
    PROVE  Inv'
<1>1. \A q \in Procs : Entry(proc'[q]) /\ (proc'[q] = proc[q] \/ proc'[q].pc # "accept")
  BY EndAssigns, IdleEntry DEF Inv, Shape
<1>2. proc' = [r \in Procs |-> proc'[r]]
  BY EndAssigns DEF Inv
<1>3. QED
  BY <1>1, <1>2, Elsewhere DEF Inv, Shape, Row

LEMMA Dispatches ==
    ASSUME Inv, NEW p \in Procs, NEW w, NEW n, Dispatch(p, w, n), spec' = spec
    PROVE  Inv'
<1>1. \A q \in Procs : Entry(proc'[q]) /\ (proc'[q] = proc[q] \/ proc'[q].pc # "accept")
  BY DispatchAssigns DEF Inv
<1>2. proc' = [r \in Procs |-> proc'[r]]
  BY DispatchAssigns DEF Inv
<1>3. QED
  BY <1>1, <1>2, Elsewhere DEF Inv, Shape, Row

(* The claim is taken only when it is free or the worker's own.             *)
LEMMA Claims ==
    ASSUME Inv, NEW p \in Procs, NEW w \in Workers, claimJobSpec(p, w)
    PROVE  Inv'
<1>0. Entry(proc[p])
  BY DEF Inv, Shape
<1>1. proc' = [q \in Procs |-> proc'[q]] /\ \A q \in Procs \ {p} : proc'[q] = proc[q]
  BY DEF Inv, Shape, claimJobSpec
<1>2. Entry(proc'[p]) /\ me(p)' = w
  BY <1>0 DEF Inv, Shape, Entry, claimJobSpec, me
<1>3. Row' /\ spec'.claim = w /\ spec.claim \in {NoWorker, w}
  BY DEF Inv, Shape, Row, claimJobSpec, claimable
<1>4. Shape'
  BY <1>1, <1>2, <1>3 DEF Inv, Shape
<1>5. ASSUME NEW q \in Procs  PROVE  HoldsClaim(q)'
  <2>1. CASE q = p
    BY <2>1, <1>2, <1>3 DEF HoldsClaim
  <2>2. CASE q # p
    BY <2>2, <1>1, <1>3, ClaimAssumption DEF Inv, HoldsClaim, At, me
  <2>3. QED
    BY <2>1, <2>2
<1>6. QED
  BY <1>4, <1>5 DEF Inv

(* Whoever loses the claim while it accepts is marked.                      *)
LEMMA Marked ==
    ASSUME Shape, NEW q \in Procs, NEW b \in BOOLEAN,
           proc'[q] = [proc[q] EXCEPT !.lapsed = b]
    PROVE  Entry(proc'[q]) /\ At(q, "accept")' = At(q, "accept") /\ me(q)' = me(q) /\ proc'[q].lapsed = b
<1>1. Entry(proc[q])
  BY DEF Shape
<1>2. QED
  BY <1>1 DEF Entry, At, me

LEMMA Expires ==
    ASSUME Inv, Expire
    PROVE  Inv'
<1>1. Row' /\ proc' = [q \in Procs |-> proc'[q]]
  BY DEF Inv, Shape, Row, Expire
<1>2. ASSUME NEW q \in Procs  PROVE  Entry(proc'[q]) /\ HoldsClaim(q)'
  <2> DEFINE b == proc[q].lapsed \/ At(q, "accept")
  <2>1. proc'[q] = [proc[q] EXCEPT !.lapsed = b] /\ b \in BOOLEAN
    BY DEF Expire
  <2>2. Entry(proc'[q]) /\ At(q, "accept")' = At(q, "accept") /\ me(q)' = me(q) /\ proc'[q].lapsed = b
    BY <2>1, Marked DEF Inv
  <2>3. QED
    BY <2>2 DEF Inv, HoldsClaim
<1>3. QED
  BY <1>1, <1>2 DEF Inv, Shape

LEMMA Releases ==
    ASSUME Inv, NEW p \in Procs, Refused(p), releases(me(p))
    PROVE  Inv'
<1>1. Row' /\ proc' = [q \in Procs |-> proc'[q]]
  BY DEF Inv, Shape, Row, Refused
<1>2. ASSUME NEW q \in Procs  PROVE  Entry(proc'[q]) /\ HoldsClaim(q)'
  <2>1. CASE q = p
    <3>1. proc'[q] = Idle
      BY <2>1 DEF Refused
    <3>2. QED
      BY <3>1, IdleEntry DEF HoldsClaim, At
  <2>2. CASE q # p
    <3> DEFINE b == proc[q].lapsed \/ (At(q, "accept") /\ me(q) = me(p))
    <3>1. proc'[q] = [proc[q] EXCEPT !.lapsed = b] /\ b \in BOOLEAN
      BY <2>2 DEF Refused
    <3>2. Entry(proc'[q]) /\ At(q, "accept")' = At(q, "accept") /\ me(q)' = me(q) /\ proc'[q].lapsed = b
      BY <3>1, Marked DEF Inv
    <3>3. QED
      BY <3>2 DEF Inv, HoldsClaim, releases
  <2>3. QED
    BY <2>1, <2>2
<1>3. QED
  BY <1>1, <1>2 DEF Inv, Shape

(* The steps of the chain, the runs and their settlements.                  *)
LEMMA OtherSteps ==
    ASSUME Inv,
           \/ Deadline
           \/ \E o \in ops : Land(o)
           \/ \E t \in DOMAIN tasks :
                 Deliver(t) \/ ReportFailure(t) \/ FallSilent(t) \/ reapStuckTasks(t) \/ Cooldown(t) \/ Drain(t)
           \/ \E g \in judges :
                 Judging(g) \/ RetryFails(g) \/ SubmitPending(g) \/ SettlementDies(g)
    PROVE  Inv'
<1>1. proc' = proc /\ (spec' = spec \/ \E n : spec' = [spec EXCEPT !.tries = n])
  BY DEF Deadline, Land, Deliver, ReportFailure, FallSilent, reapStuckTasks, Cooldown, Drain, Judging, SendBack,
         Redispatch, RetryFails, Settle, SubmitPending, SettlementDies
<1>2. Row' /\ spec'.claim = spec.claim
  BY <1>1 DEF Inv, Shape, Row
<1>3. QED
  BY <1>1, <1>2 DEF Inv, Shape, Entry, HoldsClaim, At, me

LEMMA RequestSteps ==
    ASSUME Inv, NEW p \in Procs,
           \/ Request(p) \/ InVain(p) \/ Pending(p) \/ InsertFails(p) \/ Die(p)
           \/ \E w \in Workers : claimJobSpec(p, w)
           \/ \E w \in Miners : HealSubmit(p, w) \/ HealDispatch(p, w)
    PROVE  Inv'
<1>0. Shape
  BY DEF Inv
<1>1. CASE \E w \in Workers : claimJobSpec(p, w)
  BY <1>1, Claims
<1>2. CASE Refused(p)
  <2>1. CASE releases(me(p))
    BY <1>2, <2>1, Releases
  <2>2. CASE ~releases(me(p))
    BY <1>2, <2>2, EndKeeps DEF Refused
  <2>3. QED
    BY <2>1, <2>2
<1>3. CASE Accepted(p) \/ InVain(p) \/ Pending(p) \/ \E w \in Miners : HealDispatch(p, w)
  BY <1>3, Dispatches DEF Accepted, InVain, Pending, HealDispatch
<1>4. CASE InsertFails(p) \/ Resubmit(p) \/ Die(p)
  BY <1>4, EndKeeps DEF InsertFails, Resubmit, Die
<1>5. CASE Insert(p)
  <2>1. Entry(proc[p])
    BY <1>0 DEF Shape
  <2>2. Entry(proc'[p]) /\ proc'[p].pc # "accept"
    BY <1>0, <1>5, <2>1 DEF Insert, Shape, Entry
  <2>3. proc' = [q \in Procs |-> proc'[q]] /\ \A q \in Procs \ {p} : proc'[q] = proc[q]
    BY <1>0, <1>5 DEF Insert, Shape
  <2>4. spec' = spec
    BY <1>5 DEF Insert
  <2>5. QED
    BY <1>0, <2>2, <2>3, <2>4, Elsewhere DEF Shape, Row
<1>6. CASE \E w \in Miners : HealSubmit(p, w)
  <2> PICK w \in Miners : HealSubmit(p, w)
    BY <1>6
  <2>1. Entry(proc[p])
    BY <1>0 DEF Shape
  <2>2. Entry(proc'[p]) /\ proc'[p].pc # "accept"
    BY <1>0, <2>1 DEF HealSubmit, Shape, Entry
  <2>3. proc' = [q \in Procs |-> proc'[q]] /\ \A q \in Procs \ {p} : proc'[q] = proc[q]
    BY <1>0 DEF HealSubmit, Shape
  <2>4. spec' = spec
    BY DEF HealSubmit
  <2>5. QED
    BY <1>0, <2>2, <2>3, <2>4, Elsewhere DEF Shape, Row
<1>7. CASE Link(p)
  <2>1. Row' /\ spec'.claim = spec.claim
    BY <1>0, <1>7 DEF Link, Shape, Row
  <2>2. proc' = [q \in Procs |-> proc'[q]] /\
        \A q \in Procs : Entry(proc'[q]) /\ (proc'[q] = proc[q] \/ proc'[q].pc # "accept")
    BY <1>0, <1>7, EndAssigns, IdleEntry DEF Link, Shape
  <2>3. QED
    BY <2>1, <2>2, Elsewhere
<1>8. QED
  BY <1>1, <1>2, <1>3, <1>4, <1>5, <1>6, <1>7 DEF Request

(* Two workers never send an accept at once while the claims of both hold,  *)
(* however many requests each of them has, and whoever heals what.          *)
THEOREM ClaimExcludes == Spec => []OneClaimer
<1>1. Init => Inv
  BY IdleEntry DEF Init, Inv, Shape, Row, HoldsClaim, At
<1>2. Inv /\ [Next]_vars => Inv'
  <2> SUFFICES ASSUME Inv, [Next]_vars
               PROVE  Inv'
    OBVIOUS
  <2>1. CASE UNCHANGED vars
    BY <2>1 DEF vars, Inv, Shape, Entry, Row, HoldsClaim, At, me
  <2>2. CASE Next
    BY <2>2, OtherSteps, RequestSteps, Expires DEF Next
  <2>3. QED
    BY <2>1, <2>2
<1>3. Inv => OneClaimer
  BY DEF Inv, HoldsClaim, OneClaimer
<1>4. QED
  BY <1>1, <1>2, <1>3, PTL DEF Spec

-----------------------------------------------------------------------------
(* The runs of the job.                                                     *)

Agents == Workers \cup {NoWorker}
Work == Nat \X Nat
RunType == [agent : Agents, status : {"running", "completed", "failed"}, live : BOOLEAN, ok : BOOLEAN,
            round : Nat, aged : BOOLEAN, row : {"none", "pending", "done"}]
JudgeType == [task : Nat, round : Nat, who : {"callback", "drain"}, pc : {"judge", "retry"}, by : Agents,
              prior : Nat]
ProcType == [pc : {"idle", "accept", "dispatch", "link", "resubmit"}, me : Agents, saw : Nat, work : Work,
             lapsed : BOOLEAN]

JobType == [status : {"Open", "Accepted", "Submitted"}, by : Agents, work : Work, runway : BOOLEAN]
SpecType == [claim : Agents, task : Nat, worker : Agents, tries : Nat]
OpType == [by : Agents, work : Work]

Typed ==
    /\ job \in JobType
    /\ spec \in SpecType
    /\ tasks \in Seq(RunType)
    /\ spec.task <= Len(tasks)
    /\ proc \in [Procs -> ProcType]
    /\ ops \subseteq OpType
    /\ judges \subseteq JudgeType
    /\ blind \in BOOLEAN /\ doubled \in BOOLEAN

(* Only a run that has failed runs out its cooldown. *)
AgedAreDead == \A t \in DOMAIN tasks : tasks[t].aged => deadDispatch(t)

(* What is judged, or was sent back, was delivered. *)
Known(work) == work \in Work /\ work[1] \in DOMAIN tasks /\ work[2] <= tasks[work[1]].round
JudgesKnow == \A g \in judges : Known(worked(g))
SentBackKnown == \A work \in sentBack : Known(work)

(* A request that starts a run looks at one that has begun. *)
Starting(p) == proc[p].pc \in {"dispatch", "link"}
SeesRuns == \A p \in Procs : Starting(p) => proc[p].saw <= Len(tasks)

Sound == Typed /\ AgedAreDead /\ JudgesKnow /\ SentBackKnown /\ SeesRuns

RunStep(t) == Deliver(t) \/ ReportFailure(t) \/ FallSilent(t) \/ reapStuckTasks(t) \/ Cooldown(t) \/ Drain(t)
JudgeStep(g) == Judging(g) \/ RetryFails(g) \/ SubmitPending(g) \/ SettlementDies(g)

(* What such a step does to its run: it comes back to life, or out of its   *)
(* cooldown, only if it is being judged, and what it owes or has completed  *)
(* is new or was so before.                                                 *)
RunMoves(t) ==
    /\ tasks' \in Seq(RunType) /\ Len(tasks') = Len(tasks) /\ DOMAIN tasks' = DOMAIN tasks
    /\ \A u \in DOMAIN tasks : u # t => tasks'[u] = tasks[u]
    /\ tasks'[t].agent = tasks[t].agent /\ tasks'[t].round \in {tasks[t].round, tasks[t].round + 1}
    /\ tasks'[t].aged => deadDispatch(t)'
    /\ Active(t)' => Active(t) \/ judgesOf(t) # {}
    /\ tasks[t].aged => tasks'[t].aged \/ judgesOf(t) # {}
    /\ tasks'[t].aged /\ settling(t)' => t \in late' \/ (tasks[t].aged /\ settling(t))
    /\ tasks'[t].row = "pending" =>
          (tasks[t].row = "pending" /\ tasks'[t].round = tasks[t].round) \/ tasks'[t].round = tasks[t].round + 1
    /\ tasks'[t].status = "completed" =>
          (tasks[t].status = "completed" /\ tasks'[t].round = tasks[t].round) \/ tasks'[t].round = tasks[t].round + 1

(* To the settlements: a new one takes up the present output, and one       *)
(* returns an output, or ends.                                              *)
Opens(t) ==
    \E h \in JudgeType :
        /\ h.task = t /\ spec.task = t /\ h.round = tasks'[t].round /\ h.pc = "judge"
        /\ judges' = judges \cup {h} /\ sentBack' = sentBack
        /\ tasks'[t].round = tasks[t].round => tasks[t].row = "pending"
        /\ worked(h) \in sentBack \/ (\E g \in judges : worked(g) = worked(h)) => worked(h) \in astray'
Returns(t) ==
    \E g \in judges :
        /\ g.task = t /\ tasks' = tasks
        /\ judges' = (judges \ {g}) \cup {[g EXCEPT !.pc = "retry"]}
        /\ sentBack' = sentBack \cup {worked(g)}
Stops(t) ==
    \E g \in judges :
        /\ g.task = t /\ judges' = judges \ {g} /\ sentBack' = sentBack
        /\ g.pc = "retry" => worked(g) \in astray' \/ tasks'[t].status = "running"

(* To the chain: what a settlement submits as it ends.                      *)
Submits(t) ==
    \E g \in judges :
        /\ g.task = t /\ g.pc = "judge" /\ judges' = judges \ {g} /\ sentBack' = sentBack
        /\ tasks'[t].row = "done"
        /\ \/ ops' = ops /\ job.status = "Accepted" /\ job' = submitted(worked(g))
           \/ job' = job /\ ops' = ops \cup {op(g.by, worked(g))}

(* And to everything else. *)
RunTells(t) ==
    /\ proc' = proc /\ spec' \in SpecType /\ spec'.task = spec.task
    /\ blind' = blind /\ doubled' = doubled /\ late \subseteq late' /\ astray \subseteq astray'
    /\ (judges' = judges /\ sentBack' = sentBack) \/ Opens(t) \/ Returns(t) \/ Stops(t)
    /\ (job' = job /\ ops' = ops) \/ Submits(t)

LEMMA ChangedRun ==
    ASSUME Typed, NEW t \in DOMAIN tasks, NEW run \in RunType, Change(t, run)
    PROVE  /\ tasks' \in Seq(RunType) /\ Len(tasks') = Len(tasks) /\ DOMAIN tasks' = DOMAIN tasks
           /\ \A u \in DOMAIN tasks : u # t => tasks'[u] = tasks[u]
           /\ tasks'[t] = run
BY DEF Typed, Change

LEMMA RunIs ==
    ASSUME Typed, NEW t \in DOMAIN tasks
    PROVE  /\ t \in Nat /\ tasks[t] \in RunType /\ tasks[t].round \in Nat
           /\ workOf(t) \in Work /\ workOf(t)[1] = t /\ workOf(t)[2] = tasks[t].round
<1>1. tasks \in Seq(RunType)
  BY DEF Typed
<1>2. t \in Nat /\ tasks[t] \in RunType
  BY <1>1
<1>3. tasks[t].round \in Nat
  BY <1>2 DEF RunType
<1>4. QED
  BY <1>2, <1>3 DEF workOf, Work

LEMMA JudgeIs ==
    ASSUME Typed, JudgesKnow, NEW g \in judges
    PROVE  /\ g \in JudgeType /\ g.task \in DOMAIN tasks /\ g.round \in Nat /\ g.round <= tasks[g.task].round
           /\ g.by \in Agents /\ worked(g) \in Work /\ worked(g)[1] = g.task /\ worked(g)[2] = g.round
           /\ judgesOf(g.task) # {}
<1>1. g \in JudgeType /\ Known(worked(g))
  BY DEF Typed, JudgesKnow
<1>2. g \in judgesOf(g.task)
  BY DEF judgesOf
<1>3. QED
  BY <1>1, <1>2 DEF JudgeType, Known, worked, Work

(* A settlement begins only for the run that the job is linked to.          *)
LEMMA Begin ==
    ASSUME Typed, NEW t \in DOMAIN tasks, NEW n \in Nat, NEW who \in {"callback", "drain"}, begins(t, n, who)
    PROVE  \/ judges' = judges
           \/ \E h \in JudgeType : /\ h.task = t /\ h.round = n /\ h.pc = "judge" /\ worked(h) = <<t, n>>
                                   /\ judges' = judges \cup {h} /\ spec.task = t
<1> DEFINE h == [task |-> t, round |-> n, who |-> who, pc |-> "judge", by |-> spec.worker, prior |-> spec.tries]
<1>1. spec.worker \in Agents /\ spec.tries \in Nat /\ t \in Nat
  BY RunIs DEF Typed, SpecType
<1>2. h \in JudgeType /\ h.task = t /\ h.round = n /\ h.pc = "judge" /\ worked(h) = <<t, n>>
  BY <1>1 DEF JudgeType, worked
<1>3. judges' = IF ~findsSpec(t) THEN judges ELSE judges \cup {h}
  BY DEF begins
<1> HIDE DEF h
<1>4. QED
  BY <1>2, <1>3 DEF findsSpec

LEMMA DeliveredEffects ==
    ASSUME Sound, NEW t \in DOMAIN tasks, NEW ok \in BOOLEAN, delivers(t), delivered(t, ok),
           UNCHANGED <<job, spec, proc, ops, history>>
    PROVE  RunMoves(t) /\ RunTells(t)
<1> DEFINE n == tasks[t].round + 1
           run == [tasks[t] EXCEPT !.status = "completed", !.live = FALSE, !.ok = ok, !.aged = FALSE,
                                   !.round = @ + 1, !.row = owes(t)]
<1>0. Typed /\ JudgesKnow /\ SentBackKnown /\ tasks[t] \in RunType /\ tasks[t].round \in Nat /\ ~tasks[t].aged
  BY RunIs DEF Sound, AgedAreDead, deadDispatch, delivers
<1>1. owes(t) \in {"none", "pending", "done"} /\ n \in Nat
  BY <1>0 DEF owes, RunType
<1>2. run \in RunType /\ Change(t, run)
  BY <1>0, <1>1 DEF RunType, delivered
<1>3. /\ run.agent = tasks[t].agent /\ run.status = "completed" /\ run.round = n /\ run.aged = FALSE
  BY <1>0 DEF RunType
<1>4. begins(t, n, "callback")
  BY DEF delivered
<1> HIDE DEF run
<1>5. tasks'[t] = run /\ tasks' \in Seq(RunType) /\ Len(tasks') = Len(tasks) /\ DOMAIN tasks' = DOMAIN tasks
      /\ \A u \in DOMAIN tasks : u # t => tasks'[u] = tasks[u]
  BY <1>0, <1>2, ChangedRun
<1>6. RunMoves(t)
  BY <1>0, <1>3, <1>5 DEF RunMoves, Active
<1>7. (judges' = judges /\ sentBack' = sentBack) \/ Opens(t)
  <2>1. CASE judges' = judges
    BY <2>1 DEF history
  <2>2. ASSUME NEW h \in JudgeType, h.task = t, h.round = n, h.pc = "judge", worked(h) = <<t, n>>,
               judges' = judges \cup {h}, spec.task = t
        PROVE  Opens(t)
    <3>1. \A work : Known(work) => work # <<t, n>>
      BY <1>0, <1>1 DEF Known
    <3>2. worked(h) \notin sentBack /\ \A g \in judges : worked(g) # worked(h)
      BY <1>0, <2>2, <3>1 DEF JudgesKnow, SentBackKnown
    <3>3. n # tasks[t].round
      BY <1>0
    <3>4. QED
      BY <1>3, <1>5, <2>2, <3>2, <3>3 DEF Opens, history
  <2>3. QED
    BY <1>0, <1>1, <1>4, <2>1, <2>2, Begin
<1>8. QED
  BY <1>0, <1>6, <1>7 DEF RunTells, history, Typed

LEMMA RunEffects ==
    ASSUME Sound, NEW t \in DOMAIN tasks, RunStep(t)
    PROVE  RunMoves(t) /\ RunTells(t)
<1>0. Typed /\ JudgesKnow /\ SentBackKnown /\ spec \in SpecType /\ tasks[t] \in RunType /\ tasks[t].round \in Nat
      /\ (tasks[t].aged => deadDispatch(t)) /\ workOf(t) = <<t, tasks[t].round>>
  BY RunIs DEF Sound, AgedAreDead, Typed, workOf
<1>1. CASE Deliver(t)
  BY <1>1, DeliveredEffects DEF Deliver
<1>2. CASE ReportFailure(t)
  BY <1>2, DeliveredEffects DEF ReportFailure
<1>3. CASE FallSilent(t)
  <2> DEFINE run == [tasks[t] EXCEPT !.live = FALSE]
  <2>1. run \in RunType /\ Change(t, run) /\ tasks[t].status = "running"
    BY <1>0, <1>3 DEF RunType, FallSilent, delivers
  <2>2. /\ run.agent = tasks[t].agent /\ run.status = tasks[t].status /\ run.ok = tasks[t].ok
        /\ run.round = tasks[t].round /\ run.aged = tasks[t].aged /\ run.row = tasks[t].row
    BY <1>0 DEF RunType
  <2> HIDE DEF run
  <2>3. tasks'[t] = run /\ tasks' \in Seq(RunType) /\ Len(tasks') = Len(tasks) /\ DOMAIN tasks' = DOMAIN tasks
        /\ \A u \in DOMAIN tasks : u # t => tasks'[u] = tasks[u]
    BY <1>0, <2>1, ChangedRun
  <2>4. RunMoves(t)
    BY <1>0, <1>3, <2>1, <2>2, <2>3 DEF RunMoves, Active, deadDispatch, settling, judgesOf, FallSilent
  <2>5. RunTells(t)
    BY <1>0, <1>3 DEF RunTells, FallSilent, history
  <2>6. QED
    BY <2>4, <2>5
<1>4. CASE reapStuckTasks(t)
  <2> DEFINE run == [tasks[t] EXCEPT !.status = "failed", !.live = FALSE, !.ok = FALSE, !.aged = FALSE]
  <2>1. run \in RunType /\ Change(t, run) /\ tasks[t].status = "running"
    BY <1>0, <1>4 DEF RunType, reapStuckTasks, Active
  <2>2. /\ run.agent = tasks[t].agent /\ run.status = "failed" /\ run.ok = FALSE
        /\ run.round = tasks[t].round /\ run.aged = FALSE /\ run.row = tasks[t].row
    BY <1>0 DEF RunType
  <2> HIDE DEF run
  <2>3. tasks'[t] = run /\ tasks' \in Seq(RunType) /\ Len(tasks') = Len(tasks) /\ DOMAIN tasks' = DOMAIN tasks
        /\ \A u \in DOMAIN tasks : u # t => tasks'[u] = tasks[u]
    BY <1>0, <2>1, ChangedRun
  <2>4. RunMoves(t)
    BY <1>0, <2>1, <2>2, <2>3 DEF RunMoves, Active, deadDispatch
  <2>5. RunTells(t)
    BY <1>0, <1>4 DEF RunTells, reapStuckTasks, history
  <2>6. QED
    BY <2>4, <2>5
<1>5. CASE Cooldown(t)
  <2> DEFINE run == [tasks[t] EXCEPT !.aged = TRUE]
  <2>1. run \in RunType /\ Change(t, run) /\ deadDispatch(t)
    BY <1>0, <1>5 DEF RunType, Cooldown
  <2>2. /\ run.agent = tasks[t].agent /\ run.status = tasks[t].status /\ run.ok = tasks[t].ok
        /\ run.round = tasks[t].round /\ run.aged = TRUE /\ run.row = tasks[t].row
    BY <1>0 DEF RunType
  <2> HIDE DEF run
  <2>3. tasks'[t] = run /\ tasks' \in Seq(RunType) /\ Len(tasks') = Len(tasks) /\ DOMAIN tasks' = DOMAIN tasks
        /\ \A u \in DOMAIN tasks : u # t => tasks'[u] = tasks[u]
    BY <1>0, <2>1, ChangedRun
  <2>4. judges' = judges /\ sentBack' = sentBack /\ astray' = astray /\ (settling(t) => t \in late') /\ late \subseteq late'
    BY <1>5 DEF Cooldown
  <2>5. RunMoves(t)
    BY <1>0, <2>1, <2>2, <2>3, <2>4 DEF RunMoves, Active, deadDispatch, settling, judgesOf
  <2>6. RunTells(t)
    BY <1>0, <1>5, <2>4 DEF RunTells, Cooldown
  <2>7. QED
    BY <2>5, <2>6
<1>6. CASE Drain(t)
  <2> DEFINE run == [tasks[t] EXCEPT !.row = owes(t)]
  <2>0. owes(t) \in {"none", "pending", "done"} /\ tasks[t].row = "pending"
    BY <1>0, <1>6 DEF owes, RunType, Drain
  <2>1. run \in RunType /\ Change(t, run)
    BY <1>0, <1>6, <2>0 DEF RunType, Drain
  <2>2. /\ run.agent = tasks[t].agent /\ run.status = tasks[t].status /\ run.ok = tasks[t].ok
        /\ run.round = tasks[t].round /\ run.aged = tasks[t].aged
    BY <1>0 DEF RunType
  <2> HIDE DEF run
  <2>3. tasks'[t] = run /\ tasks' \in Seq(RunType) /\ Len(tasks') = Len(tasks) /\ DOMAIN tasks' = DOMAIN tasks
        /\ \A u \in DOMAIN tasks : u # t => tasks'[u] = tasks[u]
    BY <1>0, <2>1, ChangedRun
  <2>4. RunMoves(t)
    BY <1>0, <2>0, <2>2, <2>3 DEF RunMoves, Active, deadDispatch, settling
  <2>5. begins(t, tasks[t].round, "drain") /\ sentBack' = sentBack /\ astray \subseteq astray'
        /\ (workOf(t) \in sentBack \cup {worked(g) : g \in judges} => workOf(t) \in astray')
    BY <1>6 DEF Drain
  <2>6. ASSUME NEW h \in JudgeType, h.task = t, h.round = tasks[t].round, h.pc = "judge",
               worked(h) = <<t, tasks[t].round>>, judges' = judges \cup {h}, spec.task = t
        PROVE  Opens(t)
    <3>1. worked(h) = workOf(t) /\ h.round = tasks'[t].round
      BY <1>0, <2>2, <2>3, <2>6
    <3>2. worked(h) \in sentBack \/ (\E g \in judges : worked(g) = worked(h)) => worked(h) \in astray'
      BY <2>5, <3>1
    <3>3. QED
      BY <2>0, <2>5, <2>6, <3>1, <3>2 DEF Opens
  <2>7. RunTells(t)
    <3>1. (judges' = judges /\ sentBack' = sentBack) \/ Opens(t)
      BY <1>0, <2>5, <2>6, Begin
    <3>2. QED
      BY <1>0, <1>6, <2>5, <3>1 DEF RunTells, Drain
  <2>8. QED
    BY <2>4, <2>7
<1>7. QED
  BY <1>1, <1>2, <1>3, <1>4, <1>5, <1>6 DEF RunStep

(* Closing a row, or reopening a task, as a settlement ends.                *)
LEMMA CloseMoves ==
    ASSUME Sound, NEW g \in judges, Close(g)
    PROVE  RunMoves(g.task) /\ judges' = judges \ {g} /\ tasks'[g.task].row = "done"
<1> DEFINE t == g.task
           run == [tasks[t] EXCEPT !.row = "done"]
<1>0. Typed /\ JudgesKnow /\ (tasks[t].aged => deadDispatch(t)) /\ t \in DOMAIN tasks /\ judgesOf(t) # {}
  BY JudgeIs DEF Sound, AgedAreDead
<1>1. tasks[t] \in RunType /\ tasks[t].round \in Nat
  BY <1>0, RunIs
<1>2. run \in RunType /\ Change(t, run) /\ judges' = judges \ {g}
  BY <1>1 DEF RunType, Close, Ends
<1>3. /\ run.agent = tasks[t].agent /\ run.status = tasks[t].status /\ run.ok = tasks[t].ok
      /\ run.round = tasks[t].round /\ run.aged = tasks[t].aged /\ run.row = "done"
  BY <1>1 DEF RunType
<1> HIDE DEF run
<1>4. tasks'[t] = run /\ tasks' \in Seq(RunType) /\ Len(tasks') = Len(tasks) /\ DOMAIN tasks' = DOMAIN tasks
      /\ \A u \in DOMAIN tasks : u # t => tasks'[u] = tasks[u]
  BY <1>0, <1>2, ChangedRun
<1>5. RunMoves(t)
  BY <1>0, <1>1, <1>3, <1>4 DEF RunMoves, Active, deadDispatch, settling
<1>6. QED
  BY <1>2, <1>3, <1>4, <1>5

LEMMA ReopenMoves ==
    ASSUME Sound, NEW g \in judges, NEW live \in BOOLEAN, NEW row \in {tasks[g.task].row, "done"},
           \/ Change(g.task, [reopened(g.task) EXCEPT !.live = live, !.row = row])
    PROVE  RunMoves(g.task) /\ tasks'[g.task].status = "running"
<1> DEFINE t == g.task
           run == [reopened(t) EXCEPT !.live = live, !.row = row]
<1>0. Typed /\ JudgesKnow /\ (tasks[t].aged => deadDispatch(t)) /\ t \in DOMAIN tasks /\ judgesOf(t) # {}
  BY JudgeIs DEF Sound, AgedAreDead
<1>1. tasks[t] \in RunType /\ tasks[t].round \in Nat
  BY <1>0, RunIs
<1>2. row \in {"none", "pending", "done"}
  BY <1>1 DEF RunType
<1>3. reopened(t) \in RunType
  BY <1>1 DEF RunType, reopened
<1>4. /\ reopened(t).agent = tasks[t].agent /\ reopened(t).status = "running"
      /\ reopened(t).round = tasks[t].round /\ reopened(t).aged = FALSE
  BY <1>1 DEF RunType, reopened
<1>5. run \in RunType
  BY <1>2, <1>3 DEF RunType
<1>6. /\ run.agent = tasks[t].agent /\ run.status = "running"
      /\ run.round = tasks[t].round /\ run.aged = FALSE /\ run.row = row
  BY <1>3, <1>4 DEF RunType
<1>7. Change(t, run)
  OBVIOUS
<1> HIDE DEF run
<1>8. tasks'[t] = run /\ tasks' \in Seq(RunType) /\ Len(tasks') = Len(tasks) /\ DOMAIN tasks' = DOMAIN tasks
      /\ \A u \in DOMAIN tasks : u # t => tasks'[u] = tasks[u]
  BY <1>0, <1>5, <1>7, ChangedRun
<1>9. RunMoves(t)
  BY <1>0, <1>1, <1>6, <1>8 DEF RunMoves, Active
<1>10. QED
  BY <1>6, <1>8, <1>9

(* A step that leaves the runs and keeps a judge of this one.               *)
LEMMA StillMoves ==
    ASSUME Sound, NEW g \in judges, tasks' = tasks
    PROVE  RunMoves(g.task)
<1>0. Typed /\ JudgesKnow /\ (tasks[g.task].aged => deadDispatch(g.task)) /\ judgesOf(g.task) # {}
      /\ g.task \in DOMAIN tasks /\ tasks \in Seq(RunType)
  BY JudgeIs DEF Sound, AgedAreDead, Typed
<1>1. QED
  BY <1>0 DEF RunMoves, Active, deadDispatch, settling

LEMMA JudgeEffects ==
    ASSUME Sound, NEW g \in judges, JudgeStep(g)
    PROVE  RunMoves(g.task) /\ RunTells(g.task)
<1>0. Typed /\ JudgesKnow /\ g \in JudgeType /\ g.task \in DOMAIN tasks /\ spec \in SpecType /\ tasks[g.task] \in RunType
  BY JudgeIs, RunIs DEF Sound, Typed
<1>1. CASE SendBack(g)
  <2>1. tasks' = tasks /\ judges' = (judges \ {g}) \cup {[g EXCEPT !.pc = "retry"]}
        /\ sentBack' = sentBack \cup {worked(g)} /\ astray' = astray /\ late' = late /\ blind' = blind
        /\ doubled' = doubled /\ job' = job /\ ops' = ops /\ proc' = proc
    BY <1>1 DEF SendBack
  <2>2. spec' \in SpecType /\ spec'.task = spec.task
    <3>1. g.prior \in Nat /\ spec' = [spec EXCEPT !.tries = g.prior + 1]
      BY <1>0, <1>1 DEF JudgeType, SendBack
    <3>2. QED
      BY <1>0, <3>1 DEF SpecType
  <2>3. Returns(g.task)
    BY <2>1 DEF Returns
  <2>4. QED
    BY <2>1, <2>2, <2>3, StillMoves DEF RunTells
<1>2. CASE Redispatch(g)
  <2>1. RunMoves(g.task) /\ tasks'[g.task].status = "running"
    BY <1>2, ReopenMoves DEF Redispatch
  <2>2. judges' = judges \ {g} /\ spec' = spec /\ proc' = proc /\ job' = job /\ ops' = ops
        /\ sentBack' = sentBack /\ astray' = astray /\ late' = late /\ blind' = blind /\ doubled' = doubled
    BY <1>2 DEF Redispatch, Ends, history
  <2>3. QED
    BY <1>0, <2>1, <2>2 DEF RunTells, Stops
<1>3. CASE RetryFails(g)
  BY <1>0, <1>3, CloseMoves DEF RetryFails, RunTells, Stops
<1>4. CASE Settle(g) \/ SubmitPending(g)
  <2>1. g.pc = "judge" /\ RunMoves(g.task) /\ judges' = judges \ {g} /\ tasks'[g.task].row = "done"
    BY <1>4, CloseMoves DEF Settle, SubmitPending
  <2>2. proc' = proc /\ spec' = spec /\ sentBack' = sentBack /\ astray' = astray /\ late' = late /\ blind' = blind
        /\ doubled' = doubled
    BY <1>4 DEF Settle, SubmitPending, history
  <2>3. \/ job' = job /\ ops' = ops
        \/ ops' = ops /\ job.status = "Accepted" /\ job' = submitted(worked(g))
        \/ job' = job /\ ops' = ops \cup {op(g.by, worked(g))}
    BY <1>4 DEF Settle, SubmitPending, submittable
  <2>4. Stops(g.task)
    BY <2>1, <2>2 DEF Stops
  <2>5. (job' = job /\ ops' = ops) \/ Submits(g.task)
    BY <2>1, <2>2, <2>3 DEF Submits
  <2>6. QED
    BY <1>0, <2>1, <2>2, <2>4, <2>5 DEF RunTells
<1>5. CASE SettlementDies(g)
  <2>1. RunMoves(g.task)
    <3>1. CASE tasks' = tasks
      BY <3>1, StillMoves
    <3>2. CASE Change(g.task, reopened(g.task))
      <4> DEFINE t == g.task
      <4>1. tasks[t].live \in BOOLEAN /\ tasks[t].row = tasks[t].row
        BY <1>0 DEF RunType
      <4>2. reopened(t) = [reopened(t) EXCEPT !.live = tasks[t].live, !.row = tasks[t].row]
        BY <1>0 DEF reopened, RunType
      <4>3. QED
        BY <3>2, <4>1, <4>2, ReopenMoves
    <3>3. QED
      BY <1>5, <3>1, <3>2 DEF SettlementDies
  <2>2. judges' = judges \ {g} /\ spec' = spec /\ proc' = proc /\ job' = job /\ ops' = ops
        /\ sentBack' = sentBack /\ astray \subseteq astray' /\ (g.pc = "retry" => worked(g) \in astray')
        /\ late' = late /\ blind' = blind /\ doubled' = doubled
    BY <1>5 DEF SettlementDies, Ends
  <2>3. QED
    BY <1>0, <2>1, <2>2 DEF RunTells, Stops
<1>6. QED
  BY <1>1, <1>2, <1>3, <1>4, <1>5 DEF JudgeStep, Judging

(* What a request is left with after a step of its own: only that claims of *)
(* the others may be marked as lapsed.                                      *)
Turn(p, pc, w, n, work) ==
    /\ proc' \in [Procs -> ProcType]
    /\ proc'[p].pc = pc /\ proc'[p].me = w /\ proc'[p].saw = n /\ proc'[p].work = work
    /\ \A q \in Procs : q # p => /\ proc'[q].pc = proc[q].pc /\ proc'[q].me = proc[q].me
                                 /\ proc'[q].saw = proc[q].saw /\ proc'[q].work = proc[q].work

LEMMA ConstantTypes == NONE \in Nat /\ NoWork \in Work /\ NoWorker \in Agents /\ Idle \in ProcType
<1>1. NoWork \in Work /\ NoWorker \in Agents /\ NONE \in Nat
  BY DEF NoWork, NONE, Work, Agents
<1>2. QED
  BY <1>1 DEF Idle, ProcType, NONE

LEMMA TurnTo ==
    ASSUME Typed, NEW p \in Procs, NEW r \in ProcType, proc' = [proc EXCEPT ![p] = r]
    PROVE  Turn(p, r.pc, r.me, r.saw, r.work)
BY DEF Typed, Turn

LEMMA EndTurns ==
    ASSUME Typed, NEW p \in Procs, End(p)
    PROVE  Turn(p, "idle", NoWorker, NONE, NoWork)
<1>1. Turn(p, Idle.pc, Idle.me, Idle.saw, Idle.work)
  BY ConstantTypes, TurnTo DEF End
<1>2. QED
  BY <1>1 DEF Idle

LEMMA DispatchTurns ==
    ASSUME Typed, NEW p \in Procs, NEW w \in Agents, NEW n \in Nat, Dispatch(p, w, n)
    PROVE  Turn(p, "dispatch", w, n, proc[p].work)
<1> DEFINE r == [proc[p] EXCEPT !.pc = "dispatch", !.me = w, !.saw = n, !.lapsed = FALSE]
<1>1. proc[p] \in ProcType /\ proc' = [proc EXCEPT ![p] = r]
  BY DEF Typed, Dispatch
<1>2. r \in ProcType /\ r.pc = "dispatch" /\ r.me = w /\ r.saw = n /\ r.work = proc[p].work
  BY <1>1 DEF ProcType
<1> HIDE DEF r
<1>3. Turn(p, r.pc, r.me, r.saw, r.work)
  BY <1>1, <1>2, TurnTo
<1>4. QED
  BY <1>2, <1>3

Leaves(p) == Refused(p) \/ InsertFails(p) \/ Link(p) \/ Die(p) \/ Resubmit(p)
Takes(p) == Accepted(p) \/ InVain(p) \/ Pending(p)

LEMMA EndSteps ==
    ASSUME Typed, NEW p \in Procs, Leaves(p)
    PROVE  Turn(p, "idle", NoWorker, NONE, NoWork)
<1>1. CASE End(p)
  BY <1>1, EndTurns
<1>2. CASE Refused(p) /\ releases(me(p))
  <2>1. proc'[p] = Idle /\ proc' = [q \in Procs |-> proc'[q]]
    BY <1>2 DEF Refused
  <2>2. ASSUME NEW q \in Procs, q # p
        PROVE  /\ proc'[q] \in ProcType /\ proc'[q].pc = proc[q].pc /\ proc'[q].me = proc[q].me
               /\ proc'[q].saw = proc[q].saw /\ proc'[q].work = proc[q].work
    <3> DEFINE b == proc[q].lapsed \/ (At(q, "accept") /\ me(q) = me(p))
    <3>1. proc'[q] = [proc[q] EXCEPT !.lapsed = b] /\ b \in BOOLEAN
      BY <1>2, <2>2 DEF Refused
    <3>2. proc[q] \in ProcType
      BY DEF Typed
    <3> HIDE DEF b
    <3>3. QED
      BY <3>1, <3>2 DEF ProcType
  <2>3. proc' \in [Procs -> ProcType]
    BY <2>1, <2>2, ConstantTypes
  <2>4. QED
    BY <2>1, <2>2, <2>3 DEF Turn, Idle
<1>3. QED
  BY <1>1, <1>2 DEF Leaves, Refused, InsertFails, Link, Die, Resubmit

LEMMA TakeSteps ==
    ASSUME Typed, NEW p \in Procs, Takes(p)
    PROVE  Turn(p, "dispatch", proc[p].me, spec.task, proc[p].work)
<1>1. proc[p].me \in Agents /\ spec.task \in Nat
  BY DEF Typed, ProcType, SpecType
<1>2. Dispatch(p, proc[p].me, spec.task)
  BY DEF Takes, Accepted, InVain, Pending, me
<1>3. QED
  BY <1>1, <1>2, DispatchTurns

LEMMA HealDispatchTurns ==
    ASSUME Typed, NEW p \in Procs, NEW w \in Miners, HealDispatch(p, w)
    PROVE  Turn(p, "dispatch", w, spec.task, proc[p].work)
<1>1. w \in Agents /\ spec.task \in Nat
  BY ClaimAssumption DEF Typed, SpecType, Agents
<1>2. Dispatch(p, w, spec.task)
  BY DEF HealDispatch, linked
<1>3. QED
  BY <1>1, <1>2, DispatchTurns

LEMMA ClaimTurns ==
    ASSUME Typed, NEW p \in Procs, NEW w \in Workers, claimJobSpec(p, w)
    PROVE  Turn(p, "accept", w, proc[p].saw, proc[p].work)
<1> DEFINE r == [proc[p] EXCEPT !.pc = "accept", !.me = w]
<1>1. proc[p] \in ProcType /\ proc' = [proc EXCEPT ![p] = r] /\ w \in Agents
  BY DEF Typed, claimJobSpec, Agents
<1>2. r \in ProcType /\ r.pc = "accept" /\ r.me = w /\ r.saw = proc[p].saw /\ r.work = proc[p].work
  BY <1>1 DEF ProcType
<1> HIDE DEF r
<1>3. Turn(p, r.pc, r.me, r.saw, r.work)
  BY <1>1, <1>2, TurnTo
<1>4. QED
  BY <1>2, <1>3

LEMMA InsertTurns ==
    ASSUME Typed, NEW p \in Procs, Insert(p)
    PROVE  Turn(p, "link", proc[p].me, Len(tasks) + 1, proc[p].work)
<1> DEFINE n == Len(tasks) + 1
           r == [proc[p] EXCEPT !.pc = "link", !.saw = n]
<1>1. proc[p] \in ProcType /\ proc' = [proc EXCEPT ![p] = r]
  BY DEF Typed, Insert
<1>0. n \in Nat
  <2>1. tasks \in Seq(RunType)
    BY DEF Typed
  <2>2. QED
    BY <2>1
<1> HIDE DEF n
<1>2. r \in ProcType /\ r.pc = "link" /\ r.me = proc[p].me /\ r.saw = n /\ r.work = proc[p].work
  BY <1>0, <1>1 DEF ProcType
<1> HIDE DEF r
<1>3. Turn(p, r.pc, r.me, r.saw, r.work)
  BY <1>1, <1>2, TurnTo
<1>4. QED
  BY <1>2, <1>3 DEF n

LEMMA LinkedIsRun ==
    ASSUME Typed, shouldResubmitAcceptedJob
    PROVE  spec.task \in DOMAIN tasks /\ spec.task \in Nat /\ workOf(spec.task) \in Work
<1>1. spec.task \in Nat /\ spec.task # 0 /\ spec.task <= Len(tasks) /\ tasks \in Seq(RunType)
  BY DEF Typed, SpecType, shouldResubmitAcceptedJob, linked, NONE
<1>2. spec.task \in DOMAIN tasks
  BY <1>1
<1>3. tasks[spec.task].round \in Nat
  <2>1. tasks[spec.task] \in RunType
    BY <1>1, <1>2
  <2>2. QED
    BY <2>1 DEF RunType
<1>4. QED
  BY <1>1, <1>2, <1>3 DEF workOf, Work

LEMMA HealSubmitTurns ==
    ASSUME Typed, NEW p \in Procs, NEW w \in Miners, HealSubmit(p, w)
    PROVE  Turn(p, "resubmit", w, proc[p].saw, workOf(spec.task))
<1> DEFINE work == workOf(spec.task)
           r == [proc[p] EXCEPT !.pc = "resubmit", !.me = w, !.work = work]
<1>1. proc[p] \in ProcType /\ proc' = [proc EXCEPT ![p] = r] /\ w \in Agents
  BY ClaimAssumption DEF Typed, HealSubmit, linked, Agents
<1>2. work \in Work
  BY LinkedIsRun DEF HealSubmit
<1> HIDE DEF work
<1>3. r \in ProcType /\ r.pc = "resubmit" /\ r.me = w /\ r.saw = proc[p].saw /\ r.work = work
  BY <1>1, <1>2 DEF ProcType
<1> HIDE DEF r
<1>4. Turn(p, r.pc, r.me, r.saw, r.work)
  BY <1>1, <1>3, TurnTo
<1>5. QED
  BY <1>3, <1>4 DEF work

LEMMA Appended ==
    ASSUME Typed, NEW r \in RunType, tasks' = Append(tasks, r)
    PROVE  /\ tasks' \in Seq(RunType) /\ Len(tasks') = Len(tasks) + 1 /\ Len(tasks) \in Nat
           /\ DOMAIN tasks' = DOMAIN tasks \cup {Len(tasks) + 1} /\ Len(tasks) + 1 \notin DOMAIN tasks
           /\ tasks'[Len(tasks) + 1] = r
           /\ \A u \in DOMAIN tasks : tasks'[u] = tasks[u]
<1>1. tasks \in Seq(RunType)
  BY DEF Typed
<1>2. QED
  BY <1>1

LEMMA NewRun ==
    ASSUME NEW w \in Agents, NEW status \in {"running", "failed"}
    PROVE  /\ Run(w, status) \in RunType
           /\ Run(w, status).agent = w /\ Run(w, status).status = status /\ Run(w, status).aged = FALSE
           /\ Run(w, status).row = "none"
<1>1. NoWorker \in Agents /\ (status = "running") \in BOOLEAN
  BY DEF Agents
<1>2. QED
  BY <1>1 DEF Run, RunType

LEMMA JobMoves ==
    ASSUME Typed, NEW w \in Agents, NEW work \in Work
    PROVE  /\ accepted(w) \in JobType /\ submitted(work) \in JobType
           /\ accepted(w).status = "Accepted" /\ accepted(w).by = w
           /\ submitted(work).status = "Submitted" /\ submitted(work).work = work /\ submitted(work).by = job.by
BY DEF Typed, JobType, accepted, submitted

(* The runs as a step of a request leaves them. *)
AddsRun(p, status) ==
    /\ tasks' \in Seq(RunType) /\ Len(tasks') = Len(tasks) + 1 /\ Len(tasks) \in Nat
    /\ DOMAIN tasks' = DOMAIN tasks \cup {Len(tasks) + 1} /\ Len(tasks) + 1 \notin DOMAIN tasks
    /\ \A u \in DOMAIN tasks : tasks'[u] = tasks[u]
    /\ tasks'[Len(tasks) + 1].agent = proc[p].me /\ tasks'[Len(tasks) + 1].status = status
    /\ tasks'[Len(tasks) + 1].row = "none" /\ tasks'[Len(tasks) + 1].aged = FALSE

LEMMA InsertAdds ==
    ASSUME Typed, NEW p \in Procs, NEW status \in {"running", "failed"}, tasks' = Append(tasks, Run(me(p), status))
    PROVE  AddsRun(p, status)
<1>1. me(p) \in Agents
  BY DEF Typed, ProcType, me
<1> DEFINE r == Run(me(p), status)
<1>2. r \in RunType /\ r.agent = me(p) /\ r.status = status /\ r.aged = FALSE /\ r.row = "none"
  BY <1>1, NewRun
<1>3. tasks' = Append(tasks, r) /\ me(p) = proc[p].me
  BY DEF me
<1> HIDE DEF r
<1>4. QED
  BY <1>2, <1>3, Appended DEF AddsRun

(* Each request's steps, as what they do to the runs and to the request. *)
RequestStep(p) ==
    \/ Takes(p) \/ Leaves(p) \/ Insert(p)
    \/ \E w \in Workers : claimJobSpec(p, w)
    \/ \E w \in Miners : HealSubmit(p, w) \/ HealDispatch(p, w)

LEMMA StepsAre ==
    ASSUME [Next]_vars
    PROVE  \/ Deadline \/ Expire \/ UNCHANGED vars
           \/ \E o \in ops : Land(o)
           \/ \E p \in Procs : RequestStep(p)
           \/ \E t \in DOMAIN tasks : RunStep(t)
           \/ \E g \in judges : JudgeStep(g)
<1>1. ASSUME NEW p \in Procs,
             \/ Request(p) \/ InVain(p) \/ Pending(p) \/ InsertFails(p) \/ Die(p)
             \/ \E w \in Workers : claimJobSpec(p, w)
             \/ \E w \in Miners : HealSubmit(p, w) \/ HealDispatch(p, w)
      PROVE  RequestStep(p)
  BY <1>1 DEF Request, RequestStep, Takes, Leaves
<1>2. QED
  BY <1>1 DEF Next, RunStep, JudgeStep

(* A step of a run or a settlement, from here on, is what it moves and tells. *)
LEMMA KnownStays ==
    ASSUME Sound, NEW work, Known(work),
           \/ tasks' = tasks
           \/ \E p \in Procs, status \in {"running", "failed"} : AddsRun(p, status)
           \/ \E t \in DOMAIN tasks : RunMoves(t)
    PROVE  Known(work)'
<1>1. work[1] \in DOMAIN tasks /\ work \in Work /\ work[2] \in Nat /\ tasks[work[1]].round \in Nat
  BY RunIs DEF Sound, Known, Work
<1>2. CASE tasks' = tasks
  BY <1>2 DEF Known
<1>3. CASE \E p \in Procs, status \in {"running", "failed"} : AddsRun(p, status)
  BY <1>1, <1>3 DEF Known, AddsRun
<1>4. ASSUME NEW t \in DOMAIN tasks, RunMoves(t)
      PROVE  Known(work)'
  BY <1>1, <1>4 DEF Known, RunMoves
<1>5. QED
  BY <1>2, <1>3, <1>4

LEMMA MovesSound ==
    ASSUME Sound, NEW t \in DOMAIN tasks, RunMoves(t), RunTells(t)
    PROVE  Sound'
<1>0. Typed /\ AgedAreDead /\ JudgesKnow /\ SentBackKnown /\ SeesRuns /\ job \in JobType /\ ops \subseteq OpType
      /\ judges \subseteq JudgeType
  BY DEF Sound, Typed
<1>1. tasks' \in Seq(RunType) /\ t \in DOMAIN tasks' /\ tasks'[t] \in RunType /\ tasks'[t].round \in Nat
  <2>1. tasks' \in Seq(RunType) /\ t \in DOMAIN tasks'
    BY DEF RunMoves
  <2>2. tasks'[t] \in RunType
    BY <2>1
  <2>3. QED
    BY <2>1, <2>2 DEF RunType
<1>2. \A work : Known(work) => Known(work)'
  BY KnownStays
<1>3. job' \in JobType /\ ops' \subseteq OpType
  <2>1. CASE job' = job /\ ops' = ops
    BY <1>0, <2>1
  <2>2. CASE Submits(t)
    <3> PICK g \in judges : \/ ops' = ops /\ job.status = "Accepted" /\ job' = submitted(worked(g))
                            \/ job' = job /\ ops' = ops \cup {op(g.by, worked(g))}
      BY <2>2 DEF Submits
    <3>1. g.by \in Agents /\ worked(g) \in Work
      BY <1>0, JudgeIs
    <3>2. submitted(worked(g)) \in JobType /\ op(g.by, worked(g)) \in OpType
      BY <1>0, <3>1, JobMoves, ConstantTypes DEF op, OpType
    <3>3. QED
      BY <1>0, <3>2
  <2>3. QED
    BY <2>1, <2>2 DEF RunTells
<1>4. judges' \subseteq JudgeType /\ JudgesKnow' /\ SentBackKnown'
  <2>1. CASE judges' = judges /\ sentBack' = sentBack
    BY <1>0, <1>2, <2>1 DEF JudgesKnow, SentBackKnown, worked
  <2>2. CASE Opens(t)
    <3> PICK h \in JudgeType : /\ h.task = t /\ h.round = tasks'[t].round
                               /\ judges' = judges \cup {h} /\ sentBack' = sentBack
      BY <2>2 DEF Opens
    <3>1. worked(h) = <<t, tasks'[t].round>> /\ t \in Nat
      BY <1>0, RunIs DEF worked
    <3>2. Known(worked(h))'
      BY <1>1, <3>1 DEF Known, Work, worked
    <3>3. \A g \in judges : Known(worked(g))'
      BY <1>0, <1>2 DEF JudgesKnow, worked
    <3>4. QED
      BY <1>0, <1>2, <3>2, <3>3 DEF JudgesKnow, SentBackKnown
  <2>3. CASE Returns(t)
    <3> PICK g \in judges : /\ judges' = (judges \ {g}) \cup {[g EXCEPT !.pc = "retry"]}
                            /\ sentBack' = sentBack \cup {worked(g)}
      BY <2>3 DEF Returns
    <3> DEFINE h == [g EXCEPT !.pc = "retry"]
    <3>1. g \in JudgeType /\ Known(worked(g))
      BY <1>0 DEF JudgesKnow
    <3>2. h \in JudgeType /\ worked(h) = worked(g)
      BY <3>1 DEF JudgeType, worked
    <3>3. judges' = (judges \ {g}) \cup {h}
      OBVIOUS
    <3> HIDE DEF h
    <3>4. \A f \in judges' : Known(worked(f))'
      <4>1. ASSUME NEW f \in judges'  PROVE  Known(worked(f))
        BY <1>0, <3>1, <3>2, <3>3 DEF JudgesKnow
      <4>2. QED
        BY <1>2, <4>1 DEF worked
    <3>5. \A work \in sentBack' : Known(work)'
      BY <1>0, <1>2, <3>1 DEF SentBackKnown
    <3>6. QED
      BY <1>0, <3>2, <3>3, <3>4, <3>5 DEF JudgesKnow, SentBackKnown
  <2>4. CASE Stops(t)
    <3>1. judges' \subseteq judges /\ sentBack' = sentBack
      BY <2>4 DEF Stops
    <3>2. \A g \in judges : Known(worked(g))'
      BY <1>0, <1>2 DEF JudgesKnow, worked
    <3>3. QED
      BY <1>0, <1>2, <3>1, <3>2 DEF JudgesKnow, SentBackKnown
  <2>5. QED
    BY <2>1, <2>2, <2>3, <2>4 DEF RunTells
<1>5. Typed' /\ SeesRuns'
  BY <1>0, <1>1, <1>3, <1>4 DEF Typed, SeesRuns, Starting, RunMoves, RunTells
<1>6. AgedAreDead'
  BY <1>0 DEF AgedAreDead, RunMoves, deadDispatch
<1>7. QED
  BY <1>4, <1>5, <1>6 DEF Sound

(* A step of a request leaves what is judged. *)
LEMMA StillJudged ==
    ASSUME Sound, judges' = judges, sentBack' = sentBack,
           \/ tasks' = tasks
           \/ \E p \in Procs, status \in {"running", "failed"} : AddsRun(p, status)
    PROVE  AgedAreDead' /\ JudgesKnow' /\ SentBackKnown' /\ judges' \subseteq JudgeType
<1>1. \A work : Known(work) => Known(work)'
  BY KnownStays
<1>2. JudgesKnow' /\ SentBackKnown'
  BY <1>1 DEF Sound, JudgesKnow, SentBackKnown, worked
<1>3. AgedAreDead'
  BY DEF Sound, AgedAreDead, AddsRun, deadDispatch
<1>4. QED
  BY <1>2, <1>3 DEF Sound, Typed

LEMMA SeesStay ==
    ASSUME Sound, NEW p \in Procs, NEW pc, NEW w, NEW n, NEW work, Turn(p, pc, w, n, work),
           pc \in {"dispatch", "link"} => n <= Len(tasks'),
           Len(tasks') \in Nat, Len(tasks') >= Len(tasks)
    PROVE  SeesRuns'
<1>1. ASSUME NEW q \in Procs, Starting(q)'
      PROVE  proc'[q].saw <= Len(tasks')
  <2>1. CASE q = p
    BY <1>1, <2>1 DEF Turn, Starting
  <2>2. CASE q # p
    <3>1. Starting(q) /\ proc'[q].saw = proc[q].saw
      BY <1>1, <2>2 DEF Turn, Starting
    <3>2. proc[q].saw \in Nat /\ proc[q].saw <= Len(tasks) /\ Len(tasks) \in Nat
      <4>1. tasks \in Seq(RunType)
        BY DEF Sound, Typed
      <4>2. QED
        BY <3>1, <4>1 DEF Sound, Typed, ProcType, SeesRuns
    <3>3. QED
      BY <3>1, <3>2
  <2>3. QED
    BY <2>1, <2>2
<1>2. QED
  BY <1>1 DEF SeesRuns

LEMMA RequestSound ==
    ASSUME Sound, NEW p \in Procs, RequestStep(p)
    PROVE  Sound'
<1>0. Typed /\ SeesRuns /\ spec \in SpecType /\ job \in JobType /\ ops \subseteq OpType
      /\ proc[p] \in ProcType /\ blind \in BOOLEAN /\ doubled \in BOOLEAN /\ tasks \in Seq(RunType)
      /\ spec.task <= Len(tasks)
  BY DEF Sound, Typed
<1>1. proc[p].me \in Agents /\ proc[p].work \in Work /\ proc[p].saw \in Nat /\ Len(tasks) \in Nat
      /\ spec.task \in Nat
  <2>1. Len(tasks) \in Nat
    BY <1>0
  <2>2. QED
    BY <1>0, <2>1 DEF ProcType, SpecType
<1>2. proc' \in [Procs -> ProcType]
  BY <1>0, EndSteps, TakeSteps, InsertTurns, ClaimTurns, HealSubmitTurns, HealDispatchTurns DEF RequestStep, Turn
<1>a. judges' = judges /\ sentBack' = sentBack
  BY DEF RequestStep, Takes, Leaves, Accepted, InVain, Pending, Refused, Link, Die, Resubmit, claimJobSpec,
         HealSubmit, HealDispatch, Insert, InsertFails, history
(* Whoever does not begin a run. *)
<1>3. ASSUME tasks' = tasks, ~Insert(p), ~InsertFails(p), job' \in JobType, spec' \in SpecType, ops' \subseteq OpType,
             blind' \in BOOLEAN, doubled' \in BOOLEAN, spec'.task <= Len(tasks)
      PROVE  Sound'
  <2>1. Len(tasks') = Len(tasks) /\ tasks' \in Seq(RunType)
    BY <1>0, <1>3
  <2>2. SeesRuns'
    <3>1. CASE Takes(p)
      BY <1>0, <1>1, <2>1, <3>1, TakeSteps, SeesStay
    <3>2. CASE Leaves(p)
      BY <1>0, <1>1, <2>1, <3>2, EndSteps, SeesStay
    <3>3. CASE \E w \in Workers : claimJobSpec(p, w)
      BY <1>0, <1>1, <2>1, <3>3, ClaimTurns, SeesStay
    <3>4. CASE \E w \in Miners : HealSubmit(p, w)
      BY <1>0, <1>1, <2>1, <3>4, HealSubmitTurns, SeesStay
    <3>5. CASE \E w \in Miners : HealDispatch(p, w)
      BY <1>0, <1>1, <2>1, <3>5, HealDispatchTurns, SeesStay
    <3>6. QED
      BY <1>3, <3>1, <3>2, <3>3, <3>4, <3>5 DEF RequestStep
  <2>3. QED
    BY <1>0, <1>2, <1>3, <1>a, <2>1, <2>2, StillJudged DEF Sound, Typed
<1>4. CASE Takes(p)
  <2>1. job' \in JobType
    BY <1>0, <1>1, <1>4, JobMoves DEF Takes, Accepted, InVain, Pending, me
  <2>2. ops' \subseteq OpType
    BY <1>0, <1>1, <1>4, ConstantTypes DEF Takes, Accepted, InVain, Pending, me, op, OpType
  <2>3. spec' = spec /\ tasks' = tasks /\ blind' \in BOOLEAN /\ doubled' = doubled
    BY <1>0, <1>4 DEF Takes, Accepted, InVain, Pending, history
  <2>4. ~Insert(p) /\ ~InsertFails(p)
    BY <1>4 DEF Takes, Accepted, InVain, Pending, Insert, InsertFails, At
  <2>5. QED
    BY <1>0, <1>3, <2>1, <2>2, <2>3, <2>4
<1>5. CASE Insert(p)
  <2>1. AddsRun(p, "running")
    BY <1>0, <1>5, InsertAdds DEF Insert
  <2>2. job' = job /\ spec' = spec /\ ops' = ops /\ blind' = blind /\ doubled' \in BOOLEAN
    BY <1>0, <1>5 DEF Insert
  <2>3. AgedAreDead' /\ JudgesKnow' /\ SentBackKnown' /\ judges' \subseteq JudgeType
    BY <1>a, <2>1, StillJudged
  <2>4. SeesRuns'
    BY <1>0, <1>1, <1>5, <2>1, InsertTurns, SeesStay DEF AddsRun
  <2>5. QED
    BY <1>0, <1>1, <1>2, <2>1, <2>2, <2>3, <2>4 DEF Sound, Typed, AddsRun
<1>6. CASE InsertFails(p)
  <2>1. AddsRun(p, "failed")
    BY <1>0, <1>6, InsertAdds DEF InsertFails
  <2>2. job' = job /\ spec' = spec /\ ops' = ops /\ blind' = blind /\ doubled' = doubled
    BY <1>0, <1>6 DEF InsertFails, history
  <2>3. AgedAreDead' /\ JudgesKnow' /\ SentBackKnown' /\ judges' \subseteq JudgeType
    BY <1>a, <2>1, StillJudged
  <2>4. SeesRuns'
    BY <1>0, <1>1, <1>6, <2>1, EndSteps, SeesStay DEF Leaves, AddsRun
  <2>5. QED
    BY <1>0, <1>1, <1>2, <2>1, <2>2, <2>3, <2>4 DEF Sound, Typed, AddsRun
<1>7. CASE Refused(p) \/ \E w \in Workers : claimJobSpec(p, w)
  <2>1. spec' \in SpecType /\ spec'.task = spec.task
    BY <1>0, <1>7, ConstantTypes DEF Refused, claimJobSpec, SpecType, Agents
  <2>2. job' = job /\ tasks' = tasks /\ ops' = ops /\ blind' = blind /\ doubled' = doubled
    BY <1>7 DEF Refused, claimJobSpec, history
  <2>3. ~Insert(p) /\ ~InsertFails(p)
    BY <1>7 DEF Refused, claimJobSpec, Insert, InsertFails, At
  <2>4. QED
    BY <1>0, <1>3, <2>1, <2>2, <2>3
<1>8. CASE Die(p)
  <2>1. ops' \subseteq OpType
    BY <1>0, <1>1, <1>8 DEF Die, OpType, op, me
  <2>2. job' = job /\ spec' = spec /\ tasks' = tasks /\ blind' = blind /\ doubled' \in BOOLEAN
    BY <1>0, <1>8 DEF Die
  <2>3. ~Insert(p) /\ ~InsertFails(p)
    <3>1. tasks # Append(tasks, Run(me(p), "running")) /\ tasks # Append(tasks, Run(me(p), "failed"))
      <4>1. Run(me(p), "running") \in RunType /\ Run(me(p), "failed") \in RunType
        BY <1>1, NewRun DEF me
      <4>2. \A r \in RunType : tasks # Append(tasks, r)
        <5>1. ASSUME NEW r \in RunType, tasks = Append(tasks, r)
              PROVE  FALSE
          <6>1. Len(Append(tasks, r)) = Len(tasks) + 1
            BY <1>0
          <6>2. QED
            BY <1>1, <5>1, <6>1
        <5>2. QED
          BY <5>1
      <4>3. QED
        BY <4>1, <4>2
    <3>2. QED
      BY <2>2, <3>1 DEF Insert, InsertFails
  <2>4. QED
    BY <1>0, <1>3, <2>1, <2>2, <2>3
<1>9. CASE Resubmit(p)
  <2>1. job' \in JobType
    BY <1>0, <1>1, <1>9, ConstantTypes, JobMoves DEF Resubmit
  <2>2. spec' = spec /\ tasks' = tasks /\ ops' = ops /\ blind' = blind /\ doubled' = doubled
    BY <1>9 DEF Resubmit, history
  <2>3. ~Insert(p) /\ ~InsertFails(p)
    BY <1>9 DEF Resubmit, Insert, InsertFails, At
  <2>4. QED
    BY <1>0, <1>3, <2>1, <2>2, <2>3
<1>10. CASE Link(p)
  <2>1. job' = job /\ tasks' = tasks /\ ops' = ops /\ blind' = blind /\ doubled' = doubled
    BY <1>10 DEF Link, history
  <2>2. spec' \in SpecType /\ spec'.task = proc[p].saw
    BY <1>0, <1>1, <1>10 DEF Link, SpecType, me
  <2>3. proc[p].saw <= Len(tasks)
    BY <1>0, <1>10 DEF Link, SeesRuns, Starting, At
  <2>4. ~Insert(p) /\ ~InsertFails(p)
    BY <1>10 DEF Link, Insert, InsertFails, At
  <2>5. QED
    BY <1>0, <1>3, <2>1, <2>2, <2>3, <2>4
<1>11. CASE \E w \in Miners : HealSubmit(p, w) \/ HealDispatch(p, w)
  <2>1. job' = job /\ spec' = spec /\ tasks' = tasks /\ ops' = ops /\ blind' = blind /\ doubled' = doubled
    BY <1>11 DEF HealSubmit, HealDispatch, history
  <2>2. ~Insert(p) /\ ~InsertFails(p)
    BY <1>11 DEF HealSubmit, HealDispatch, sweeps, Insert, InsertFails, At
  <2>3. QED
    BY <1>0, <1>3, <2>1, <2>2
<1>12. QED
  BY <1>4, <1>5, <1>6, <1>7, <1>8, <1>9, <1>10, <1>11 DEF RequestStep, Leaves

LEMMA ExpireKeeps ==
    ASSUME Typed, Expire
    PROVE  /\ proc' \in [Procs -> ProcType]
           /\ \A q \in Procs : /\ proc'[q].pc = proc[q].pc /\ proc'[q].me = proc[q].me
                               /\ proc'[q].saw = proc[q].saw /\ proc'[q].work = proc[q].work
<1>1. ASSUME NEW q \in Procs
      PROVE  /\ proc'[q] \in ProcType /\ proc'[q].pc = proc[q].pc /\ proc'[q].me = proc[q].me
             /\ proc'[q].saw = proc[q].saw /\ proc'[q].work = proc[q].work
  <2> DEFINE b == proc[q].lapsed \/ At(q, "accept")
  <2>1. proc'[q] = [proc[q] EXCEPT !.lapsed = b] /\ b \in BOOLEAN /\ proc[q] \in ProcType
    BY DEF Expire, Typed
  <2> HIDE DEF b
  <2>2. QED
    BY <2>1 DEF ProcType
<1>2. proc' = [q \in Procs |-> proc'[q]]
  BY DEF Expire
<1>3. QED
  BY <1>1, <1>2

LEMMA SoundHolds == Spec => []Sound
<1>1. Init => Sound
  <2> SUFFICES ASSUME Init  PROVE  Sound
    OBVIOUS
  <2>1. job \in JobType /\ spec \in SpecType
    BY ConstantTypes DEF Init, JobType, SpecType
  <2>2. tasks = <<>> /\ tasks \in Seq(RunType) /\ Len(tasks) = 0 /\ DOMAIN tasks = {}
    BY DEF Init
  <2>3. proc \in [Procs -> ProcType] /\ \A p \in Procs : proc[p].pc = "idle"
    BY ConstantTypes DEF Init, Idle
  <2>4. spec.task = 0 /\ ops = {} /\ judges = {} /\ sentBack = {} /\ blind \in BOOLEAN /\ doubled \in BOOLEAN
    BY DEF Init, NONE
  <2>5. QED
    BY <2>1, <2>2, <2>3, <2>4 DEF Sound, Typed, AgedAreDead, JudgesKnow, SentBackKnown, SeesRuns, Starting
<1>2. Sound /\ [Next]_vars => Sound'
  <2> SUFFICES ASSUME Sound, [Next]_vars
               PROVE  Sound'
    OBVIOUS
  <2>1. CASE Deadline \/ \E o \in ops : Land(o)
    <3>1. job' \in JobType
      <4>1. CASE Deadline
        BY <4>1 DEF Deadline, Sound, Typed, JobType
      <4>2. ASSUME NEW o \in ops, Land(o)
            PROVE  job' \in JobType
        <5>1. o.by \in Agents /\ o.work \in Work /\ Typed
          BY DEF Sound, Typed, OpType
        <5>2. QED
          BY <4>2, <5>1, JobMoves DEF Land, Typed
      <4>3. QED
        BY <2>1, <4>1, <4>2
    <3>2. spec' = spec /\ tasks' = tasks /\ proc' = proc /\ ops' \subseteq ops /\ blind' = blind /\ doubled' = doubled
         /\ judges' = judges /\ sentBack' = sentBack
      BY <2>1 DEF Deadline, Land, history
    <3>3. QED
      BY <3>1, <3>2, StillJudged DEF Sound, Typed, SeesRuns, Starting
  <2>2. CASE Expire
    <3>1. spec' \in SpecType /\ spec'.task = spec.task
      BY <2>2, ConstantTypes DEF Expire, Sound, Typed, SpecType
    <3>2. job' = job /\ tasks' = tasks /\ ops' = ops /\ blind' = blind /\ doubled' = doubled
         /\ judges' = judges /\ sentBack' = sentBack
      BY <2>2 DEF Expire, history
    <3>5. proc' \in [Procs -> ProcType] /\ SeesRuns'
      BY <2>2, <3>2, ExpireKeeps DEF Sound, SeesRuns, Starting
    <3>6. QED
      BY <3>1, <3>2, <3>5, StillJudged DEF Sound, Typed
  <2>3. CASE UNCHANGED vars
    BY <2>3, StillJudged DEF vars, history, Sound, Typed, SeesRuns, Starting
  <2>4. ASSUME NEW t \in DOMAIN tasks, RunStep(t)
        PROVE  Sound'
    BY <2>4, RunEffects, MovesSound
  <2>5. ASSUME NEW g \in judges, JudgeStep(g)
        PROVE  Sound'
    BY <2>5, JudgeEffects, JudgeIs, MovesSound DEF Sound
  <2>6. QED
    BY <2>1, <2>2, <2>3, <2>4, <2>5, StepsAre, RequestSound
<1>3. QED
  BY <1>1, <1>2, PTL DEF Spec

-----------------------------------------------------------------------------
(* What is submitted.                                                       *)

(* A deliverable that will not be sent back: its settlement is over, or it  *)
(* is one of those a sweep or a second drain did not wait for.              *)
Over(work) ==
    /\ work \notin sentBack
    /\ \A g \in judges : worked(g) # work
    /\ ~(tasks[work[1]].row = "pending" /\ tasks[work[1]].round = work[2])
Final(work) == Known(work) /\ (work \in astray \/ Over(work))

(* Whatever is submitted, or may be by an operation or a sweep under way.   *)
Standing ==
    /\ job.status = "Submitted" => Final(job.work)
    /\ \A o \in ops : o.work = NoWork \/ Final(o.work)
    /\ \A p \in Procs : IF At(p, "resubmit") THEN Final(proc[p].work) ELSE proc[p].work = NoWork

(* What is judged was not sent back, and is not judged twice; and what was  *)
(* sent back is not held by a task that nobody is about to send on.         *)
JudgedOnce ==
    /\ \A g, h \in judges : g # h /\ worked(g) = worked(h) => worked(g) \in astray
    /\ \A g \in judges : g.pc = "judge" /\ worked(g) \in sentBack => worked(g) \in astray
ReturnedIsTold ==
    \A t \in DOMAIN tasks :
        tasks[t].status = "completed" /\ workOf(t) \in sentBack
        => workOf(t) \in astray \/ \E g \in judges : worked(g) = workOf(t) /\ g.pc = "retry"

Judged == Standing /\ JudgedOnce /\ ReturnedIsTold

LEMMA SameFinal ==
    ASSUME NEW work, Final(work), astray \subseteq astray', judges' = judges, sentBack' = sentBack, tasks' = tasks
    PROVE  Final(work)'
BY DEF Final, Known, Over, worked

LEMMA AddedFinal ==
    ASSUME Sound, NEW work, Final(work), astray \subseteq astray', judges' = judges, sentBack' = sentBack,
           \E p \in Procs, status \in {"running", "failed"} : AddsRun(p, status)
    PROVE  Final(work)'
<1>1. Known(work) /\ Known(work)'
  BY KnownStays DEF Final
<1>2. Over(work) => Over(work)'
  BY <1>1 DEF Over, Known, AddsRun, worked
<1>3. QED
  BY <1>1, <1>2 DEF Final

LEMMA MovedFinal ==
    ASSUME Sound, NEW t \in DOMAIN tasks, RunMoves(t), RunTells(t), NEW work, Final(work)
    PROVE  Final(work)'
<1>0. Typed /\ JudgesKnow /\ tasks[t].round \in Nat
  BY RunIs DEF Sound
<1>1. Known(work) /\ Known(work)' /\ work[2] \in Nat /\ work[1] \in DOMAIN tasks
      /\ (work[1] = t => work[2] <= tasks[t].round)
  BY KnownStays DEF Final, Known, Work
<1>2. CASE work \in astray
  BY <1>1, <1>2 DEF Final, RunTells
<1>3. CASE Over(work)
  <2>1. ~(tasks'[work[1]].row = "pending" /\ tasks'[work[1]].round = work[2])
    <3>1. CASE work[1] = t
      BY <1>0, <1>1, <1>3, <3>1 DEF Over, RunMoves
    <3>2. CASE work[1] # t
      BY <1>1, <1>3, <3>2 DEF Over, RunMoves
    <3>3. QED
      BY <3>1, <3>2
  <2>2. work \notin sentBack' /\ \A g \in judges' : worked(g) # work
    <3>0. work \notin sentBack /\ \A g \in judges : worked(g) # work
      BY <1>3 DEF Over
    <3>1. CASE judges' = judges /\ sentBack' = sentBack
      BY <3>0, <3>1
    <3>2. CASE Opens(t)
      <4> PICK h \in JudgeType : /\ h.task = t /\ h.round = tasks'[t].round
                                 /\ judges' = judges \cup {h} /\ sentBack' = sentBack
                                 /\ tasks'[t].round = tasks[t].round => tasks[t].row = "pending"
        BY <3>2 DEF Opens
      <4>1. ASSUME worked(h) = work
            PROVE  FALSE
        <5>1. work[1] = t /\ work[2] = tasks'[t].round
          BY <4>1 DEF worked
        <5>2. tasks[t].row = "pending" /\ tasks[t].round = work[2]
          BY <1>0, <1>1, <5>1 DEF RunMoves
        <5>3. QED
          BY <1>3, <5>1, <5>2 DEF Over
      <4>2. QED
        BY <3>0, <4>1
    <3>3. CASE Returns(t)
      <4> PICK g \in judges : /\ judges' = (judges \ {g}) \cup {[g EXCEPT !.pc = "retry"]}
                              /\ sentBack' = sentBack \cup {worked(g)}
        BY <3>3 DEF Returns
      <4>1. worked([g EXCEPT !.pc = "retry"]) = worked(g)
        BY <1>0, JudgeIs DEF worked, JudgeType
      <4>2. QED
        BY <3>0, <4>1
    <3>4. CASE Stops(t)
      BY <3>0, <3>4 DEF Stops
    <3>5. QED
      BY <3>1, <3>2, <3>3, <3>4 DEF RunTells
  <2>3. Over(work)'
    BY <2>1, <2>2 DEF Over, worked
  <2>4. QED
    BY <1>1, <2>3 DEF Final
<1>4. QED
  BY <1>2, <1>3 DEF Final

(* What a settlement submits as it ends is final. *)
LEMMA SettledFinal ==
    ASSUME Sound, JudgedOnce, NEW t \in DOMAIN tasks, RunMoves(t), RunTells(t),
           NEW g \in judges, g.task = t, g.pc = "judge", judges' = judges \ {g}, sentBack' = sentBack,
           tasks'[t].row = "done", NEW work, work = worked(g)
    PROVE  Final(work)'
<1>1. Known(work)' /\ work[1] = t
  BY KnownStays DEF Sound, JudgesKnow, worked
<1>2. CASE work \in astray
  BY <1>1, <1>2 DEF Final, RunTells
<1>3. CASE work \notin astray
  <2>1. work \notin sentBack' /\ \A h \in judges' : worked(h) # work
    BY <1>3 DEF JudgedOnce
  <2>2. Over(work)'
    BY <1>1, <2>1 DEF Over, worked
  <2>3. QED
    BY <1>1, <2>2 DEF Final
<1>4. QED
  BY <1>2, <1>3

LEMMA MovesStanding ==
    ASSUME Sound, Judged, NEW t \in DOMAIN tasks, RunMoves(t), RunTells(t)
    PROVE  Standing'
<1>0. Typed /\ Standing /\ JudgedOnce /\ job \in JobType
  BY DEF Sound, Typed, Judged
<1>1. \A work : Final(work) => Final(work)'
  BY MovedFinal
<1>2. ASSUME Submits(t)
      PROVE  \E g \in judges :
                /\ \A work : work = worked(g) => Final(work)'
                /\ \/ ops' = ops /\ job' = submitted(worked(g)) /\ worked(g) \in Work
                   \/ job' = job /\ ops' = ops \cup {op(g.by, worked(g))}
  <2> PICK g \in judges :
        /\ g.task = t /\ g.pc = "judge" /\ judges' = judges \ {g} /\ sentBack' = sentBack
        /\ tasks'[t].row = "done"
        /\ \/ ops' = ops /\ job.status = "Accepted" /\ job' = submitted(worked(g))
           \/ job' = job /\ ops' = ops \cup {op(g.by, worked(g))}
    BY <1>2 DEF Submits
  <2>1. \A work : work = worked(g) => Final(work)'
    BY <1>0, SettledFinal
  <2>2. worked(g) \in Work
    BY JudgeIs DEF Sound
  <2>3. QED
    BY <2>1, <2>2
<1>3. ASSUME job'.status = "Submitted", NEW work, work = job'.work
      PROVE  Final(work)'
  <2>1. CASE job' = job
    BY <1>0, <1>1, <1>3, <2>1 DEF Standing
  <2>2. CASE job' # job
    <3> PICK g \in judges : /\ \A v : v = worked(g) => Final(v)'
                            /\ job' = submitted(worked(g)) /\ worked(g) \in Work
      BY <1>2, <2>2 DEF RunTells
    <3>1. submitted(worked(g)).work = worked(g)
      BY <1>0, JobMoves, ConstantTypes
    <3>2. QED
      BY <1>3, <3>1
  <2>3. QED
    BY <2>1, <2>2
<1>4. ASSUME NEW o \in ops', o.work # NoWork, NEW work, work = o.work
      PROVE  Final(work)'
  <2>1. CASE o \in ops
    BY <1>0, <1>1, <1>4, <2>1 DEF Standing
  <2>2. CASE o \notin ops
    <3> PICK g \in judges : /\ \A v : v = worked(g) => Final(v)'
                            /\ ops' = ops \cup {op(g.by, worked(g))}
      BY <1>2, <1>4, <2>2 DEF RunTells
    <3>1. o = op(g.by, worked(g))
      BY <1>4, <2>2
    <3>2. o.work = worked(g)
      BY <3>1 DEF op
    <3>3. QED
      BY <1>4, <3>2
  <2>3. QED
    BY <2>1, <2>2
<1>5. ASSUME NEW p \in Procs
      PROVE  IF At(p, "resubmit")' THEN \A work : work = proc'[p].work => Final(work)'
             ELSE proc'[p].work = NoWork
  BY <1>0, <1>1 DEF Standing, At, RunTells
<1>6. QED
  BY <1>3, <1>4, <1>5 DEF Standing

LEMMA MovesJudgedOnce ==
    ASSUME Sound, JudgedOnce, NEW t \in DOMAIN tasks, RunMoves(t), RunTells(t)
    PROVE  JudgedOnce'
<1>0. Typed /\ JudgesKnow /\ astray \subseteq astray'
  BY DEF Sound, RunTells
<1>1. CASE judges' \subseteq judges /\ sentBack' = sentBack
  BY <1>0, <1>1 DEF JudgedOnce, worked
<1>2. CASE Opens(t)
  <2> PICK h \in JudgeType :
        /\ judges' = judges \cup {h} /\ sentBack' = sentBack
        /\ worked(h) \in sentBack \/ (\E g \in judges : worked(g) = worked(h)) => worked(h) \in astray'
    BY <1>2 DEF Opens
  <2>1. ASSUME NEW f \in judges', NEW g \in judges', f # g, worked(f) = worked(g)
        PROVE  worked(f) \in astray'
    BY <1>0, <2>1 DEF JudgedOnce
  <2>2. ASSUME NEW g \in judges', g.pc = "judge", worked(g) \in sentBack'
        PROVE  worked(g) \in astray'
    BY <1>0, <2>2 DEF JudgedOnce
  <2>3. QED
    BY <2>1, <2>2 DEF JudgedOnce, worked
<1>3. CASE Returns(t)
  <2> PICK g \in judges : /\ judges' = (judges \ {g}) \cup {[g EXCEPT !.pc = "retry"]}
                          /\ sentBack' = sentBack \cup {worked(g)}
    BY <1>3 DEF Returns
  <2> DEFINE h == [g EXCEPT !.pc = "retry"]
  <2>0. worked(h) = worked(g) /\ h.pc = "retry" /\ judges' = (judges \ {g}) \cup {h}
    BY <1>0, JudgeIs DEF worked, JudgeType
  <2> HIDE DEF h
  <2>1. ASSUME NEW e \in judges', NEW f \in judges', e # f, worked(e) = worked(f)
        PROVE  worked(e) \in astray'
    BY <1>0, <2>0, <2>1 DEF JudgedOnce
  <2>2. ASSUME NEW f \in judges', f.pc = "judge", worked(f) \in sentBack'
        PROVE  worked(f) \in astray'
    BY <1>0, <2>0, <2>2 DEF JudgedOnce
  <2>3. QED
    BY <2>1, <2>2 DEF JudgedOnce, worked
<1>4. QED
  BY <1>1, <1>2, <1>3 DEF RunTells, Stops

LEMMA MovesReturned ==
    ASSUME Sound, ReturnedIsTold, NEW t \in DOMAIN tasks, RunMoves(t), RunTells(t)
    PROVE  ReturnedIsTold'
<1>0. Typed /\ JudgesKnow /\ SentBackKnown /\ astray \subseteq astray' /\ tasks[t].round \in Nat /\ t \in Nat
      /\ DOMAIN tasks' = DOMAIN tasks
  BY RunIs DEF Sound, RunTells, RunMoves
<1> SUFFICES ASSUME NEW u \in DOMAIN tasks, tasks'[u].status = "completed", NEW work, work = <<u, tasks'[u].round>>,
                    work \in sentBack', work \notin astray'
             PROVE  \E g \in judges' : worked(g) = work /\ g.pc = "retry"
  BY <1>0 DEF ReturnedIsTold, workOf, worked
<1>1. ASSUME work \in sentBack
      PROVE  tasks[u].status = "completed" /\ work = workOf(u) /\ \E g \in judges : worked(g) = work /\ g.pc = "retry"
  <2>1. work[1] = u /\ work[2] = tasks'[u].round /\ tasks'[u].round <= tasks[u].round
    BY <1>1 DEF Sound, SentBackKnown, Known
  <2>2. tasks[u].status = "completed" /\ tasks'[u].round = tasks[u].round
    <3>1. CASE u = t
      BY <1>0, <2>1, <3>1 DEF RunMoves
    <3>2. CASE u # t
      BY <3>2 DEF RunMoves
    <3>3. QED
      BY <3>1, <3>2
  <2>3. work = workOf(u)
    BY <2>2 DEF workOf
  <2>4. QED
    BY <1>0, <1>1, <2>2, <2>3 DEF ReturnedIsTold
<1>2. CASE (judges' = judges /\ sentBack' = sentBack) \/ Opens(t)
  BY <1>1, <1>2 DEF Opens
<1>3. CASE Returns(t)
  <2> PICK g \in judges : /\ judges' = (judges \ {g}) \cup {[g EXCEPT !.pc = "retry"]}
                          /\ sentBack' = sentBack \cup {worked(g)}
    BY <1>3 DEF Returns
  <2> DEFINE h == [g EXCEPT !.pc = "retry"]
  <2>0. worked(h) = worked(g) /\ h.pc = "retry" /\ judges' = (judges \ {g}) \cup {h}
    BY <1>0, JudgeIs DEF worked, JudgeType
  <2> HIDE DEF h
  <2>1. CASE work = worked(g)
    BY <2>0, <2>1
  <2>2. CASE work # worked(g)
    BY <1>1, <2>0, <2>2
  <2>3. QED
    BY <2>1, <2>2
<1>4. CASE Stops(t)
  <2> PICK g \in judges : /\ g.task = t /\ judges' = judges \ {g} /\ sentBack' = sentBack
                          /\ g.pc = "retry" => worked(g) \in astray' \/ tasks'[t].status = "running"
    BY <1>4 DEF Stops
  <2>1. PICK h \in judges : worked(h) = work /\ h.pc = "retry"
    BY <1>1
  <2>2. h # g
    <3> SUFFICES ASSUME h = g  PROVE  FALSE
      OBVIOUS
    <3>1. u = t
      BY <2>1 DEF worked
    <3>2. QED
      BY <2>1, <3>1
  <2>3. QED
    BY <2>1, <2>2
<1>5. QED
  BY <1>2, <1>3, <1>4 DEF RunTells

LEMMA MovesJudged ==
    ASSUME Sound, Judged, NEW t \in DOMAIN tasks, RunMoves(t), RunTells(t)
    PROVE  Judged'
BY MovesStanding, MovesJudgedOnce, MovesReturned DEF Judged

LEMMA RequestJudged ==
    ASSUME Sound, Judged, NEW p \in Procs, RequestStep(p)
    PROVE  Judged'
<1>0. Typed /\ job \in JobType /\ ops \subseteq OpType /\ proc[p] \in ProcType /\ Standing /\ JudgedOnce /\ ReturnedIsTold
      /\ proc[p].work \in Work
  BY DEF Sound, Typed, Judged, ProcType
<1>1. \/ tasks' = tasks
      \/ \E status \in {"running", "failed"} : AddsRun(p, status)
  <2>1. CASE Insert(p)
    BY <1>0, <2>1, InsertAdds DEF Insert
  <2>2. CASE InsertFails(p)
    BY <1>0, <2>2, InsertAdds DEF InsertFails
  <2>3. CASE ~Insert(p) /\ ~InsertFails(p)
    BY <2>3 DEF RequestStep, Takes, Leaves, Accepted, InVain, Pending, Refused, Link, Die, Resubmit, claimJobSpec,
                HealSubmit, HealDispatch
  <2>4. QED
    BY <2>1, <2>2, <2>3
<1>2. astray \subseteq astray' /\ sentBack' = sentBack /\ judges' = judges
  BY DEF RequestStep, Takes, Leaves, Accepted, InVain, Pending, Refused, Link, Die, Resubmit, claimJobSpec,
         HealSubmit, HealDispatch, Insert, InsertFails, history
<1>3. \A work : Final(work) => Final(work)'
  BY <1>1, <1>2, SameFinal, AddedFinal
<1>4. \/ job' = job \/ job'.status = "Accepted"
      \/ At(p, "resubmit") /\ job' = submitted(proc[p].work)
  <2>1. CASE Accepted(p)
    BY <1>0, <2>1, JobMoves, ConstantTypes DEF Accepted, Typed, ProcType, me
  <2>2. CASE Resubmit(p)
    BY <2>2 DEF Resubmit
  <2>3. CASE ~Accepted(p) /\ ~Resubmit(p)
    BY <2>3 DEF RequestStep, Takes, Leaves, InVain, Pending, Refused, Link, Die, Insert, InsertFails, claimJobSpec,
                HealSubmit, HealDispatch
  <2>4. QED
    BY <2>1, <2>2, <2>3
<1>5. \/ ops' = ops
      \/ ops' = ops \cup {op(proc[p].me, NoWork)}
      \/ (At(p, "resubmit") \/ proc[p].work = NoWork) /\ ops' = ops \cup {op(proc[p].me, proc[p].work)}
  <2>1. CASE Pending(p)
    BY <2>1 DEF Pending, me
  <2>2. CASE Die(p)
    BY <1>0, <2>2 DEF Die, me, Standing
  <2>3. CASE ~Pending(p) /\ ~Die(p)
    BY <2>3 DEF RequestStep, Takes, Leaves, InVain, Accepted, Refused, Link, Resubmit, Insert, InsertFails, claimJobSpec,
                HealSubmit, HealDispatch
  <2>4. QED
    BY <2>1, <2>2, <2>3
<1>6. Standing'
  <2>1. ASSUME job'.status = "Submitted", NEW work, work = job'.work
        PROVE  Final(work)'
    <3>1. CASE job' = job
      BY <1>0, <1>3, <2>1, <3>1 DEF Standing, JobType
    <3>2. CASE At(p, "resubmit") /\ job' = submitted(proc[p].work)
      BY <1>0, <1>3, <2>1, <3>2, JobMoves, ConstantTypes DEF Standing
    <3>3. QED
      BY <1>4, <2>1, <3>1, <3>2
  <2>2. ASSUME NEW o \in ops', o.work # NoWork, NEW work, work = o.work
        PROVE  Final(work)'
    <3>1. CASE o \in ops
      BY <1>0, <1>3, <2>2, <3>1 DEF Standing, OpType
    <3>2. CASE At(p, "resubmit") /\ o = op(proc[p].me, proc[p].work)
      BY <1>0, <1>3, <2>2, <3>2 DEF Standing, op
    <3>3. QED
      BY <1>5, <2>2, <3>1, <3>2 DEF op
  <2>3. ASSUME NEW q \in Procs
        PROVE  IF At(q, "resubmit")' THEN \A work : work = proc'[q].work => Final(work)'
               ELSE proc'[q].work = NoWork
    <3>0. proc[q].work \in Work
      BY <1>0 DEF Typed, ProcType
    <3>1. ASSUME q # p, proc'[q].pc = proc[q].pc, proc'[q].work = proc[q].work
          PROVE  IF At(q, "resubmit")' THEN \A work : work = proc'[q].work => Final(work)'
                 ELSE proc'[q].work = NoWork
      BY <1>0, <1>3, <3>0, <3>1 DEF Standing, At
    <3>2. ASSUME q = p, NEW pc, pc # "resubmit", NEW w, NEW n, NEW work, work = NoWork, Turn(p, pc, w, n, work)
          PROVE  ~At(q, "resubmit")' /\ proc'[q].work = NoWork
      BY <3>2 DEF Turn, At
    <3>3. CASE \E w \in Miners : HealSubmit(p, w)
      <4> PICK w \in Miners : HealSubmit(p, w)
        BY <3>3
      <4>1. Turn(p, "resubmit", w, proc[p].saw, workOf(spec.task))
        BY <1>0, HealSubmitTurns
      <4>2. spec.task \in DOMAIN tasks /\ spec.task \in Nat /\ workOf(spec.task) \in Work
        BY <1>0, LinkedIsRun DEF HealSubmit
      <4>3. ASSUME NEW work, work = workOf(spec.task)
            PROVE  Final(work)'
        <5> DEFINE t == spec.task
        <5>1. t \in DOMAIN tasks /\ work = workOf(t) /\ tasks[t].status = "completed" /\ tasks' = tasks
          BY <4>2, <4>3 DEF HealSubmit, shouldResubmitAcceptedJob, linked
        <5>2. Known(work) /\ work[1] = t /\ work[2] = tasks[t].round
          BY <1>0, <5>1, RunIs DEF Known
        <5>3. CASE settling(t)
          BY <1>2, <5>1, <5>2, <5>3 DEF HealSubmit, linked, Final, Known
        <5>4. CASE ~settling(t)
          <6>1. \A g \in judges : worked(g) # work
            BY <5>2, <5>4 DEF settling, judgesOf, worked
          <6>2. work \in astray \/ work \notin sentBack
            BY <1>0, <5>1, <6>1 DEF ReturnedIsTold
          <6>3. Final(work)
            BY <5>1, <5>2, <5>4, <6>1, <6>2 DEF Final, Over, settling
          <6>4. QED
            BY <1>3, <6>3
        <5>5. QED
          BY <5>3, <5>4
      <4>4. QED
        BY <3>1, <4>1, <4>3 DEF Turn, At
    <3>4. CASE Takes(p)
      <4>1. Turn(p, "dispatch", proc[p].me, spec.task, proc[p].work) /\ proc[p].work = NoWork
        BY <1>0, <3>4, TakeSteps DEF Standing, Takes, Accepted, InVain, Pending, At
      <4>2. QED
        BY <3>1, <3>2, <4>1 DEF Turn
    <3>5. CASE Leaves(p)
      <4>1. Turn(p, "idle", NoWorker, NONE, NoWork)
        BY <1>0, <3>5, EndSteps
      <4>2. QED
        BY <3>1, <3>2, <4>1 DEF Turn
    <3>6. CASE Insert(p)
      <4>1. Turn(p, "link", proc[p].me, Len(tasks) + 1, proc[p].work) /\ proc[p].work = NoWork
        BY <1>0, <3>6, InsertTurns DEF Standing, Insert, At
      <4>2. QED
        BY <3>1, <3>2, <4>1 DEF Turn
    <3>7. CASE \E w \in Workers : claimJobSpec(p, w)
      <4> PICK w \in Workers : claimJobSpec(p, w)
        BY <3>7
      <4>1. Turn(p, "accept", w, proc[p].saw, proc[p].work) /\ proc[p].work = NoWork
        BY <1>0, ClaimTurns DEF Standing, claimJobSpec, At
      <4>2. QED
        BY <3>1, <3>2, <4>1 DEF Turn
    <3>8. CASE \E w \in Miners : HealDispatch(p, w)
      <4> PICK w \in Miners : HealDispatch(p, w)
        BY <3>8
      <4>1. Turn(p, "dispatch", w, spec.task, proc[p].work) /\ proc[p].work = NoWork
        BY <1>0, HealDispatchTurns DEF Standing, HealDispatch, sweeps, At
      <4>2. QED
        BY <3>1, <3>2, <4>1 DEF Turn
    <3>9. QED
      BY <3>3, <3>4, <3>5, <3>6, <3>7, <3>8 DEF RequestStep
  <2>4. QED
    BY <2>1, <2>2, <2>3 DEF Standing
<1>7. JudgedOnce'
  BY <1>0, <1>2 DEF JudgedOnce, worked
<1>8. ReturnedIsTold'
  BY <1>0, <1>1, <1>2 DEF ReturnedIsTold, AddsRun, workOf, worked
<1>9. QED
  BY <1>6, <1>7, <1>8 DEF Judged

LEMMA JudgedHolds == Spec => []Judged
<1>1. Init => Judged
  BY DEF Init, Judged, Standing, JudgedOnce, ReturnedIsTold, Idle, At
<1>2. Sound /\ Judged /\ [Next]_vars => Judged'
  <2> SUFFICES ASSUME Sound, Judged, [Next]_vars
               PROVE  Judged'
    OBVIOUS
  <2>0. Typed /\ Standing /\ JudgedOnce /\ ReturnedIsTold
    BY DEF Sound, Judged
  <2>a. ASSUME tasks' = tasks, judges' = judges, sentBack' = sentBack, astray' = astray, Standing'
        PROVE  Judged'
    BY <2>0, <2>a DEF Judged, JudgedOnce, ReturnedIsTold, workOf, worked
  <2>1. ASSUME NEW o \in ops, Land(o)
        PROVE  Judged'
    <3>1. o \in OpType /\ (o.work = NoWork \/ Final(o.work)) /\ o.by \in Agents /\ o.work \in Work
      BY <2>0 DEF Typed, Standing, OpType
    <3>2. tasks' = tasks /\ proc' = proc /\ judges' = judges /\ astray' = astray /\ sentBack' = sentBack
          /\ ops' \subseteq ops
      BY <2>1 DEF Land, history
    <3>3. job' = job \/ job'.status = "Accepted" \/ (o.work # NoWork /\ job' = submitted(o.work))
      BY <2>0, <2>1, <3>1, JobMoves DEF Land
    <3>4. ASSUME job'.status = "Submitted", NEW work, work = job'.work
          PROVE  Final(work)
      BY <2>0, <3>1, <3>3, <3>4, JobMoves DEF Standing
    <3>5. \A work : Final(work) => Final(work)'
      BY <3>2, SameFinal
    <3>6. Standing'
      BY <2>0, <3>2, <3>4, <3>5 DEF Standing, At
    <3>7. QED
      BY <2>a, <3>2, <3>6
  <2>2. CASE Deadline \/ Expire \/ UNCHANGED vars
    <3>1. tasks' = tasks /\ ops' = ops /\ judges' = judges /\ astray' = astray /\ sentBack' = sentBack
          /\ job'.status = job.status /\ job'.work = job.work
      BY <2>0, <2>2 DEF Deadline, Expire, vars, history, Typed, JobType
    <3>2. \A q \in Procs : proc'[q].pc = proc[q].pc /\ proc'[q].work = proc[q].work
      BY <2>0, <2>2, ExpireKeeps DEF Deadline, vars
    <3>3. \A work : Final(work) => Final(work)'
      BY <3>1, SameFinal
    <3>4. Standing'
      <4>1. ASSUME NEW work, work = job.work, job.status = "Submitted"
            PROVE  Final(work)'
        BY <2>0, <3>3, <4>1 DEF Standing
      <4>2. ASSUME NEW q \in Procs, NEW work, work = proc[q].work, At(q, "resubmit")
            PROVE  Final(work)'
        BY <2>0, <3>3, <4>2 DEF Standing
      <4>3. \A o \in ops : o.work = NoWork \/ Final(o.work)'
        BY <2>0, <3>3 DEF Standing
      <4>4. QED
        BY <2>0, <3>1, <3>2, <4>1, <4>2, <4>3 DEF Standing, At
    <3>5. QED
      BY <2>a, <3>1, <3>4
  <2>3. ASSUME NEW t \in DOMAIN tasks, RunStep(t)
        PROVE  Judged'
    BY <2>3, RunEffects, MovesJudged
  <2>4. ASSUME NEW g \in judges, JudgeStep(g)
        PROVE  Judged'
    BY <2>4, JudgeEffects, JudgeIs, MovesJudged DEF Sound
  <2>5. QED
    BY <2>1, <2>2, <2>3, <2>4, StepsAre, RequestJudged
<1>3. QED
  BY <1>1, <1>2, SoundHolds, PTL DEF Spec

(* The chain is never committed to an attempt that grading sent back, by    *)
(* whatever operation given up and mined late, unless it is one of three:   *)
(* a sweep submitted it while it was being settled, a drain judged it       *)
(* beside the callback, or its worker could not be told to try again, which *)
(* left it to the next sweep.                                               *)
THEOREM WhatSettlesIsFinal == Spec => []SentBackIsNotSubmitted
<1>1. Sound /\ Judged => SentBackIsNotSubmitted
  BY DEF SentBackIsNotSubmitted, Judged, Standing, Final, Over
<1>2. QED
  BY <1>1, SoundHolds, JudgedHolds, PTL

-----------------------------------------------------------------------------
(* Whose work it is.                                                        *)

(* Unless a run was started on an accept not seen mined, nobody works on an *)
(* open job, and whoever does or did is the one the chain has accepted.     *)
MadeByTheAccepted ==
    /\ job.status = "Open" => DOMAIN tasks = {} /\ \A p \in Procs : ~Starting(p)
    /\ \A p \in Procs : Starting(p) => proc[p].me = job.by
    /\ \A t \in DOMAIN tasks : tasks[t].agent = job.by

Made == blind \/ MadeByTheAccepted

(* A request's step that begins no run and has nobody start on one. *)
LEMMA NothingBegun ==
    ASSUME MadeByTheAccepted, tasks' = tasks, job'.by = job.by, job'.status = "Open" => job.status = "Open",
           \A q \in Procs : Starting(q)' => Starting(q) /\ proc'[q].me = proc[q].me
    PROVE  MadeByTheAccepted'
BY DEF MadeByTheAccepted

LEMMA TurnStarts ==
    ASSUME NEW p \in Procs, NEW pc, NEW w, NEW n, NEW work, Turn(p, pc, w, n, work)
    PROVE  /\ Starting(p)' <=> pc \in {"dispatch", "link"}
           /\ \A q \in Procs : q # p => (Starting(q)' <=> Starting(q)) /\ proc'[q].me = proc[q].me
           /\ proc'[p].me = w
           /\ pc \notin {"dispatch", "link"} =>
                 \A q \in Procs : Starting(q)' => Starting(q) /\ proc'[q].me = proc[q].me
BY DEF Turn, Starting

LEMMA RequestMade ==
    ASSUME Sound, Made, NEW p \in Procs, RequestStep(p)
    PROVE  Made'
<1> SUFFICES ASSUME ~blind'
             PROVE  MadeByTheAccepted'
  BY DEF Made
<1>0. Typed /\ job \in JobType /\ proc[p].me \in Agents
  BY DEF Sound, Typed, ProcType
<1>1. MadeByTheAccepted
  <2>1. blind => blind'
    BY DEF RequestStep, Takes, Leaves, Accepted, InVain, Pending, Refused, Link, Die, Resubmit, claimJobSpec,
           HealSubmit, HealDispatch, Insert, InsertFails, history
  <2>2. QED
    BY <2>1 DEF Made
<1>2. CASE Takes(p)
  <2>1. Accepted(p)
    BY <1>2 DEF Takes, InVain, Pending
  <2>2. job.status = "Open" /\ job'.status = "Accepted" /\ job'.by = proc[p].me /\ tasks' = tasks
    BY <1>0, <2>1, JobMoves, ConstantTypes DEF Accepted, me
  <2>3. Turn(p, "dispatch", proc[p].me, spec.task, proc[p].work)
    BY <1>0, <1>2, TakeSteps
  <2>4. QED
    BY <1>1, <2>2, <2>3, TurnStarts DEF MadeByTheAccepted
<1>3. CASE Insert(p) \/ InsertFails(p)
  <2>1. Starting(p) /\ job' = job
    BY <1>3 DEF Insert, InsertFails, At, Starting
  <2>2. PICK status \in {"running", "failed"} : AddsRun(p, status)
    BY <1>0, <1>3, InsertAdds DEF Insert, InsertFails
  <2>3. job.status # "Open" /\ \A t \in DOMAIN tasks' : tasks'[t].agent = job.by
    BY <1>1, <2>1, <2>2 DEF MadeByTheAccepted, AddsRun
  <2>4. \A q \in Procs : Starting(q)' => Starting(q) /\ proc'[q].me = proc[q].me
    <3>1. CASE Insert(p)
      BY <1>0, <2>1, <3>1, InsertTurns, TurnStarts
    <3>2. CASE InsertFails(p)
      BY <1>0, <3>2, EndSteps, TurnStarts DEF Leaves
    <3>3. QED
      BY <1>3, <3>1, <3>2
  <2>5. QED
    BY <1>1, <2>1, <2>3, <2>4 DEF MadeByTheAccepted
<1>4. CASE Refused(p) \/ Link(p) \/ Die(p) \/ Resubmit(p)
  <2>1. tasks' = tasks
    BY <1>4 DEF Refused, Link, Die, Resubmit
  <2>2. job'.by = job.by /\ (job'.status = "Open" => job.status = "Open")
    <3>1. CASE Resubmit(p) /\ submittable(me(p))
      BY <1>0, <3>1 DEF Resubmit, submitted, submittable, JobType
    <3>2. CASE ~(Resubmit(p) /\ submittable(me(p)))
      BY <1>4, <3>2 DEF Refused, Link, Die, Resubmit
    <3>3. QED
      BY <3>1, <3>2
  <2>3. \A q \in Procs : Starting(q)' => Starting(q) /\ proc'[q].me = proc[q].me
    BY <1>0, <1>4, EndSteps, TurnStarts DEF Leaves
  <2>4. QED
    BY <1>1, <2>1, <2>2, <2>3, NothingBegun
<1>5. CASE \E w \in Workers : claimJobSpec(p, w)
  <2>1. \A q \in Procs : Starting(q)' => Starting(q) /\ proc'[q].me = proc[q].me
    BY <1>0, <1>5, ClaimTurns, TurnStarts
  <2>2. QED
    BY <1>1, <1>5, <2>1, NothingBegun DEF claimJobSpec
<1>6. CASE \E w \in Miners : HealSubmit(p, w)
  <2>1. \A q \in Procs : Starting(q)' => Starting(q) /\ proc'[q].me = proc[q].me
    BY <1>0, <1>6, HealSubmitTurns, TurnStarts
  <2>2. QED
    BY <1>1, <1>6, <2>1, NothingBegun DEF HealSubmit
<1>7. ASSUME NEW w \in Miners, HealDispatch(p, w)
      PROVE  MadeByTheAccepted'
  <2>1. job.status = "Accepted" /\ job.by = w /\ job' = job /\ tasks' = tasks
    BY <1>7 DEF HealDispatch, sweeps
  <2>2. Turn(p, "dispatch", w, spec.task, proc[p].work)
    BY <1>0, <1>7, HealDispatchTurns
  <2>3. QED
    BY <1>1, <2>1, <2>2, TurnStarts DEF MadeByTheAccepted
<1>8. QED
  BY <1>2, <1>3, <1>4, <1>5, <1>6, <1>7 DEF RequestStep, Leaves

LEMMA MadeHolds == Spec => []Made
<1>1. Init => Made
  BY DEF Init, Made, MadeByTheAccepted, Starting, Idle
<1>2. Sound /\ Made /\ [Next]_vars => Made'
  <2> SUFFICES ASSUME Sound, Made, [Next]_vars
               PROVE  Made'
    OBVIOUS
  <2>0. Typed
    BY DEF Sound
  <2>1. ASSUME NEW t \in DOMAIN tasks, RunStep(t) \/ \E g \in judges : g.task = t /\ JudgeStep(g)
        PROVE  Made'
    <3>1. RunMoves(t) /\ RunTells(t)
      BY <2>1, RunEffects, JudgeEffects
    <3>2. job'.by = job.by /\ (job'.status = "Open" => job.status = "Open")
      BY <2>0, <3>1 DEF RunTells, Submits, submitted, Typed, JobType
    <3>3. QED
      BY <3>1, <3>2 DEF Made, MadeByTheAccepted, RunMoves, RunTells, Starting
  <2>2. ASSUME NEW o \in ops, Land(o)
        PROVE  Made'
    <3>1. tasks' = tasks /\ proc' = proc /\ blind' = blind
      BY <2>2 DEF Land, history
    <3>2. CASE job' = job
      BY <3>1, <3>2 DEF Made, MadeByTheAccepted, Starting
    <3>3. CASE job.status = "Open" /\ job' = accepted(o.by)
      <4>1. job'.status # "Open"
        BY <2>0, <3>3 DEF Typed, JobType, accepted
      <4>2. QED
        BY <3>1, <3>3, <4>1 DEF Made, MadeByTheAccepted, Starting
    <3>4. CASE job.status = "Accepted" /\ job' = submitted(o.work)
      <4>1. job'.status # "Open" /\ job'.by = job.by
        BY <2>0, <3>4 DEF Typed, JobType, submitted
      <4>2. QED
        BY <3>1, <3>4, <4>1 DEF Made, MadeByTheAccepted, Starting
    <3>5. QED
      BY <2>2, <3>2, <3>3, <3>4 DEF Land, submittable
  <2>3. CASE Deadline
    <3>1. tasks' = tasks /\ proc' = proc /\ blind' = blind /\ job'.status = job.status /\ job'.by = job.by
      BY <2>0, <2>3 DEF Deadline, history, Typed, JobType
    <3>2. QED
      BY <3>1 DEF Made, MadeByTheAccepted, Starting
  <2>4. CASE Expire
    <3>1. tasks' = tasks /\ blind' = blind /\ job' = job
      BY <2>4 DEF Expire, history
    <3>2. QED
      BY <2>0, <2>4, <3>1, ExpireKeeps DEF Made, MadeByTheAccepted, Starting
  <2>5. CASE UNCHANGED vars
    BY <2>5 DEF vars, history, Made, MadeByTheAccepted, Starting
  <2>6. \A g \in judges : g.task \in DOMAIN tasks
    BY JudgeIs DEF Sound
  <2>7. QED
    BY <2>1, <2>2, <2>3, <2>4, <2>5, <2>6, StepsAre, RequestMade
<1>3. QED
  BY <1>1, <1>2, SoundHolds, PTL DEF Spec

(* A worker is paid for its own work, whoever healed, retried or gave up in *)
(* between: what is submitted was made by the worker the chain pays.        *)
THEOREM WorkersArePaidForTheirOwn == Spec => []SubmittedByItsMaker
<1>1. Judged /\ Made => SubmittedByItsMaker
  BY DEF SubmittedByItsMaker, Judged, Standing, Final, Known, Made, MadeByTheAccepted
<1>2. QED
  BY <1>1, JudgedHolds, MadeHolds, PTL

-----------------------------------------------------------------------------
(* One run at a time.                                                       *)

(* A run that is over without a deliverable, and for so long that a request *)
(* may replace it; it will not come back unless it was to be settled yet.   *)
Gone(n) == n = NONE \/ n \in late \/ (deadDispatch(n) /\ tasks[n].aged)

LinkingOk ==
    /\ \A p, q \in Procs : At(p, "link") /\ At(q, "link") => p = q
    /\ \A p \in Procs : At(p, "link") => /\ proc[p].saw \in DOMAIN tasks /\ proc[p].saw # spec.task
                                         /\ Gone(spec.task)
    /\ \A p, q \in Procs : At(p, "link") /\ At(q, "dispatch") => proc[q].saw # proc[p].saw
    /\ \A q \in Procs : At(q, "dispatch") /\ proc[q].saw = spec.task => Gone(spec.task)
RunsOk ==
    /\ \A t \in DOMAIN tasks :
           /\ Active(t) => t \in late \/ t = spec.task \/ \E p \in Procs : At(p, "link") /\ proc[p].saw = t
           /\ tasks[t].aged /\ settling(t) => t \in late
    /\ \A g \in judges : g.task = spec.task \/ g.task \in late

(* Unless a run was started blind or past an outdated read, the only run in *)
(* flight is the one linked to the job, or the one that a request is about  *)
(* to link to it, but for those that outlived their cooldown before they    *)
(* were settled; and only these will come back once they are replaced, or a *)
(* request that is about to start a run has seen them linked.               *)
Alone == LinkingOk /\ RunsOk
AloneUnlessDoubled == blind \/ doubled \/ Alone

LEMMA MovesAlone ==
    ASSUME Sound, Alone, NEW t \in DOMAIN tasks, RunMoves(t), RunTells(t)
    PROVE  Alone'
<1>0. Typed /\ JudgesKnow /\ AgedAreDead /\ proc' = proc /\ spec'.task = spec.task /\ late \subseteq late'
      /\ DOMAIN tasks' = DOMAIN tasks
  BY DEF Sound, RunMoves, RunTells
<1>1. judgesOf(t) # {} => \E g \in judges : g.task = t
  BY DEF judgesOf
<1>2. ASSUME NEW n, Gone(n)
      PROVE  Gone(n)'
  <2>1. CASE n = t /\ n \notin late
    <3>1. t \in Nat /\ t # NONE
      BY <1>0 DEF Typed, NONE
    <3>2. tasks[t].aged /\ judgesOf(t) = {}
      BY <1>2, <2>1, <3>1 DEF Gone, Alone, RunsOk, settling
    <3>3. QED
      BY <2>1, <3>2 DEF Gone, RunMoves
  <2>2. CASE n # t \/ n \in late
    BY <1>0, <1>2, <2>2 DEF Gone, RunMoves, deadDispatch
  <2>3. QED
    BY <2>1, <2>2
<1>3. LinkingOk'
  <2>1. Gone(spec.task) => Gone(spec.task)'
    <3> SUFFICES ASSUME Gone(spec.task)  PROVE  Gone(spec.task)'
      OBVIOUS
    <3> PICK n : n = spec.task
      OBVIOUS
    <3>1. Gone(n)' /\ spec'.task = n
      BY <1>0, <1>2
    <3>2. QED
      BY <3>1 DEF Gone, deadDispatch
  <2>2. QED
    BY <1>0, <2>1 DEF Alone, LinkingOk, At
<1>4. \A g \in judges' : \/ \E f \in judges : f.task = g.task
                         \/ g.task = t /\ spec.task = t
  <2>1. CASE judges' \subseteq judges
    BY <2>1
  <2>2. CASE Opens(t)
    BY <2>2 DEF Opens
  <2>3. CASE Returns(t)
    <3> PICK g \in judges : judges' = (judges \ {g}) \cup {[g EXCEPT !.pc = "retry"]}
      BY <2>3 DEF Returns
    <3>1. [g EXCEPT !.pc = "retry"].task = g.task
      BY <1>0, JudgeIs DEF JudgeType
    <3>2. QED
      BY <3>1
  <2>4. QED
    BY <2>1, <2>2, <2>3 DEF RunTells, Stops
<1>5. \A g \in judges' : g.task = spec'.task \/ g.task \in late'
  BY <1>0, <1>4 DEF Alone, RunsOk
<1>6. \A u \in DOMAIN tasks : u # t => (settling(u)' => settling(u))
  BY <1>4 DEF settling, judgesOf, RunMoves
<1>7. ASSUME NEW u \in DOMAIN tasks'
      PROVE  /\ Active(u)' => u \in late' \/ u = spec'.task \/ \E p \in Procs : At(p, "link")' /\ proc'[p].saw = u
             /\ tasks'[u].aged /\ settling(u)' => u \in late'
  <2>1. CASE u = t
    BY <1>0, <1>1, <2>1 DEF Alone, RunsOk, RunMoves, At
  <2>2. CASE u # t
    BY <1>0, <1>6, <2>2 DEF Alone, RunsOk, RunMoves, At, Active
  <2>3. QED
    BY <2>1, <2>2
<1>8. QED
  BY <1>3, <1>5, <1>7 DEF Alone, RunsOk

(* A step that leaves the runs, the link and who is linking. *)
LEMMA NobodyLinks ==
    ASSUME Alone, tasks' = tasks, spec'.task = spec.task, judges' = judges, late' = late,
           \A q \in Procs : At(q, "link")' <=> At(q, "link"),
           \A q \in Procs : At(q, "link") => proc'[q].saw = proc[q].saw,
           \A q \in Procs : At(q, "dispatch")' => \/ proc'[q].saw = spec.task /\ Gone(spec.task)
                                                  \/ At(q, "dispatch") /\ proc'[q].saw = proc[q].saw
    PROVE  Alone'
<1>1. \A n : Gone(n) => Gone(n)'
  BY DEF Gone, deadDispatch
<1>2. Gone(spec.task) => Gone(spec.task)'
  <2> PICK n : n = spec.task
    OBVIOUS
  <2>1. n = spec'.task
    OBVIOUS
  <2>2. QED
    BY <1>1, <2>1 DEF Gone, deadDispatch
<1>3. LinkingOk'
  BY <1>2 DEF Alone, LinkingOk
<1>4. RunsOk'
  BY DEF Alone, RunsOk, Active, settling, judgesOf
<1>5. QED
  BY <1>3, <1>4 DEF Alone

LEMMA TurnAt ==
    ASSUME NEW p \in Procs, NEW pc, NEW w, NEW n, NEW work, Turn(p, pc, w, n, work)
    PROVE  /\ \A x : At(p, x)' <=> pc = x
           /\ proc'[p].saw = n
           /\ \A q \in Procs : q # p => proc'[q].saw = proc[q].saw /\ \A x : At(q, x)' <=> At(q, x)
BY DEF Turn, At

(* Beginning a run leaves those that are gone, gone. *)
LEMMA GoneStays ==
    ASSUME NEW p, NEW status, AddsRun(p, status), NEW n, Gone(n), late' = late
    PROVE  Gone(n)'
BY DEF Gone, AddsRun, deadDispatch

LEMMA InsertAlone ==
    ASSUME Sound, Alone, NEW p \in Procs, Insert(p), ~doubled'
    PROVE  Alone'
<1>0. Typed /\ SeesRuns
  BY DEF Sound
<1>1. AddsRun(p, "running") /\ Turn(p, "link", proc[p].me, Len(tasks) + 1, proc[p].work)
  BY <1>0, InsertAdds, InsertTurns DEF Insert
<1>2. At(p, "dispatch") /\ spec.task = proc[p].saw /\ spec' = spec /\ judges' = judges /\ late' = late
      /\ \A q \in Procs : ~At(q, "link")
  BY DEF Insert
<1>3. Gone(spec.task)
  BY <1>2 DEF Alone, LinkingOk
<1>4. spec' = spec /\ \A n : n = spec.task => Gone(n)'
  BY <1>1, <1>2, <1>3, GoneStays
<1>5. \A q \in Procs : At(q, "dispatch") => proc[q].saw # Len(tasks) + 1
  <2>1. ASSUME NEW q \in Procs, At(q, "dispatch")
        PROVE  proc[q].saw \in Nat /\ proc[q].saw <= Len(tasks)
    BY <1>0, <2>1 DEF SeesRuns, Starting, At, Typed, ProcType
  <2>2. QED
    BY <1>1, <2>1 DEF AddsRun
<1>6. LinkingOk'
  <2>1. \A q \in Procs : At(q, "link")' <=> q = p
    BY <1>1, <1>2, TurnAt
  <2>2. proc'[p].saw = Len(tasks) + 1 /\ proc'[p].saw \in DOMAIN tasks'
    BY <1>1, TurnAt DEF AddsRun
  <2>3. Len(tasks) + 1 # spec.task
    BY <1>0, <1>1 DEF Typed, SpecType, AddsRun
  <2>4. \A q \in Procs : At(q, "dispatch")' => At(q, "dispatch") /\ proc'[q].saw = proc[q].saw
    BY <1>1, TurnAt
  <2>5. Gone(spec.task)'
    <3> PICK n : n = spec.task
      OBVIOUS
    <3>1. Gone(n)' /\ spec'.task = n
      BY <1>4
    <3>2. QED
      BY <3>1 DEF Gone, deadDispatch
  <2>6. QED
    BY <1>2, <1>5, <2>1, <2>2, <2>3, <2>4, <2>5 DEF LinkingOk
<1>7. RunsOk'
  <2>1. ASSUME NEW u \in DOMAIN tasks'
        PROVE  /\ Active(u)' => u \in late' \/ u = spec'.task \/ \E q \in Procs : At(q, "link")' /\ proc'[q].saw = u
               /\ tasks'[u].aged /\ settling(u)' => u \in late'
    <3>1. CASE u = Len(tasks) + 1
      <4>1. At(p, "link")' /\ proc'[p].saw = u
        BY <1>1, <3>1, TurnAt
      <4>2. QED
        BY <1>1, <3>1, <4>1 DEF AddsRun
    <3>2. CASE u \in DOMAIN tasks
      BY <1>1, <1>2, <3>2 DEF AddsRun, Alone, RunsOk, Active, settling, judgesOf
    <3>3. QED
      BY <1>1, <3>1, <3>2 DEF AddsRun
  <2>2. QED
    BY <1>2, <2>1 DEF Alone, RunsOk
<1>8. QED
  BY <1>6, <1>7 DEF Alone

LEMMA InsertFailsAlone ==
    ASSUME Sound, Alone, NEW p \in Procs, InsertFails(p)
    PROVE  Alone'
<1>0. Typed
  BY DEF Sound
<1>1. AddsRun(p, "failed") /\ Turn(p, "idle", NoWorker, NONE, NoWork)
  BY <1>0, InsertAdds, EndSteps DEF InsertFails, Leaves
<1>2. At(p, "dispatch") /\ spec' = spec /\ judges' = judges /\ late' = late /\ ~At(p, "link")
  BY DEF InsertFails, At, history
<1>3. \A q \in Procs : At(q, "link")' <=> At(q, "link")
  BY <1>1, <1>2, TurnAt
<1>4. \A q \in Procs : At(q, "link") => proc'[q].saw = proc[q].saw
  BY <1>1, <1>2, TurnAt
<1>5. \A q \in Procs : At(q, "dispatch")' => At(q, "dispatch") /\ proc'[q].saw = proc[q].saw
  BY <1>1, TurnAt
<1>6. Gone(spec.task) => Gone(spec.task)'
  <2> SUFFICES ASSUME Gone(spec.task)
               PROVE  Gone(spec.task)'
    OBVIOUS
  <2> PICK n : n = spec.task
    OBVIOUS
  <2>1. Gone(n)' /\ spec'.task = n
    BY <1>1, <1>2, GoneStays
  <2>2. QED
    BY <2>1 DEF Gone, deadDispatch
<1>7. LinkingOk'
  BY <1>1, <1>2, <1>3, <1>4, <1>5, <1>6 DEF Alone, LinkingOk, AddsRun
<1>8. RunsOk'
  <2>1. ASSUME NEW u \in DOMAIN tasks'
        PROVE  /\ Active(u)' => u \in late' \/ u = spec'.task \/ \E q \in Procs : At(q, "link")' /\ proc'[q].saw = u
               /\ tasks'[u].aged /\ settling(u)' => u \in late'
    <3>1. CASE u = Len(tasks) + 1
      BY <1>1, <3>1 DEF AddsRun, Active
    <3>2. CASE u \in DOMAIN tasks
      BY <1>1, <1>2, <1>3, <1>4, <3>2 DEF AddsRun, Alone, RunsOk, Active, settling, judgesOf
    <3>3. QED
      BY <1>1, <3>1, <3>2 DEF AddsRun
  <2>2. QED
    BY <1>2, <2>1 DEF Alone, RunsOk
<1>9. QED
  BY <1>7, <1>8 DEF Alone

LEMMA LinkAlone ==
    ASSUME Sound, Alone, NEW p \in Procs, Link(p)
    PROVE  Alone'
<1>0. Typed /\ spec \in SpecType
  BY DEF Sound, Typed
<1>1. Turn(p, "idle", NoWorker, NONE, NoWork)
  BY <1>0, EndSteps DEF Leaves
<1>2. At(p, "link") /\ spec'.task = proc[p].saw /\ tasks' = tasks /\ judges' = judges /\ late' = late
  BY <1>0 DEF Link, SpecType, history
<1>3. Gone(spec.task) /\ (\A q \in Procs : At(q, "link") => q = p)
  BY <1>2 DEF Alone, LinkingOk
<1>4. \A q \in Procs : ~At(q, "link")'
  BY <1>1, <1>3, TurnAt
<1>5. \A q \in Procs : At(q, "dispatch")' => proc'[q].saw # spec'.task
  BY <1>1, <1>2, TurnAt DEF Alone, LinkingOk
<1>6. LinkingOk'
  BY <1>4, <1>5 DEF LinkingOk
(* Who is replaced does not come back, or has outlived its cooldown. *)
<1>7. ASSUME NEW u \in DOMAIN tasks, u = spec.task, u \notin late
      PROVE  ~Active(u) /\ ~settling(u)
  <2>1. u # NONE
    <3>1. tasks \in Seq(RunType)
      BY <1>0 DEF Typed
    <3>2. QED
      BY <3>1 DEF NONE
  <2>2. deadDispatch(u) /\ tasks[u].aged
    BY <1>3, <1>7, <2>1 DEF Gone
  <2>3. QED
    BY <1>7, <2>2 DEF Alone, RunsOk, deadDispatch, Active
<1>8. ASSUME NEW g \in judges
      PROVE  g.task \in late
  <2>1. g.task \in DOMAIN tasks /\ judgesOf(g.task) # {}
    BY JudgeIs DEF Sound
  <2>2. QED
    BY <1>7, <2>1 DEF Alone, RunsOk, settling
<1>9. RunsOk'
  <2>1. ASSUME NEW u \in DOMAIN tasks'
        PROVE  /\ Active(u)' => u \in late' \/ u = spec'.task
               /\ tasks'[u].aged /\ settling(u)' => u \in late'
    <3>1. u \in DOMAIN tasks /\ tasks'[u] = tasks[u]
      BY <1>2
    <3>2. Active(u) => u \in late \/ u = spec'.task
      BY <1>2, <1>3, <1>7, <3>1 DEF Alone, RunsOk
    <3>3. tasks[u].aged /\ settling(u) => u \in late
      BY <3>1 DEF Alone, RunsOk
    <3>4. QED
      BY <1>2, <3>1, <3>2, <3>3 DEF Active, settling, judgesOf
  <2>2. \A g \in judges' : g.task \in late'
    BY <1>2, <1>8
  <2>3. QED
    BY <2>1, <2>2 DEF RunsOk
<1>10. QED
  BY <1>6, <1>9 DEF Alone

LEMMA RequestAlone ==
    ASSUME Sound, Made, Alone, ~blind, NEW p \in Procs, RequestStep(p), ~blind', ~doubled'
    PROVE  Alone'
<1>0. Typed /\ spec \in SpecType
  BY DEF Sound, Typed
<1>a. judges' = judges /\ late' = late
  BY DEF RequestStep, Takes, Leaves, Accepted, InVain, Pending, Refused, Link, Die, Resubmit, claimJobSpec,
         HealSubmit, HealDispatch, Insert, InsertFails, history
<1>1. ASSUME NEW pc, pc \notin {"dispatch", "link"}, NEW w, NEW n, NEW work, Turn(p, pc, w, n, work), ~At(p, "link"),
             tasks' = tasks, spec'.task = spec.task, judges' = judges, late' = late
      PROVE  Alone'
  BY <1>1, TurnAt, NobodyLinks
<1>2. ASSUME NEW w, NEW work, Turn(p, "dispatch", w, spec.task, work), Gone(spec.task), ~At(p, "link"),
             tasks' = tasks, spec'.task = spec.task, judges' = judges, late' = late
      PROVE  Alone'
  BY <1>2, TurnAt, NobodyLinks
<1>3. CASE Takes(p)
  <2>1. Accepted(p)
    BY <1>3 DEF Takes, InVain, Pending
  <2>2. DOMAIN tasks = {}
    BY <2>1 DEF Accepted, Made, MadeByTheAccepted
  <2>3. spec.task = NONE
    <3>1. tasks \in Seq(RunType) /\ spec.task \in Nat /\ spec.task <= Len(tasks)
      BY <1>0 DEF Typed, SpecType
    <3>2. Len(tasks) = 0
      BY <2>2, <3>1
    <3>3. QED
      BY <3>1, <3>2 DEF NONE
  <2>4. Turn(p, "dispatch", proc[p].me, spec.task, proc[p].work)
    BY <1>0, <1>3, TakeSteps
  <2>5. QED
    BY <1>a, <1>2, <2>1, <2>3, <2>4 DEF Accepted, At, Gone
<1>4. ASSUME NEW w \in Miners, HealDispatch(p, w)
      PROVE  Alone'
  <2>1. Gone(spec.task)
    BY <1>4 DEF HealDispatch, shouldHealAcceptedJob, linked, Gone
  <2>2. Turn(p, "dispatch", w, spec.task, proc[p].work)
    BY <1>0, <1>4, HealDispatchTurns
  <2>3. QED
    BY <1>a, <1>2, <1>4, <2>1, <2>2 DEF HealDispatch, sweeps, At
<1>5. ASSUME NEW w \in Miners, HealSubmit(p, w)
      PROVE  Alone'
  BY <1>0, <1>a, <1>1, <1>5, HealSubmitTurns DEF HealSubmit, sweeps, At
<1>6. ASSUME NEW w \in Workers, claimJobSpec(p, w)
      PROVE  Alone'
  BY <1>0, <1>a, <1>1, <1>6, ClaimTurns DEF claimJobSpec, At, SpecType
<1>7. CASE Refused(p) \/ Die(p) \/ Resubmit(p)
  <2>1. Turn(p, "idle", NoWorker, NONE, NoWork)
    BY <1>0, <1>7, EndSteps DEF Leaves
  <2>2. tasks' = tasks /\ spec'.task = spec.task
    BY <1>0, <1>7 DEF Refused, Die, Resubmit, SpecType
  <2>3. ~At(p, "link")
    BY <1>7 DEF Refused, Die, Resubmit, At
  <2>4. QED
    BY <1>a, <1>1, <2>1, <2>2, <2>3
<1>8. QED
  BY <1>3, <1>4, <1>5, <1>6, <1>7, InsertAlone, InsertFailsAlone, LinkAlone DEF RequestStep, Leaves

LEMMA AloneHolds == Spec => []AloneUnlessDoubled
<1>1. Init => AloneUnlessDoubled
  BY DEF Init, AloneUnlessDoubled, Alone, LinkingOk, RunsOk, Idle, At
<1>2. Sound /\ Made /\ AloneUnlessDoubled /\ [Next]_vars => AloneUnlessDoubled'
  <2> SUFFICES ASSUME Sound, Made, AloneUnlessDoubled, [Next]_vars, ~blind', ~doubled'
               PROVE  Alone'
    BY DEF AloneUnlessDoubled
  <2>0. Typed
    BY DEF Sound
  <2>1. ASSUME NEW t \in DOMAIN tasks, RunStep(t) \/ \E g \in judges : g.task = t /\ JudgeStep(g)
        PROVE  Alone'
    <3>1. RunMoves(t) /\ RunTells(t)
      BY <2>1, RunEffects, JudgeEffects
    <3>2. ~blind /\ ~doubled
      BY <3>1 DEF RunTells
    <3>3. QED
      BY <3>1, <3>2, MovesAlone DEF AloneUnlessDoubled
  <2>2. ASSUME NEW p \in Procs, RequestStep(p)
        PROVE  Alone'
    <3>1. blind => blind'
      BY <2>2 DEF RequestStep, Takes, Leaves, Accepted, InVain, Pending, Refused, Link, Die, Resubmit, claimJobSpec,
         HealSubmit, HealDispatch, Insert, InsertFails, history
    <3>2. doubled => doubled'
      <4>1. CASE Takes(p)
        BY <4>1 DEF Takes, Accepted, InVain, Pending, history
      <4>2. CASE Leaves(p)
        BY <4>2 DEF Leaves, Refused, InsertFails, Link, Die, Resubmit, history
      <4>3. CASE Insert(p)
        BY <4>3 DEF Insert
      <4>4. CASE \E w \in Workers : claimJobSpec(p, w)
        BY <4>4 DEF claimJobSpec, history
      <4>5. CASE \E w \in Miners : HealSubmit(p, w) \/ HealDispatch(p, w)
        BY <4>5 DEF HealSubmit, HealDispatch, history
      <4>6. QED
        BY <2>2, <4>1, <4>2, <4>3, <4>4, <4>5 DEF RequestStep
    <3>3. QED
      BY <2>2, <3>1, <3>2, RequestAlone DEF AloneUnlessDoubled
  <2>3. CASE Deadline \/ UNCHANGED vars \/ \E o \in ops : Land(o)
    <3>1. tasks' = tasks /\ proc' = proc /\ spec' = spec /\ blind' = blind /\ doubled' = doubled
          /\ judges' = judges /\ late' = late
      BY <2>3 DEF Deadline, Land, vars, history
    <3>2. QED
      BY <3>1, NobodyLinks DEF AloneUnlessDoubled, At
  <2>4. CASE Expire
    <3>1. tasks' = tasks /\ spec'.task = spec.task /\ blind' = blind /\ doubled' = doubled
          /\ judges' = judges /\ late' = late
      BY <2>0, <2>4 DEF Expire, history, Typed, SpecType
    <3>2. QED
      BY <2>0, <2>4, <3>1, ExpireKeeps, NobodyLinks DEF AloneUnlessDoubled, At
  <2>5. \A g \in judges : g.task \in DOMAIN tasks
    BY JudgeIs DEF Sound
  <2>6. QED
    BY <2>1, <2>2, <2>3, <2>4, <2>5, StepsAre
<1>3. QED
  BY <1>1, <1>2, SoundHolds, MadeHolds, PTL DEF Spec

(* The work is done once at a time, however many sweeps and requests start  *)
(* runs and whichever of them die: a second run in flight was started on an *)
(* accept nobody saw succeed, or past a read another dispatch had outdated, *)
(* or beside one that was sent back after it had outlived its cooldown.     *)
THEOREM WorkIsDoneOnceAtATime == Spec => []OneRunAtATime
<1>1. Sound /\ AloneUnlessDoubled => OneRunAtATime
  <2> SUFFICES ASSUME Sound, Alone, \A t \in late : ~Active(t)
               PROVE  ~(Cardinality({t \in DOMAIN tasks : Active(t)}) > 1)
    BY DEF AloneUnlessDoubled, OneRunAtATime
  <2>1. ASSUME NEW t \in DOMAIN tasks, NEW u \in DOMAIN tasks, Active(t), Active(u)
        PROVE  t = u
    <3>1. ASSUME NEW p \in Procs, At(p, "link"), NEW v \in DOMAIN tasks, v = spec.task
          PROVE  ~Active(v)
      <4>1. v # NONE
        <5>1. tasks \in Seq(RunType)
          BY DEF Sound, Typed
        <5>2. QED
          BY <5>1 DEF NONE
      <4>2. QED
        BY <3>1, <4>1 DEF Alone, LinkingOk, Gone, deadDispatch, Active
    <3>2. QED
      BY <2>1, <3>1 DEF Alone, RunsOk, LinkingOk
  <2> DEFINE running == {t \in DOMAIN tasks : Active(t)}
  <2>2. CASE running = {}
    <3>1. Cardinality(running) = 0
      BY <2>2, FS_EmptySet
    <3>2. QED
      BY <3>1
  <2>3. CASE running # {}
    <3>1. PICK t : t \in running
      BY <2>3
    <3>2. running = {t}
      BY <2>1, <3>1
    <3>3. Cardinality(running) = 1
      BY <3>2, FS_Singleton
    <3>4. QED
      BY <3>3
  <2>4. QED
    BY <2>2, <2>3
<1>2. QED
  BY <1>1, SoundHolds, AloneHolds, PTL

(* Nothing replaces a run while a request judges it, unless its settlement  *)
(* had waited longer than the cooldown or two dispatches crossed.           *)
THEOREM GradedIsLinked == Spec => []GradesTheLinkedRun
<1>1. AloneUnlessDoubled => GradesTheLinkedRun
  BY DEF AloneUnlessDoubled, Alone, RunsOk, GradesTheLinkedRun
<1>2. QED
  BY <1>1, AloneHolds, PTL

=============================================================================
