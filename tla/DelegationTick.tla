--------------------------- MODULE DelegationTick ---------------------------
(***************************************************************************)
(* A delegation (lib/delegation): the owner confirms a plan, its root      *)
(* subtasks are escrowed (confirmDelegationJobs, postDelegationJobs), and  *)
(* ticks from five callers grade what comes back, pay it, and escrow the   *)
(* subtasks that were waiting (tickDelegation).  Every caller reads the    *)
(* row first and takes a lease (lib/ops-lease) afterwards; a subtask's job *)
(* is found again by the hash of its spec.                                 *)
(*                                                                         *)
(* A definition named X_slip is X with a mistake a change could make.      *)
(*                                                                         *)
(* Abstractions.  A spec's hash is its place in the order of posting, and  *)
(* the job has the same number.  A tick's view of the market is older than *)
(* its lease by any amount, and older of one job than of another, which a  *)
(* read pinned to one block is not.  A lease runs out at any moment.       *)
(* Bounties and balances are left out, and so are peer review, revisions,  *)
(* review stakes and the integration check.                                *)
(***************************************************************************)
EXTENDS Integers, FiniteSets, Sequences, SequencesExt

CONSTANTS
    Callers,        \* invocations of confirmDelegationJobs or tickDelegation
    Subtasks,
    DependsOn,      \* the subtasks each one waits for
    Payer,          \* the agent each one is escrowed by
    MaxMishaps      \* bound: posts that throw or revert, ids not found, deaths,
                    \* leases outlived, jobs returned to be posted again

ASSUME DelegationAssumption ==
    /\ IsFiniteSet(Subtasks)
    /\ DependsOn \in [Subtasks -> SUBSET Subtasks]
    /\ DOMAIN Payer = Subtasks

NONE == 0
Roots == {s \in Subtasks : DependsOn[s] = {}}
Kinds == {"confirm", "tick"}

VARIABLES
    row,        \* delegation: status, subtasks
    jobs,       \* the specs inserted, and what the market says of each
    lease,      \* the leases that are held
    caller,     \* each invocation's local state
    excused,    \* history: subtasks whose record something named below upset
    mishaps

vars == <<row, jobs, lease, caller, excused, mishaps>>

Blank == [s \in Subtasks |-> [hash |-> NONE, id |-> NONE, end |-> "none"]]
Idle == [pc |-> "idle", kind |-> "tick", sub |-> Blank, outdated |-> {},
         changed |-> FALSE, todo |-> {}, wave |-> <<>>, op |-> NONE]

Init ==
    /\ row = [status |-> "planned", sub |-> Blank]
    /\ jobs = <<>>
    /\ lease = {}
    /\ caller = [c \in Callers |-> Idle]
    /\ excused = {}
    /\ mishaps = 0

Mishap == mishaps < MaxMishaps /\ mishaps' = mishaps + 1
Set(c, state) == caller' = [caller EXCEPT ![c] = state]
kind(c) == caller[c].kind
holds(c) == caller[c].pc \notin {"idle", "lease"}
Excuse(which) == excused' = excused \cup which

-----------------------------------------------------------------------------
(* The market.  "sent" is a UserOperation nobody has seen mined, "spec" a   *)
(* spec without a job.                                                      *)

onMarket(h) == jobs[h].status \notin {"spec", "sent"}
Standing == {h \in DOMAIN jobs : jobs[h].status \in {"sent", "Open", "Submitted"}}
Become(hs, status) == jobs' = [h \in DOMAIN jobs |-> IF h \in hs THEN [jobs[h] EXCEPT !.status = status] ELSE jobs[h]]
operation(o) == {h \in DOMAIN jobs : jobs[h].op = o /\ jobs[h].status = "sent"}

(* What was sent and is not waited for any more is mined after all.         *)
Land(o) ==
    /\ operation(o) # {} /\ \A c \in Callers : caller[c].op # o
    /\ Become(operation(o), "Open")
    /\ UNCHANGED <<row, lease, caller, excused, mishaps>>

(* Workers deliver; requesters and graders settle, and deadlines do: with a *)
(* refund where nothing was delivered, as Expired where nobody judged.      *)
Market(h) ==
    /\ \/ jobs[h].status = "Open" /\ \E to \in {"Submitted", "Refunded", "Expired"} : Become({h}, to)
       \/ jobs[h].status = "Submitted" /\ \E to \in {"Completed", "Refunded", "Expired"} : Become({h}, to)
    /\ UNCHANGED <<row, lease, caller, excused, mishaps>>

(* The grader refunds a failed job to post it again, or a price raise       *)
(* cancels an open one: a moment later the replacement's spec names the old *)
(* one as its parent.                                                       *)
Return(h) ==
    /\ jobs[h].status \in {"Open", "Submitted"}
    /\ Mishap
    /\ Become({h}, "Returned")
    /\ UNCHANGED <<row, lease, caller, excused>>
Repost(h) ==
    /\ jobs[h].status = "Returned"
    /\ \E outcome \in {"sent", "spec"} :
           jobs' = Append([jobs EXCEPT ![h].status = "Refunded"],
                          [step |-> jobs[h].step, op |-> Len(jobs) + 1, parent |-> h, status |-> outcome])
    /\ UNCHANGED <<row, lease, caller, excused, mishaps>>

-----------------------------------------------------------------------------
(* Reading, leases.                                                         *)

(* A caller reads the row well before it takes the lease.                   *)
Read(c) ==
    /\ caller[c].pc = "idle"
    /\ row.status # "completed"
    /\ Set(c, [Idle EXCEPT !.pc = "lease", !.sub = row.sub,
                           !.kind = IF row.status = "planned" THEN "confirm" ELSE "tick"])
    /\ UNCHANGED <<row, jobs, lease, excused, mishaps>>

Leave(c, held) == Set(c, Idle) /\ lease' = held
(* Writing the row, and leaving; what others have read is outdated by it.   *)
Write(c, status, sub, held) ==
    LET new == {s \in Subtasks : sub[s] # row.sub[s]}
    IN  /\ row' = [status |-> status, sub |-> sub]
        /\ lease' = held
        /\ caller' = [d \in Callers |->
               IF d = c THEN Idle
               ELSE IF caller[d].pc = "idle" THEN Idle
               ELSE [caller[d] EXCEPT !.outdated = @ \cup new]]

(* A lease runs out: whoever held it is dead, or is not.                    *)
Expire(k) ==
    /\ k \in lease
    /\ lease' = lease \ {k}
    /\ IF \E c \in Callers : holds(c) /\ kind(c) = k
       THEN Mishap /\ Excuse(Subtasks)
       ELSE UNCHANGED <<mishaps, excused>>
    /\ UNCHANGED <<row, jobs, caller>>

-----------------------------------------------------------------------------
(* Posting: the specs are inserted, then one UserOperation escrows them.    *)

(* Posted before, and without an id: its job was not shown.                 *)
lost(st) == st.hash # NONE /\ st.id = NONE

Send(c, wave) ==
    LET op == Len(jobs) + 1
        specs == [i \in DOMAIN wave |-> [step |-> wave[i], op |-> op, parent |-> NONE, status |-> "sent"]]
    IN  /\ jobs' = jobs \o specs
        /\ Set(c, [caller[c] EXCEPT !.wave = wave, !.op = op, !.pc = "sent"])
        /\ Excuse({s \in ToSet(wave) : s \in caller[c].outdated \/ lost(caller[c].sub[s])})

waveOf(sub, p) == {s \in Roots : sub[s].id = NONE /\ Payer[s] = p}
PostWave(c) ==
    /\ caller[c].pc = "waves"
    /\ \E p \in {Payer[s] : s \in Roots} :
           /\ waveOf(caller[c].sub, p) \ caller[c].todo # {}
           /\ Send(c, SetToSeq(waveOf(caller[c].sub, p) \ caller[c].todo))
    /\ UNCHANGED <<row, lease, mishaps>>

PostDependent(c) ==
    /\ caller[c].pc = "post"
    /\ \E s \in caller[c].todo : Send(c, <<s>>)
    /\ UNCHANGED <<row, lease, mishaps>>

postedBy(c) == {caller[c].op + i - 1 : i \in DOMAIN caller[c].wave}
(* The subtasks with a wave's hashes, and its ids where the read after the  *)
(* post shows them.                                                         *)
withJobs(c, found) ==
    [s \in Subtasks |->
        IF \E h \in postedBy(c) : jobs[h].step = s
        THEN LET h == CHOOSE h \in postedBy(c) : jobs[h].step = s
             IN  [caller[c].sub[s] EXCEPT !.hash = h, !.id = IF found THEN h ELSE NONE]
        ELSE caller[c].sub[s]]
(* todo: of a confirmation what it has posted, of a tick what it still has  *)
(* to post.                                                                 *)
afterWave(c, sub) ==
    LET posted == ToSet(caller[c].wave)
        left == caller[c].todo \ posted
        next == [caller[c] EXCEPT !.sub = sub, !.wave = <<>>, !.op = NONE]
    IN  IF kind(c) = "confirm"
        THEN [next EXCEPT !.pc = "waves", !.todo = @ \cup posted]
        ELSE [next EXCEPT !.pc = IF left = {} THEN "save" ELSE "post", !.todo = left]

(* The post is mined and returns, also when it reverted as it was mined.    *)
afterSubtaskPost(c) ==
    /\ caller[c].pc = "sent"
    /\ \E outcome \in {"found", "unseen", "vain"} :
           /\ Become(postedBy(c), IF outcome = "vain" THEN "spec" ELSE "Open")
           /\ IF outcome = "found" THEN UNCHANGED mishaps ELSE Mishap
           /\ Set(c, [afterWave(c, withJobs(c, outcome = "found")) EXCEPT !.changed = TRUE])
    /\ UNCHANGED <<row, lease, excused>>

(* The post throws: it never happened, or nobody knows, or the read after   *)
(* it failed.  A tick goes on without a trace of it, a confirmation stores  *)
(* what it has and gives up.                                                *)
PostThrows(c) ==
    /\ caller[c].pc = "sent"
    /\ Mishap
    /\ \E outcome \in {"dropped", "pending", "unread"} :
         LET known == outcome = "unread" dropped == outcome = "dropped"
             sub == IF known THEN withJobs(c, FALSE) ELSE caller[c].sub
         IN  /\ Become(postedBy(c), IF dropped THEN "spec" ELSE IF known THEN "Open" ELSE "sent")
             /\ Excuse(IF dropped THEN {} ELSE ToSet(caller[c].wave))
             /\ IF kind(c) = "tick"
                THEN Set(c, afterWave(c, sub)) /\ UNCHANGED <<row, lease>>
                ELSE Write(c, row.status, sub, lease \ {"confirm"})

(* Every wave is posted: the plan is now under way.                         *)
FinishConfirm(c) ==
    /\ caller[c].pc = "waves"
    /\ {s \in Roots : caller[c].sub[s].id = NONE} \subseteq caller[c].todo
    /\ Write(c, "posted", caller[c].sub, lease \ {"confirm"})
    /\ UNCHANGED <<jobs, excused, mishaps>>

-----------------------------------------------------------------------------
(* tickDelegationLocked.                                                    *)

terminal(st) == st.end # "none"
held(sub) == {s \in Subtasks : ~terminal(sub[s]) /\ sub[s].id = NONE /\ DependsOn[s] # {}}

(* The jobs a tick's view of the market shows as they are.  It was read     *)
(* before the lease was taken, a cache keeps it for seconds, and a node     *)
(* lags: of the other jobs it shows nothing, or what they once were, which  *)
(* tells a tick no more.                                                    *)
upToDate == {h \in DOMAIN jobs : onMarket(h)}
Views == SUBSET upToDate

backfillJobIds_slip(sub, view) == sub         \* no second look
backfillJobIds(sub, view) ==
    [s \in Subtasks |->
        IF lost(sub[s]) /\ sub[s].hash \in view
        THEN [sub[s] EXCEPT !.id = sub[s].hash] ELSE sub[s]]

(* What a job's status makes of its subtask: a refunded job is followed to  *)
(* its replacement, if that is on the market.  Expired makes nothing of it. *)
successors(h) == {g \in DOMAIN jobs : jobs[g].parent = h}
observed(st, view) ==
    LET next == {g \in successors(st.hash) : g \in view}
    IN  IF terminal(st) \/ st.id \notin view THEN st
        ELSE IF jobs[st.id].status = "Completed" THEN [st EXCEPT !.end = "output"]
        ELSE IF jobs[st.id].status \notin {"Refunded", "Returned"} THEN st
        ELSE IF next # {} THEN LET g == CHOOSE g \in next : TRUE IN [st EXCEPT !.hash = g, !.id = g]
        ELSE [st EXCEPT !.end = "failed"]

scan(c, view) ==
    LET repaired == backfillJobIds(caller[c].sub, view)
        sub == [s \in Subtasks |-> observed(repaired[s], view)]
        toGrade == {s \in Subtasks : /\ ~terminal(sub[s]) /\ sub[s].id = repaired[s].id
                                     /\ sub[s].id \in view /\ jobs[sub[s].id].status = "Submitted"}
        tooEarly == {s \in Subtasks : /\ sub[s].end = "failed" /\ repaired[s].end = "none"
                                      /\ \/ jobs[sub[s].id].status = "Returned"
                                         \/ successors(sub[s].hash) # {}}
    IN  /\ Set(c, [caller[c] EXCEPT !.pc = "grade", !.sub = sub, !.todo = toGrade,
                                    !.changed = sub # caller[c].sub])
        /\ lease' = lease \cup {"tick"}
        /\ Excuse(tooEarly)

freshRow_slip(c) == [status |-> "planned", sub |-> caller[c].sub]     \* what was read before the lease
freshRow(c) == row
beginConfirm(c) ==
    /\ UNCHANGED excused
    /\ IF freshRow(c).status # "planned" THEN Leave(c, lease)
       ELSE /\ Set(c, [caller[c] EXCEPT !.pc = "waves", !.sub = freshRow(c).sub, !.outdated = {}])
            /\ lease' = lease \cup {"confirm"}

(* A caller that is turned away, or whose read of the market failed, leaves. *)
turnedAway(c) ==
    /\ kind(c) \in lease \/ kind(c) = "tick"
    /\ Leave(c, lease) /\ UNCHANGED excused

(* Under its lease a confirmation reads the row again; a tick does not, and *)
(* goes over what it came with, the row and its view of the market.         *)
acquireOpsLease(c) ==
    /\ caller[c].pc = "lease"
    /\ \/ turnedAway(c)
       \/ kind(c) \notin lease /\ kind(c) = "confirm" /\ beginConfirm(c)
       \/ kind(c) \notin lease /\ kind(c) = "tick" /\ \E view \in Views : scan(c, view)
    /\ UNCHANGED <<row, jobs, mishaps>>

(* A tick whose view is the market as it is.                                *)
scanUpToDate(c) ==
    /\ caller[c].pc = "lease" /\ kind(c) \notin lease /\ kind(c) = "tick"
    /\ scan(c, upToDate)
    /\ UNCHANGED <<row, jobs, mishaps>>

cascades_slip(sub) == {}                \* a failed input fails nobody
cascades(sub) == {s \in held(sub) : \E d \in DependsOn[s] : sub[d].end = "failed"}
ending(sub, ss, end) == [s \in Subtasks |-> IF s \in ss THEN [sub[s] EXCEPT !.end = end] ELSE sub[s]]

(* What was delivered is graded; what passes is paid, unless the market has *)
(* moved on.  Then the dependents of what failed fail, and those of what is *)
(* done are up for posting.                                                 *)
Grade(c) ==
    /\ caller[c].pc = "grade"
    /\ \E passed \in SUBSET {s \in caller[c].todo : jobs[caller[c].sub[s].id].status = "Submitted"} :
         LET graded == ending(caller[c].sub, passed, "output")
             sub == ending(graded, cascades(graded), "failed")
             ready == {s \in held(sub) : \A d \in DependsOn[s] : sub[d].end = "output"}
         IN  /\ Become({graded[s].id : s \in passed}, "Completed")
             /\ Set(c, [caller[c] EXCEPT !.pc = IF ready = {} THEN "save" ELSE "post",
                                        !.sub = sub, !.todo = ready,
                                        !.changed = @ \/ sub # caller[c].sub])
    /\ UNCHANGED <<row, lease, excused, mishaps>>

allTerminal(sub) == \A s \in Subtasks : terminal(sub[s])

(* The whole list of subtasks is written, over whatever is there by now.    *)
Save(c) ==
    LET sub == caller[c].sub
        written == allTerminal(sub) \/ caller[c].changed
    IN  /\ caller[c].pc = "save"
        /\ IF written
           THEN /\ Write(c, IF allTerminal(sub) THEN "completed" ELSE row.status, sub, lease \ {"tick"})
                /\ Excuse({s \in caller[c].outdated : sub[s] # row.sub[s]})
           ELSE Leave(c, lease \ {"tick"}) /\ UNCHANGED <<row, excused>>
        /\ UNCHANGED <<jobs, mishaps>>

(* The tick throws, or its process dies: what it had not saved is lost.     *)
Die(c) ==
    /\ holds(c)
    /\ Mishap
    /\ \E left \in {lease, lease \ {"tick"}} : Leave(c, IF kind(c) = "tick" THEN left ELSE lease)
    /\ Excuse({s \in Subtasks : \/ caller[c].sub[s].hash # row.sub[s].hash
                                \/ caller[c].pc = "sent" /\ s \in ToSet(caller[c].wave)})
    /\ UNCHANGED <<row, jobs>>

Advance(c) ==
    \/ acquireOpsLease(c)
    \/ PostWave(c) \/ PostDependent(c) \/ afterSubtaskPost(c)
    \/ FinishConfirm(c)
    \/ Grade(c) \/ Save(c)

Next ==
    \/ \E c \in Callers : Read(c) \/ Advance(c) \/ PostThrows(c) \/ Die(c)
    \/ \E h \in DOMAIN jobs : Land(h) \/ Market(h) \/ Return(h) \/ Repost(h)
    \/ \E k \in Kinds : Expire(k)

Spec == Init /\ [][Next]_vars

(* A plan that is under way is ticked again and again; a tick that has      *)
(* begun gets on; ticks that might see the market as it is some time do;    *)
(* what is sent is mined; a dead caller's lease runs out.  Nothing is asked *)
(* of the market, or of the owner of a plan.                                *)
FairSpec ==
    /\ Spec
    /\ \A c \in Callers : WF_vars(row.status = "posted" /\ Read(c)) /\ WF_vars(Advance(c))
    /\ SF_vars(\E c \in Callers : scanUpToDate(c))
    /\ WF_vars(\E h \in DOMAIN jobs : Land(h))
    /\ WF_vars(\E k \in Kinds : Expire(k))

-----------------------------------------------------------------------------
escrows(s) == {h \in DOMAIN jobs : jobs[h].step = s /\ jobs[h].parent = NONE /\ jobs[h].status # "spec"}

(* No subtask is escrowed twice.  Not an invariant: a tick that waits for   *)
(* its turn behind one that posts works on a row read before either.        *)
OneEscrowPerSubtask == \A s \in Subtasks : Cardinality(escrows(s)) <= 1

(* A subtask is escrowed twice only if a tick worked on a row that had been *)
(* written since, a lease ran out under a live tick or confirmation, a post *)
(* failed that nobody can say the outcome of, a tick or confirmation died   *)
(* with it, or it was posted again because its hash was on record and its   *)
(* job was not shown.                                                       *)
TwiceOnlyIfExcused ==
    \A s \in Subtasks :
        Cardinality(escrows(s)) > 1 => s \in excused

(* Again and again, every escrow that stands is the one on its subtask's    *)
(* record, also one whose id the read after the post did not show.  Except  *)
(* under the same excuses, and for a replacement that was posted after a    *)
(* tick had given its subtask up.                                           *)
EveryEscrowIsFollowed ==
    []<>(row.status = "planned" \/ \A h \in Standing : row.sub[jobs[h].step].id = h \/ jobs[h].step \in excused)

(* A delegation under way never rests with nothing left in escrow, unless   *)
(* it waits for a root whose post reverted as it was mined (nobody posts a  *)
(* root again that has a hash), or for a job that expired: no branch of the *)
(* tick reads that status.                                                  *)
hollow(s) == s \in Roots /\ lost(row.sub[s]) /\ jobs[row.sub[s].hash].status = "spec"
expired(s) == ~terminal(row.sub[s]) /\ row.sub[s].id # NONE /\ jobs[row.sub[s].id].status = "Expired"
NeverRests == []<>(row.status = "posted" => Standing # {} \/ \E s \in Subtasks : hollow(s) \/ expired(s))
=============================================================================
