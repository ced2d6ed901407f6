------------------------------ MODULE PriceRaise ------------------------------
(***************************************************************************)
(* Raising the price of an unclaimed job: lib/price-raise.ts, the lease of *)
(* lib/ops-lease.ts, and the way lib/ops-cycle.ts drives both.  A raise is *)
(* a cancel and a repost, with an intent row written first, so that a pass *)
(* that dies in between can be finished by resumeOrphanedRaises.           *)
(*                                                                         *)
(* A pass runs in a serverless invocation: there may be several at once,   *)
(* one may die at any await, and the transactions it sends are operations  *)
(* in a bundler's mempool that land, or revert, after it stopped waiting.  *)
(*                                                                         *)
(* A definition named X_slip is X with a mistake a change could make.       *)
(*                                                                         *)
(* Abstractions.  Prices, titles and the rest of a spec are left out, so   *)
(* "due for a raise" is a choice.  A spec hash is the number of its row,   *)
(* for every row is sealed with a fresh nonce.  The cached job list of the *)
(* sweep only preselects what the fresh re-check decides.  A query without  *)
(* ORDER BY returns its rows in any order, so the order of a loop is a     *)
(* choice.  Time is counted in waits for an operation (30 s + 60 s).       *)
(***************************************************************************)
EXTENDS Integers, FiniteSets, Sequences, SequencesExt, FiniteSetsExt

CONSTANTS
    Sweeps,             \* invocations of sweepPriceRaises
    Resumes,            \* what drives resumeOrphanedRaises: traffic, the cron
    Nobody,             \* the sender of an operation nobody waits for
    Listed,             \* how many jobs with a price plan are listed at first
    LEASE,              \* RAISE_SWEEP_COOLDOWN_MS
    INTERVAL,           \* TRAFFIC_TICK_INTERVAL_MS and FULL_CYCLE_LEASE_MS
    ORPHAN_AGE,         \* minAgeMs of isOrphanedRaise
    WAIT,               \* how long sendAgentCalls waits for a receipt
    LIFE,               \* how long the platform lets an invocation run
    BATCH,              \* how many orphans a pass takes
    ATTEMPTS,           \* how often retry() tries a post
    Moves,              \* what else happens to a job: the statuses it may get
    Slow,               \* whether an operation may outlast WAIT in the mempool
    Drops,              \* the kinds of operation the bundler may drop
    CrashAt,            \* the steps at which an invocation may die
    MaxRows, MaxPosts, MaxPending, MaxFaults    \* bounds

ASSUME ConstantsOk ==
    /\ Sweeps \cap Resumes = {} /\ Nobody \notin Sweeps \cup Resumes
    /\ Listed \in Nat

Proc == Sweeps \cup Resumes
Sweep == "price-raise-sweep"            \* the lease all sweeps share

VARIABLES
    rows,       \* job_spec: <<[parent, jobId, age]>>, in insertion order
    chain,      \* the contract's jobs: <<[spec, status]>>, in id order
    mempool,    \* operations sent and not yet landed
    lease,      \* how long each lease of ops_leases still runs
    proc,       \* each invocation's local state
    refunded,   \* history: the rows whose own cancel landed
    vain,       \* history: those whose cancel reverted as it was mined, unknown to its sender
    faults      \* crashes and failed sends so far

history == <<refunded, vain>>
vars == <<rows, chain, mempool, lease, proc, history, faults>>

Idle == [pc |-> "idle", todo |-> {}, row |-> 0, seen |-> <<>>, links |-> <<>>,
         tries |-> 0, waited |-> 0, life |-> 0]
Original(n) == [parent |-> 0, jobId |-> n, age |-> 0]
Live == {"Open", "Accepted"}

Init ==
    /\ rows = [n \in 1..Listed |-> Original(n)]
    /\ chain = [n \in 1..Listed |-> [spec |-> n, status |-> "Open"]]
    /\ mempool = <<>>
    /\ lease = [l \in {Sweep} \cup Resumes |-> 0]
    /\ proc = [p \in Proc |-> Idle]
    /\ refunded = {} /\ vain = {}
    /\ faults = 0

At(p, pc) == proc[p].pc = pc
Step(p, changes) ==
    proc' = [proc EXCEPT ![p] = [f \in DOMAIN @ |-> IF f \in DOMAIN changes THEN changes[f] ELSE @[f]]]
next(p, todo) ==                        \* the loop goes on to the rows left, or the pass ends
    IF todo = {} THEN Idle
    ELSE [Idle EXCEPT !.todo = todo, !.seen = proc[p].seen, !.links = proc[p].links,
                      !.life = proc[p].life, !.pc = IF p \in Sweeps THEN "sweep" ELSE "resume"]
goOn(p) == next(p, proc[p].todo)
leave(p, n) == next(p, proc[p].todo \ {n})
waiting(p) == proc[p].pc \in {"cancelling", "posting"}
isPosted(n) == \E id \in DOMAIN chain : chain[id].spec = n

-----------------------------------------------------------------------------
(* The chain: anything a worker, a requester or a keeper does to a job.    *)

before(status) == IF status \in {"Completed", "Refunded"} THEN "Accepted" ELSE "Open"
Market(id) ==
    /\ \E status \in Moves :
          /\ chain[id].status = before(status)
          /\ chain' = [chain EXCEPT ![id].status = status]
    /\ UNCHANGED <<rows, mempool, lease, proc, history, faults>>

(* The operation an invocation waits for is known to have landed, or it has *)
(* failed: retry() tries a post again, retryRpc a cancel whose error is     *)
(* transient.                                                               *)
Confirmed(p) ==
    Step(p, CASE At(p, "cancelling") -> [pc |-> "post", tries |-> 0, waited |-> 0]
              [] At(p, "posting") /\ p \in Sweeps -> [pc |-> "link", waited |-> 0]
              [] OTHER -> goOn(p))
Retry(p, pc) ==
    /\ proc[p].tries + 1 < ATTEMPTS
    /\ Step(p, [pc |-> pc, tries |-> proc[p].tries + 1, waited |-> 0])
Failed(p) ==
    \/ At(p, "cancelling") /\ (Retry(p, "cancel") \/ Step(p, goOn(p)))
    \/ At(p, "posting") /\ Retry(p, "post")
    \/ At(p, "posting") /\ ~(proc[p].tries + 1 < ATTEMPTS) /\ Step(p, goOn(p))

Tell(p, ok) ==
    IF p = Nobody THEN UNCHANGED proc ELSE IF ok THEN Confirmed(p) ELSE Failed(p)

(* cancelJob takes effect on an Open job and reverts on any other, in which *)
(* case its sender is given a hash like any other.                          *)
LandCancel(i) ==
    LET op == mempool[i]
        ok == chain[op.job].status = "Open"
    IN  /\ op.kind = "cancel"
        /\ chain' = IF ok THEN [chain EXCEPT ![op.job].status = "Cancelled"] ELSE chain
        /\ refunded' = IF ok THEN refunded \cup {op.row} ELSE refunded
        /\ vain' = IF ok \/ op.by = Nobody THEN vain ELSE vain \cup {op.row}
        /\ Tell(op.by, TRUE)
        /\ mempool' = RemoveAt(mempool, i)
        /\ UNCHANGED <<rows, lease, faults>>

(* postJob creates a job for the hash it is given, whatever others exist.   *)
LandPost(i) ==
    LET op == mempool[i]
    IN  /\ op.kind = "post"
        /\ Len(chain) < MaxPosts
        /\ chain' = Append(chain, [spec |-> op.row, status |-> "Open"])
        /\ Tell(op.by, TRUE)
        /\ mempool' = RemoveAt(mempool, i)
        /\ UNCHANGED <<rows, lease, history, faults>>

(* The bundler refuses or drops an operation; a post may also revert as it  *)
(* is mined, for want of funds, and be taken for done.                      *)
Drop(i) ==
    /\ mempool[i].kind \in Drops
    /\ faults < MaxFaults
    /\ faults' = faults + 1
    /\ \/ Tell(mempool[i].by, FALSE)
       \/ mempool[i].kind = "post" /\ Tell(mempool[i].by, TRUE)
    /\ mempool' = RemoveAt(mempool, i)
    /\ UNCHANGED <<rows, chain, lease, history>>

Send(p, op) ==
    /\ Len(mempool) < MaxPending
    /\ mempool' = Append(mempool, op)
    /\ UNCHANGED <<rows, chain, lease, history, faults>>

Disown(p) ==                            \* the operation is left to itself
    mempool' = [i \in DOMAIN mempool |->
                   IF mempool[i].by = p THEN [mempool[i] EXCEPT !.by = Nobody] ELSE mempool[i]]

(* A UserOpPendingError: nobody retries, and the operation may still land.  *)
GiveUp(p) ==
    /\ Slow /\ waiting(p)
    /\ proc[p].waited >= WAIT
    /\ Disown(p)
    /\ Step(p, goOn(p))
    /\ UNCHANGED <<rows, chain, lease, history, faults>>

(* The wait fails with any other error (the request for the receipt is       *)
(* refused; the timeout of an externally owned account): it is taken for a   *)
(* failure of the operation, which may still land beside the next try.       *)
ReceiptError(p) ==
    /\ Slow /\ waiting(p)
    /\ faults < MaxFaults
    /\ faults' = faults + 1
    /\ Disown(p)
    /\ Failed(p)
    /\ UNCHANGED <<rows, chain, lease, history>>

-----------------------------------------------------------------------------
(* sweepPriceRaises and raiseJobPrice.                                      *)

(* Insert the lease or steal an expired one.                                *)
acquireOpsLease(name, ttl) ==
    /\ lease[name] = 0
    /\ lease' = [lease EXCEPT ![name] = ttl]

StartSweep(p) ==
    /\ p \in Sweeps /\ At(p, "idle")
    /\ acquireOpsLease(Sweep, LEASE)
    /\ Step(p, [pc |-> "sweep", todo |-> {n \in DOMAIN rows : rows[n].jobId # 0}])
    /\ UNCHANGED <<rows, chain, mempool, history, faults>>

(* Not due, or no longer Open.                                              *)
Skip(p) ==
    /\ At(p, "sweep")
    /\ \E n \in proc[p].todo : Step(p, leave(p, n))
    /\ UNCHANGED <<rows, chain, mempool, lease, history, faults>>

Intent(n) == [parent |-> n, jobId |-> 0, age |-> 0]

(* The fresh re-check, and the intent row.                                  *)
WriteIntent(p) ==
    /\ At(p, "sweep")
    /\ Len(rows) < MaxRows
    /\ \E n \in proc[p].todo :
          /\ chain[rows[n].jobId].status = "Open"
          /\ rows' = Append(rows, Intent(n))
          /\ Step(p, [pc |-> "cancel", row |-> Len(rows) + 1, todo |-> proc[p].todo \ {n}])
    /\ UNCHANGED <<chain, mempool, lease, history, faults>>

(* The simulation of a cancel refuses a job that is no longer Open.         *)
SendCancel(p) ==
    /\ At(p, "cancel")
    /\ LET id == rows[rows[proc[p].row].parent].jobId
       IN  IF chain[id].status = "Open"
           THEN /\ Step(p, [pc |-> "cancelling", waited |-> 0])
                /\ Send(p, [kind |-> "cancel", job |-> id, row |-> proc[p].row, by |-> p])
           ELSE /\ Step(p, goOn(p))
                /\ UNCHANGED <<rows, chain, mempool, lease, history, faults>>

SendPost(p) ==
    /\ At(p, "post")
    /\ Step(p, [pc |-> "posting", waited |-> 0])
    /\ Send(p, [kind |-> "post", job |-> 0, row |-> proc[p].row, by |-> p])

(* The backfill of onchainJobId: none when the post was mined in vain.      *)
Link_slip(p) ==                         \* link the newest job
    /\ At(p, "link")
    /\ rows' = [rows EXCEPT ![proc[p].row].jobId = Len(chain)]
    /\ Step(p, goOn(p))
    /\ UNCHANGED <<chain, mempool, lease, history, faults>>
Link(p) ==
    /\ At(p, "link")
    /\ IF isPosted(proc[p].row)
       THEN \E id \in DOMAIN chain :
               /\ chain[id].spec = proc[p].row
               /\ \A e \in 1..id - 1 : chain[e].spec # proc[p].row
               /\ rows' = [rows EXCEPT ![proc[p].row].jobId = id]
       ELSE rows' = rows
    /\ Step(p, goOn(p))
    /\ UNCHANGED <<chain, mempool, lease, history, faults>>

-----------------------------------------------------------------------------
(* resumeOrphanedRaises.                                                    *)

isOrphanedRaise(n) == rows[n].parent # 0 /\ rows[n].jobId = 0 /\ rows[n].age > ORPHAN_AGE
orphans == {n \in DOMAIN rows : isOrphanedRaise(n)}

isRaiseResumable_slip(status) == status # "Completed"          \* the cancel may have reverted
isRaiseResumable_slip2(status) == status = "Refunded"          \* a cancel is no refund
isRaiseResumable(status) == status \in {"Cancelled", "Refunded"}

(* A pass of the ops cycle reaches the step; traffic and the cron each hold *)
(* a lease of their own, the step itself none.  A pass without orphans does *)
(* nothing and is left out.                                                 *)
StartResume(p) ==
    /\ p \in Resumes /\ At(p, "idle")
    /\ orphans # {}
    /\ acquireOpsLease(p, INTERVAL)
    /\ \E batch \in kSubset(Min({BATCH, Cardinality(orphans)}), orphans) :
          Step(p, [pc |-> "read", todo |-> batch])
    /\ UNCHANGED <<rows, chain, mempool, history, faults>>

parents(p) == {rows[n].parent : n \in proc[p].todo}

(* One read of the chain serves the whole pass, and one of the parents'    *)
(* links after it.                                                          *)
ReadChain(p) ==
    /\ At(p, "read")
    /\ Step(p, [pc |-> "parents", seen |-> chain])
    /\ UNCHANGED <<rows, chain, mempool, lease, history, faults>>

ReadLinks(p) ==
    /\ At(p, "parents")
    /\ Step(p, [pc |-> "resume", links |-> [n \in parents(p) |-> rows[n].jobId]])
    /\ UNCHANGED <<rows, chain, mempool, lease, history, faults>>

seenIds(p, n) == {id \in DOMAIN proc[p].seen : proc[p].seen[id].spec = n}
parentStatus(p, n) ==                   \* of the parent's job, if the read shows it
    LET id == proc[p].links[rows[n].parent]
    IN  IF id \in DOMAIN proc[p].seen THEN proc[p].seen[id].status ELSE "unknown"

(* The post landed after all: link it (the map by hash keeps the last job). *)
Backfill(p) ==
    /\ At(p, "resume")
    /\ \E n \in proc[p].todo : \E id \in seenIds(p, n) :
          /\ \A e \in seenIds(p, n) : e <= id
          /\ rows' = [rows EXCEPT ![n].jobId = id]
          /\ Step(p, leave(p, n))
    /\ UNCHANGED <<chain, mempool, lease, history, faults>>

LeaveAlone(p) ==
    /\ At(p, "resume")
    /\ \E n \in proc[p].todo :
          /\ seenIds(p, n) = {}
          /\ ~isRaiseResumable(parentStatus(p, n))
          /\ Step(p, leave(p, n))
    /\ UNCHANGED <<rows, chain, mempool, lease, history, faults>>

Repost(p) ==
    /\ At(p, "resume")
    /\ \E n \in proc[p].todo :
          /\ seenIds(p, n) = {}
          /\ isRaiseResumable(parentStatus(p, n))
          /\ Step(p, [pc |-> "post", row |-> n, todo |-> proc[p].todo \ {n}])
    /\ UNCHANGED <<rows, chain, mempool, lease, history, faults>>

-----------------------------------------------------------------------------
(* The invocation dies, or the read or the send it is at fails for good.    *)
Crash(p) ==
    /\ proc[p].pc \in CrashAt
    /\ faults < MaxFaults
    /\ faults' = faults + 1
    /\ proc' = [proc EXCEPT ![p] = Idle]
    /\ Disown(p)
    /\ UNCHANGED <<rows, chain, lease, history>>

older(row) == [row EXCEPT !.age = IF @ > ORPHAN_AGE THEN @ ELSE @ + 1]

(* One wait passes.  No invocation outlives LIFE, nor does one wait beyond  *)
(* WAIT; unless Slow, operations land while their sender would still wait.  *)
Tick ==
    /\ \A p \in Proc : proc[p].life < LIFE /\ (waiting(p) => proc[p].waited < WAIT)
    /\ Slow \/ \A i \in DOMAIN mempool : mempool[i].by # Nobody
    /\ lease' = [l \in DOMAIN lease |-> IF lease[l] = 0 THEN 0 ELSE lease[l] - 1]
    /\ rows' = [n \in DOMAIN rows |-> older(rows[n])]
    /\ proc' = [p \in Proc |-> IF At(p, "idle") THEN proc[p]
                               ELSE [proc[p] EXCEPT !.life = @ + 1,
                                        !.waited = IF waiting(p) THEN @ + 1 ELSE @]]
    /\ UNCHANGED <<chain, mempool, history, faults>>

Land == \E i \in DOMAIN mempool : LandCancel(i) \/ LandPost(i)

Advance(p) ==
    \/ WriteIntent(p) \/ SendCancel(p) \/ SendPost(p) \/ Link(p)
    \/ ReadChain(p) \/ ReadLinks(p) \/ Backfill(p) \/ LeaveAlone(p) \/ Repost(p)

Next ==
    \/ \E p \in Proc : StartSweep(p) \/ StartResume(p) \/ Advance(p) \/ Skip(p)
                       \/ GiveUp(p) \/ ReceiptError(p) \/ Crash(p)
    \/ \E id \in DOMAIN chain : Market(id)
    \/ \E i \in DOMAIN mempool : Drop(i)
    \/ Land
    \/ Tick

Spec == Init /\ [][Next]_vars

(* The ops cycle comes round, a pass makes progress, and the bundler answers. *)
FairSpec ==
    /\ Spec
    /\ WF_vars(Tick)
    /\ WF_vars(Land)
    /\ \A p \in Resumes : WF_vars(StartResume(p)) /\ WF_vars(Advance(p))
    /\ \A p \in Sweeps : WF_vars(Advance(p) \/ Skip(p))

-----------------------------------------------------------------------------
TypeOK ==
    /\ rows \in Seq([parent : 0..MaxRows, jobId : 0..MaxPosts, age : 0..ORPHAN_AGE + 1])
    /\ chain \in Seq([spec : 1..Len(rows), status : Live \cup {"Completed", "Cancelled", "Refunded", "Expired"}])
    /\ \A n \in DOMAIN rows : rows[n].jobId # 0 => chain[rows[n].jobId].spec = n
    /\ \A i \in DOMAIN mempool :
          mempool[i].by # Nobody => /\ mempool[i].by \in Proc
                                    /\ waiting(mempool[i].by)
    /\ refunded \subseteq DOMAIN rows
    /\ faults \in 0..MaxFaults

(* "Cancel first so the requester never needs headroom for both at once":  *)
(* whatever else fails, and however many passes run, a replacement is      *)
(* escrowed only once a posting of what it replaces has given its escrow   *)
(* back.  The one exception is a cancel that reverted as it was mined: it  *)
(* is taken for a refund.  A posting, not the posting its row is linked    *)
(* to: two passes may post one row twice, and the link then moves on.      *)
gaveBack(n) ==
    \E id \in DOMAIN chain : chain[id].spec = n /\ chain[id].status \in {"Cancelled", "Refunded"}
PostsOnlyAfterRefund ==
    \A id \in DOMAIN chain :
        LET spec == chain[id].spec
        IN  rows[spec].parent # 0 => gaveBack(rows[spec].parent) \/ spec \in vain

(* The posting that a row goes back to, along parentSpecHash.               *)
root(n) ==
    LET up[m \in DOMAIN rows] == IF rows[m].parent = 0 THEN m ELSE up[rows[m].parent]
    IN  up[n]

(* A raise is to leave "either the old job or the new one standing, never   *)
(* both".  Of all the jobs that stand for one piece of work at most one is   *)
(* live, unless the work was doubled in one of three ways: two sweeps wrote  *)
(* an intent for one posting, a row was posted twice, or a cancel reverted   *)
(* as it was mined.  There is no fourth.                                     *)
raisedTwice(r) ==
    \E n, m \in DOMAIN rows :
        n # m /\ rows[n].parent = rows[m].parent /\ rows[n].parent # 0 /\ root(n) = r
postedTwice(r) ==
    \E a, b \in DOMAIN chain : a # b /\ chain[a].spec = chain[b].spec /\ root(chain[a].spec) = r
cancelledInVain(r) == \E n \in vain : root(n) = r
NeverBothStanding ==
    \A a, b \in DOMAIN chain :
        LET r == root(chain[a].spec)
        IN  /\ a # b
            /\ chain[a].status \in Live /\ chain[b].status \in Live
            /\ root(chain[b].spec) = r
            => raisedTwice(r) \/ postedTwice(r) \/ cancelledInVain(r)

(* An unfinished raise is one "that resumeOrphanedRaises finishes on a      *)
(* later pass": once a raise's cancel has refunded the old escrow, its      *)
(* replacement reaches the market, unless from some time on there are always *)
(* enough orphans to fill a batch that no pass can finish, for the batch is  *)
(* cut before they are set aside.                                            *)
stuck(n) ==
    /\ rows[n].parent # 0 /\ rows[n].jobId = 0 /\ ~isPosted(n)
    /\ chain[rows[rows[n].parent].jobId].status \notin {"Cancelled", "Refunded"}
crowded == Cardinality({n \in DOMAIN rows : stuck(n)}) >= BATCH
EveryRaiseIsFinished ==
    \A n \in 1..MaxRows : <>[](n \in refunded /\ ~isPosted(n)) => <>[]crowded
=============================================================================
