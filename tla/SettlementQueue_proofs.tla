----------------------- MODULE SettlementQueue_proofs -----------------------
(***************************************************************************)
(* Who settles a delivered task, and what is left of it when nobody does:  *)
(* for any number of tasks, callbacks, drains, deaths, lost writes and     *)
(* attempts that throw, and for every order of everybody's steps.          *)
(*                                                                         *)
(* The argument is per invocation.  Turn says what a step of one does to   *)
(* its own record, RowTurn what it does to the queue's rows; each action   *)
(* is shown to be a Turn and a RowTurn, and these keep the invariant.      *)
(***************************************************************************)
EXTENDS SettlementQueue, FiniteSetTheorems, TLAPS

(* What p's invocation r has to settle: settling, of a record.              *)
Has(p, r, t) ==
    /\ t \in ToSet(r.todo)
    /\ t = Head(r.todo) => r.pc # "backoff" /\ ~(p \in Drains /\ r.pc = "rerun")

(* The settlement of one submission of t, at least, returned.               *)
Settled(t, rd, cc) == \E w \in cc[t] : w \in 1..rd[t]

Grading == {"enqueue", "grade", "record", "event", "pay", "credit"}

(* An invocation: its batch, and the submission it works from.              *)
Shape(r) == r = [pc |-> r.pc, todo |-> r.todo, work |-> r.work, prior |-> r.prior,
                 verdict |-> r.verdict, again |-> r.again, life |-> r.life]
Batch(s) == s \in Seq(Tasks) /\ \A i, j \in 1..Len(s) : s[i] = s[j] => i = j
Listed(p, r) ==
    /\ r.pc = "idle" => r = Idle
    /\ r.pc # "idle" => r.todo # <<>>
    /\ r.pc = "store" => p \in Callbacks
    /\ Batch(r.todo)
    /\ p \in Callbacks => Len(r.todo) \in {0, 1}
    /\ r.life \in 0..LIFE
Works(p, r, rd, cc) ==
    /\ r.pc \notin {"idle", "store"} => \A t \in ToSet(r.todo) : rd[t] >= 1
    /\ r.pc \in Grading \/ (r.pc = "settle" /\ p \in Callbacks) => r.work \in 1..rd[Head(r.todo)]
    /\ r.pc \in {"close", "rerun"} => Settled(Head(r.todo), rd, cc)

RowOk(e) ==
    /\ e = [status |-> e.status, attempts |-> e.attempts, lock |-> e.lock, wait |-> e.wait]
    /\ e.status \in {"none", "pending", "done", "abandoned"}
    /\ e.lock \in Int

Rounds == round = [t \in Tasks |-> round[t]] /\ \A t \in Tasks : round[t] \in Nat
Rows == row = [t \in Tasks |-> row[t]] /\ \A t \in Tasks : RowOk(row[t])
Tables == Rounds /\ Rows /\ returned = [t \in Tasks |-> returned[t]]
Invocations ==
    /\ proc = [p \in Proc |-> proc[p]]
    /\ \A p \in Proc : Shape(proc[p]) /\ Listed(p, proc[p]) /\ Works(p, proc[p], round, returned)
RowsFollow ==
    \A t \in Tasks : /\ row[t].status # "none" => round[t] >= 1
                     /\ row[t].status = "done" => Settled(t, round, returned)

(* What a drain has to settle is closed, or pending under a lock that       *)
(* outlives the drain.                                                      *)
Locked(e, life) ==
    \/ e.status \in {"done", "abandoned"}
    \/ e.status = "pending" /\ e.lock >= LOCK_TIMEOUT - life
Held ==
    \A d \in Drains, t \in Tasks :
        t \notin unlocked /\ Has(d, proc[d], t) => Locked(row[t], proc[d].life)
Alone ==
    \A d, e \in Drains, t \in Tasks :
        t \notin unlocked /\ Has(d, proc[d], t) /\ Has(e, proc[e], t) => d = e

Ready == Tables /\ Invocations
Inv == Ready /\ RowsFollow /\ Held /\ Alone

(* What a step of p does to p, and to the histories.                        *)
Turn(p, r) ==
    /\ proc' = [proc EXCEPT ![p] = r]
    /\ Shape(r) /\ Listed(p, r) /\ Works(p, r, round', returned')
    /\ p \in Drains => \A t \in Tasks : Has(p, r, t) => Has(p, proc[p], t) /\ r.life = proc[p].life
Passes ==
    /\ round' = [t \in Tasks |-> round'[t]]
    /\ returned' = [t \in Tasks |-> returned'[t]]
    /\ \A t \in Tasks : /\ round'[t] \in Nat /\ round'[t] >= round[t]
                        /\ returned[t] \subseteq returned'[t]
    /\ unlocked \subseteq unlocked'

(* What it does to a row: nothing, writes it, closes it, defers it, or      *)
(* releases its lock where no drain would miss it.                          *)
Kept(t) == row'[t].status = row[t].status /\ row'[t].lock = row[t].lock
Written(t) == row[t].status = "none" /\ row'[t].status = "pending" /\ round[t] >= 1
Closed(t) == row'[t].status = "done" /\ Settled(t, round, returned) /\ round[t] >= 1
GivenUp(t) == row'[t].status = "abandoned" /\ round[t] >= 1
Released(t) ==
    /\ row'[t].status = row[t].status
    /\ t \in unlocked' \/ \A d \in Drains : ~Has(d, proc'[d], t)
RowTurn ==
    /\ row' = [t \in Tasks |-> row'[t]]
    /\ \A t \in Tasks : /\ RowOk(row'[t])
                        /\ Kept(t) \/ Written(t) \/ Closed(t) \/ GivenUp(t) \/ Released(t)

-----------------------------------------------------------------------------
(* Batches, and the records of invocations.                                 *)

LEMMA HeadOfBatch ==
    ASSUME NEW s, Batch(s), s # <<>>
    PROVE  /\ Len(s) \in Nat \ {0}
           /\ Head(s) = s[1]
           /\ Head(s) \in Tasks
           /\ Head(s) \in ToSet(s)
           /\ ToSet(s) \subseteq Tasks
BY DEF Batch, ToSet

LEMMA TailOfBatch ==
    ASSUME NEW s, Batch(s), s # <<>>
    PROVE  /\ Batch(Tail(s))
           /\ Len(Tail(s)) = Len(s) - 1
           /\ \A t \in ToSet(Tail(s)) : t \in ToSet(s) /\ t # Head(s)
<1>1. /\ s \in Seq(Tasks) /\ Len(s) \in Nat \ {0} /\ DOMAIN s = 1..Len(s)
      /\ Tail(s) \in Seq(Tasks) /\ Len(Tail(s)) = Len(s) - 1 /\ DOMAIN Tail(s) = 1..Len(Tail(s))
      /\ \A i \in 1..Len(s) - 1 : Tail(s)[i] = s[i + 1]
  BY DEF Batch
<1>2. Batch(Tail(s))
  BY <1>1 DEF Batch
<1>3. ASSUME NEW t \in ToSet(Tail(s))
      PROVE  t \in ToSet(s) /\ t # Head(s)
  <2>1. PICK i \in 1..Len(s) - 1 : t = s[i + 1]
    BY <1>1, <1>3 DEF ToSet
  <2>2. i + 1 \in 1..Len(s) /\ 1 \in 1..Len(s) /\ i + 1 # 1
    BY <1>1
  <2>3. s[i + 1] # s[1]
    BY <2>2 DEF Batch
  <2> QED
    BY <1>1, <2>1, <2>2, <2>3 DEF ToSet
<1> QED
  BY <1>1, <1>2, <1>3

LEMMA StepIs ==
    ASSUME NEW r, Shape(r), NEW changes
    PROVE  [f \in DOMAIN r |-> IF f \in DOMAIN changes THEN changes[f] ELSE r[f]]
           = [pc |-> IF "pc" \in DOMAIN changes THEN changes.pc ELSE r.pc,
              todo |-> IF "todo" \in DOMAIN changes THEN changes.todo ELSE r.todo,
              work |-> IF "work" \in DOMAIN changes THEN changes.work ELSE r.work,
              prior |-> IF "prior" \in DOMAIN changes THEN changes.prior ELSE r.prior,
              verdict |-> IF "verdict" \in DOMAIN changes THEN changes.verdict ELSE r.verdict,
              again |-> IF "again" \in DOMAIN changes THEN changes.again ELSE r.again,
              life |-> IF "life" \in DOMAIN changes THEN changes.life ELSE r.life]
BY DEF Shape

(* A live invocation has a task at hand.                                    *)
LEMMA AtWork ==
    ASSUME Ready, NEW p \in Proc, ~At(p, "idle")
    PROVE  /\ Shape(proc[p]) /\ Listed(p, proc[p]) /\ Works(p, proc[p], round, returned)
           /\ Batch(proc[p].todo) /\ proc[p].todo # <<>>
           /\ current(p) \in Tasks /\ current(p) \in ToSet(proc[p].todo)
           /\ Len(proc[p].todo) \in Nat \ {0}
           /\ p \in Callbacks => Len(proc[p].todo) = 1
<1>1. Shape(proc[p]) /\ Listed(p, proc[p]) /\ Works(p, proc[p], round, returned)
  BY DEF Ready, Invocations
<1>2. Batch(proc[p].todo) /\ proc[p].todo # <<>>
  BY <1>1 DEF Listed, At
<1>3. current(p) \in Tasks /\ current(p) \in ToSet(proc[p].todo) /\ Len(proc[p].todo) \in Nat \ {0}
  BY <1>2, HeadOfBatch DEF current
<1>4. p \in Callbacks => Len(proc[p].todo) \in {0, 1}
  BY <1>1 DEF Listed
<1>5. p \in Callbacks => Len(proc[p].todo) = 1
  BY <1>3, <1>4
<1> QED
  BY <1>1, <1>2, <1>3, <1>5

(* Rounds and conclusions only accumulate, and an invocation's record stays  *)
(* as true as it was.                                                       *)
LEMMA StillWorks ==
    ASSUME NEW p, NEW r, Batch(r.todo), r.pc # "idle" => r.todo # <<>>,
           r.pc = "idle" => r = Idle,
           Rounds, Works(p, r, round, returned), Passes
    PROVE  Works(p, r, round', returned')
<1>1. CASE r.pc = "idle"
  <2>1. r.pc \notin Grading /\ r.pc \notin {"close", "rerun", "settle"}
    BY <1>1 DEF Grading
  <2> QED
    BY <1>1, <2>1 DEF Works
<1>2. CASE r.pc # "idle"
  <2>1. Head(r.todo) \in Tasks /\ ToSet(r.todo) \subseteq Tasks
    BY <1>2, HeadOfBatch
  <2>2. \A t \in Tasks : round[t] \in Nat /\ round'[t] \in Nat /\ round'[t] >= round[t]
    BY DEF Rounds, Passes
  <2>3. \A t \in Tasks : \A w : w \in 1..round[t] => w \in 1..round'[t]
    BY <2>2
  <2>4. \A t \in Tasks : Settled(t, round, returned) => Settled(t, round', returned')
    BY <2>3 DEF Settled, Passes
  <2>5. \A t \in Tasks : round[t] >= 1 => round'[t] >= 1
    BY <2>2
  <2> QED
    BY <2>1, <2>3, <2>4, <2>5 DEF Works
<1> QED
  BY <1>1, <1>2

LEMMA IdleIs ==
    ASSUME NEW p
    PROVE  /\ Shape(Idle) /\ Listed(p, Idle)
           /\ \A rd, cc : Works(p, Idle, rd, cc)
           /\ \A t : ~Has(p, Idle, t)
<1>1. Idle.todo = <<>> /\ Idle.pc = "idle" /\ Idle.life = 0
  BY DEF Idle
<1>2. Shape(Idle)
  BY DEF Shape, Idle
<1>3. Batch(<<>>) /\ Len(<<>>) = 0 /\ ToSet(<<>>) = {}
  BY DEF Batch, ToSet
<1>4. 0 \in 0..LIFE
  BY ConstantsOk
<1>5. Listed(p, Idle)
  BY <1>1, <1>3, <1>4 DEF Listed
<1>6. \A rd, cc : Works(p, Idle, rd, cc)
  BY <1>1 DEF Works, Grading
<1> QED
  BY <1>1, <1>2, <1>3, <1>5, <1>6 DEF Has

(* The loop goes on to the rest of the batch, and never back.               *)
LEMMA NextIs ==
    ASSUME Ready, NEW p \in Proc, ~At(p, "idle"), ~At(p, "store")
    PROVE  /\ Shape(next(p)) /\ Listed(p, next(p)) /\ Works(p, next(p), round, returned)
           /\ \A t \in Tasks : Has(p, next(p), t) => Has(p, proc[p], t) /\ next(p).life = proc[p].life
<1>0. /\ Listed(p, proc[p]) /\ Works(p, proc[p], round, returned)
      /\ Batch(proc[p].todo) /\ proc[p].todo # <<>>
      /\ Len(proc[p].todo) \in Nat \ {0}
      /\ p \in Callbacks => Len(proc[p].todo) = 1
  BY AtWork
<1>1. CASE Len(proc[p].todo) = 1
  BY <1>1, IdleIs DEF next
<1>2. CASE Len(proc[p].todo) # 1
  <2> DEFINE r == [pc |-> "settle", todo |-> Tail(proc[p].todo), work |-> 0, prior |-> 0,
                   verdict |-> "none", again |-> FALSE, life |-> proc[p].life]
  <2>1. next(p) = r
    BY <1>2 DEF next, Idle
  <2>2. r.pc = "settle" /\ r.todo = Tail(proc[p].todo) /\ r.life = proc[p].life
    OBVIOUS
  <2>3. Shape(r)
    BY DEF Shape
  <2> HIDE DEF r
  <2>4. p \notin Callbacks
    BY <1>0, <1>2
  <2>5. Batch(r.todo) /\ Len(r.todo) = Len(proc[p].todo) - 1
        /\ \A t \in ToSet(r.todo) : t \in ToSet(proc[p].todo) /\ t # current(p)
    BY <1>0, <2>2, TailOfBatch DEF current
  <2>6. Len(r.todo) # 0
    BY <1>0, <1>2, <2>5
  <2>7. proc[p].life \in 0..LIFE
    BY <1>0 DEF Listed
  <2>8. Listed(p, r)
    <3>1. r.todo # <<>>
      BY <2>6
    <3> QED
      BY <2>2, <2>4, <2>5, <2>7, <3>1 DEF Listed
  <2>9. Works(p, r, round, returned)
    BY <1>0, <2>2, <2>4, <2>5 DEF Works, Grading, At
  <2>10. \A t \in Tasks : Has(p, r, t) => Has(p, proc[p], t)
    BY <2>5 DEF Has, current
  <2> QED
    BY <2>1, <2>2, <2>3, <2>8, <2>9, <2>10
<1> QED
  BY <1>1, <1>2

-----------------------------------------------------------------------------
(* Each action of an invocation is a turn of it.                            *)

Effect == (\E p \in Proc : \E r : Turn(p, r)) /\ Passes /\ RowTurn

(* r goes on with p's batch.                                                *)
GoesOn(p, r) ==
    /\ proc' = [proc EXCEPT ![p] = r]
    /\ Shape(r) /\ r.pc \notin {"idle", "store"} /\ r.todo = proc[p].todo /\ r.life = proc[p].life

LEMMA StepGoesOn ==
    ASSUME NEW p, Shape(proc[p]), NEW changes, Step(p, changes),
           "pc" \in DOMAIN changes, changes.pc \notin {"idle", "store"},
           "todo" \notin DOMAIN changes, "life" \notin DOMAIN changes
    PROVE  \E r : /\ GoesOn(p, r)
                  /\ r.pc = changes.pc
                  /\ r.work = IF "work" \in DOMAIN changes THEN changes.work ELSE proc[p].work
<1> DEFINE r == [f \in DOMAIN proc[p] |-> IF f \in DOMAIN changes THEN changes[f] ELSE proc[p][f]]
<1>1. proc' = [proc EXCEPT ![p] = r]
  BY DEF Step
<1>2. r = [pc |-> IF "pc" \in DOMAIN changes THEN changes.pc ELSE proc[p].pc,
              todo |-> IF "todo" \in DOMAIN changes THEN changes.todo ELSE proc[p].todo,
              work |-> IF "work" \in DOMAIN changes THEN changes.work ELSE proc[p].work,
              prior |-> IF "prior" \in DOMAIN changes THEN changes.prior ELSE proc[p].prior,
              verdict |-> IF "verdict" \in DOMAIN changes THEN changes.verdict ELSE proc[p].verdict,
              again |-> IF "again" \in DOMAIN changes THEN changes.again ELSE proc[p].again,
              life |-> IF "life" \in DOMAIN changes THEN changes.life ELSE proc[p].life]
  BY StepIs
<1> HIDE DEF r
<1>3. /\ r.pc = changes.pc /\ r.todo = proc[p].todo /\ r.life = proc[p].life
      /\ r.work = IF "work" \in DOMAIN changes THEN changes.work ELSE proc[p].work
  BY <1>2
<1>4. Shape(r)
  BY <1>2 DEF Shape
<1> QED
  BY <1>1, <1>3, <1>4 DEF GoesOn

LEMMA GoesOnIsTurn ==
    ASSUME Ready, NEW p \in Proc, ~At(p, "idle"), ~At(p, "backoff"),
           ~(p \in Drains /\ At(p, "rerun")),
           NEW r, GoesOn(p, r), Works(p, r, round', returned')
    PROVE  Turn(p, r)
<1>1. Listed(p, proc[p]) /\ proc[p].todo # <<>>
  BY AtWork
<1>2. Listed(p, r)
  BY <1>1 DEF Listed, GoesOn
<1>3. \A t \in Tasks : Has(p, r, t) => Has(p, proc[p], t)
  BY DEF Has, GoesOn, At
<1> QED
  BY <1>2, <1>3 DEF Turn, GoesOn

LEMMA NextIsTurn ==
    ASSUME Ready, NEW p \in Proc, ~At(p, "idle"), ~At(p, "store"), Passes,
           proc' = [proc EXCEPT ![p] = next(p)]
    PROVE  Turn(p, next(p))
<1>1. /\ Shape(next(p)) /\ Listed(p, next(p)) /\ Works(p, next(p), round, returned)
      /\ \A t \in Tasks : Has(p, next(p), t) => Has(p, proc[p], t) /\ next(p).life = proc[p].life
  BY NextIs
<1>2. Works(p, next(p), round', returned')
  BY <1>1, StillWorks DEF Ready, Tables, Listed
<1> QED
  BY <1>1, <1>2 DEF Turn

LEMMA EndIsTurn ==
    ASSUME NEW p, proc' = [proc EXCEPT ![p] = Idle]
    PROVE  Turn(p, Idle)
BY IdleIs DEF Turn

LEMMA StepToRecord ==
    ASSUME NEW p, Shape(proc[p]), NEW r, Shape(r), Step(p, r)
    PROVE  proc' = [proc EXCEPT ![p] = r]
<1>1. DOMAIN r = DOMAIN proc[p]
  BY DEF Shape
<1>2. r = [f \in DOMAIN r |-> r[f]]
  BY DEF Shape
<1>3. [f \in DOMAIN proc[p] |-> IF f \in DOMAIN r THEN r[f] ELSE proc[p][f]] = r
  BY <1>1, <1>2
<1> QED
  BY <1>3 DEF Step

LEMMA Passing ==
    ASSUME Tables, UNCHANGED <<round, returned>>, unlocked \subseteq unlocked'
    PROVE  Passes
BY DEF Tables, Rounds, Passes

LEMMA RowsStay ==
    ASSUME Tables, UNCHANGED row
    PROVE  RowTurn
BY DEF Tables, Rows, RowTurn, Kept

(* A step that touches neither the queue nor what is stored.                *)
LEMMA Quietly ==
    ASSUME Ready, NEW p \in Proc, ~At(p, "idle"), ~At(p, "backoff"),
           ~(p \in Drains /\ At(p, "rerun")),
           UNCHANGED <<round, returned, row, unlocked>>,
           NEW changes, Step(p, changes),
           "pc" \in DOMAIN changes, changes.pc \notin {"idle", "store"},
           "todo" \notin DOMAIN changes, "life" \notin DOMAIN changes,
           NEW work, work = IF "work" \in DOMAIN changes THEN changes.work ELSE proc[p].work,
           \A r : r.pc = changes.pc /\ r.todo = proc[p].todo /\ r.work = work
                    => Works(p, r, round, returned)
    PROVE  Effect
<1>1. Shape(proc[p])
  BY AtWork
<1>2. PICK r : GoesOn(p, r) /\ r.pc = changes.pc /\ r.work = work
  BY <1>1, StepGoesOn
<1>3. Works(p, r, round', returned')
  BY <1>2 DEF GoesOn
<1>4. Turn(p, r)
  BY <1>2, <1>3, GoesOnIsTurn
<1> QED
  BY <1>4, Passing, RowsStay DEF Effect, Ready

LEMMA ReadQuietly ==
    ASSUME Ready, NEW p \in Proc, Read(p)
    PROVE  Effect
<1> DEFINE t == current(p)
           changes == [pc |-> "grade", prior |-> attempts[t],
                       work |-> IF p \in Drains THEN round[t] ELSE proc[p].work]
<1>1. ~At(p, "idle") /\ ~At(p, "backoff") /\ ~At(p, "rerun") /\ proc[p].pc = "settle"
  BY DEF Read, At
<1>2. UNCHANGED <<round, returned, row, unlocked>> /\ Step(p, changes)
  BY DEF Read, Stored, Outcome
<1>3. t \in Tasks /\ t \in ToSet(proc[p].todo) /\ Works(p, proc[p], round, returned)
  BY <1>1, AtWork
<1>4. round[t] \in Nat /\ round[t] >= 1
  BY <1>1, <1>3 DEF Works, Ready, Tables, Rounds
<1>5. changes.work \in 1..round[t]
  BY <1>1, <1>3, <1>4 DEF Works, current, Proc
<1>6. \A r : r.pc = "grade" /\ r.todo = proc[p].todo /\ r.work = changes.work
                    => Works(p, r, round, returned)
  BY <1>1, <1>3, <1>5 DEF Works, Grading, current
<1> QED
  BY <1>1, <1>2, <1>6, Quietly

(* What stays with the submission it grades.                                *)
LEMMA GradesQuietly ==
    ASSUME Ready, NEW p \in Proc, proc[p].pc \in Grading,
           UNCHANGED <<round, returned, row, unlocked>>,
           NEW changes, Step(p, changes),
           "pc" \in DOMAIN changes, changes.pc \in Grading \cup {"settle"},
           "todo" \notin DOMAIN changes, "life" \notin DOMAIN changes, "work" \notin DOMAIN changes
    PROVE  Effect
<1>1. ~At(p, "idle") /\ ~At(p, "backoff") /\ ~At(p, "rerun")
      /\ proc[p].pc \notin {"idle", "store"}
  BY DEF At, Grading
<1>2. Works(p, proc[p], round, returned)
  BY <1>1, AtWork
<1>3. changes.pc \notin {"idle", "store"} /\ changes.pc \notin {"close", "rerun"}
  BY DEF Grading
<1>4. ASSUME NEW r, r.pc = changes.pc, r.todo = proc[p].todo, r.work = proc[p].work
      PROVE  Works(p, r, round, returned)
  <2>1. /\ \A t \in ToSet(r.todo) : round[t] >= 1
        /\ r.work \in 1..round[Head(r.todo)]
    BY <1>1, <1>2, <1>4 DEF Works
  <2> QED
    BY <1>3, <1>4, <2>1 DEF Works
<1> QED
  BY <1>1, <1>3, <1>4, Quietly

LEMMA SettlesQuietly ==
    ASSUME Ready, NEW p \in Proc,
           \/ Retry(p) \/ Refuse(p) \/ Submit(p) \/ Record(p) \/ Event(p) \/ Pay(p) \/ Swallow(p)
    PROVE  Effect
<1>1. CASE Retry(p)
  <2>1. /\ proc[p].pc \in Grading /\ UNCHANGED <<round, returned, row, unlocked>>
        /\ Step(p, [pc |-> "credit", prior |-> 0, again |-> TRUE])
    BY <1>1 DEF Retry, At, Stored, Grading
  <2> QED
    BY <2>1, GradesQuietly DEF Grading
<1>2. CASE Refuse(p)
  <2>1. /\ proc[p].pc \in Grading /\ UNCHANGED <<round, returned, row, unlocked>>
        /\ Step(p, [pc |-> "credit", prior |-> 0])
    BY <1>2 DEF Refuse, At, Stored, Grading
  <2> QED
    BY <2>1, GradesQuietly DEF Grading
<1>3. CASE Submit(p)
  <2>1. /\ proc[p].pc \in Grading /\ UNCHANGED <<round, returned, row, unlocked>>
        /\ \E verdict \in Verdicts : Step(p, [pc |-> "record", verdict |-> verdict])
    BY <1>3 DEF Submit, At, Stored, Grading
  <2>2. PICK verdict \in Verdicts : Step(p, [pc |-> "record", verdict |-> verdict])
    BY <2>1
  <2> QED
    BY <2>1, <2>2, GradesQuietly DEF Grading
<1>4. CASE Record(p)
  <2>1. proc[p].pc \in Grading /\ UNCHANGED <<round, returned, row, unlocked>>
    BY <1>4 DEF Record, At, Stored, Grading
  <2>2. CASE proc[p].verdict = "unavailable"
    <3>1. Step(p, [pc |-> "credit", prior |-> 0, verdict |-> "none"])
      BY <1>4, <2>2 DEF Record
    <3> QED
      BY <2>1, <3>1, GradesQuietly DEF Grading
  <2>3. CASE proc[p].verdict # "unavailable"
    <3>1. Step(p, [pc |-> "event", prior |-> 0])
      BY <1>4, <2>3 DEF Record
    <3> QED
      BY <2>1, <3>1, GradesQuietly DEF Grading
  <2> QED
    BY <2>2, <2>3
<1>5. CASE Event(p)
  <2> DEFINE changes == [pc |-> IF proc[p].verdict = "passed" THEN "pay" ELSE "credit",
                         verdict |-> "none"]
  <2>1. /\ proc[p].pc \in Grading /\ UNCHANGED <<round, returned, row, unlocked>>
        /\ Step(p, changes)
    BY <1>5 DEF Event, At, Stored, Grading
  <2>2. changes.pc \in Grading
    BY DEF Grading
  <2> QED
    BY <2>1, <2>2, GradesQuietly
<1>6. CASE Pay(p)
  <2>1. /\ proc[p].pc \in Grading /\ UNCHANGED <<round, returned, row, unlocked>>
        /\ Step(p, [pc |-> "credit"])
    BY <1>6 DEF Pay, At, Stored, Grading
  <2> QED
    BY <2>1, GradesQuietly DEF Grading
<1>7. CASE Swallow(p)
  <2>1. /\ proc[p].pc \in Grading /\ UNCHANGED <<round, returned, row, unlocked>>
        /\ Step(p, [pc |-> "credit", prior |-> 0, verdict |-> "none", again |-> FALSE])
    BY <1>7 DEF Swallow, Stored, Grading
  <2> QED
    BY <2>1, GradesQuietly DEF Grading
<1> QED
  BY <1>1, <1>2, <1>3, <1>4, <1>5, <1>6, <1>7

LEMMA CreditConcludes ==
    ASSUME Ready, NEW p \in Proc, Credit(p)
    PROVE  Effect
<1> DEFINE t == current(p)
           changes == [pc |-> IF p \in Callbacks /\ proc[p].again THEN "rerun" ELSE "close", work |-> 0]
<1>1. /\ ~At(p, "idle") /\ ~At(p, "backoff") /\ ~At(p, "rerun") /\ proc[p].pc = "credit"
      /\ changes.pc \in {"close", "rerun"}
  BY DEF Credit, At
<1>2. /\ UNCHANGED <<round, row, unlocked>> /\ Step(p, changes)
      /\ returned' = [returned EXCEPT ![t] = @ \cup {proc[p].work}]
  BY DEF Credit, Stored
<1>3. t \in Tasks /\ Shape(proc[p]) /\ Works(p, proc[p], round, returned)
  BY <1>1, AtWork
<1>4. Passes
  BY <1>2, <1>3 DEF Passes, Ready, Tables, Rounds
<1>5. Settled(t, round', returned')
  <2>1. proc[p].work \in 1..round[t]
    BY <1>1, <1>3 DEF Works, Grading, current
  <2>2. proc[p].work \in returned'[t]
    BY <1>2, <1>3 DEF Ready, Tables
  <2> QED
    BY <1>2, <2>1, <2>2 DEF Settled
<1>6. PICK r : GoesOn(p, r) /\ r.pc = changes.pc
  <2> HIDE DEF changes
  <2>1. "pc" \in DOMAIN changes /\ "todo" \notin DOMAIN changes /\ "life" \notin DOMAIN changes
    BY DEF changes
  <2> QED
    BY <1>1, <1>2, <1>3, <2>1, StepGoesOn
<1>7. Works(p, r, round', returned')
  BY <1>1, <1>2, <1>3, <1>5, <1>6 DEF Works, Grading, GoesOn, current
<1>8. Turn(p, r)
  BY <1>1, <1>6, <1>7, GoesOnIsTurn
<1> QED
  BY <1>2, <1>4, <1>8, RowsStay DEF Effect, Ready

LEMMA ThrowQuietly ==
    ASSUME Ready, NEW p \in Proc, Throw(p)
    PROVE  Effect
<1> DEFINE changes == [pc |-> "defer", work |-> 0, again |-> FALSE]
<1>1. /\ ~At(p, "idle") /\ ~At(p, "backoff") /\ proc[p].pc \notin {"idle", "store"}
      /\ ~(p \in Drains /\ At(p, "rerun"))
  BY ConstantsOk DEF Throw, At
<1>2. UNCHANGED <<round, returned, row, unlocked>> /\ Step(p, changes)
  BY DEF Throw, Stored, Outcome
<1>3. Works(p, proc[p], round, returned)
  BY <1>1, AtWork
<1>4. ASSUME NEW r, r.pc = "defer", r.todo = proc[p].todo
      PROVE  Works(p, r, round, returned)
  BY <1>1, <1>3, <1>4 DEF Works, Grading
<1> QED
  BY <1>1, <1>2, <1>4, Quietly

(* The loop goes on, and the queue does not notice.                         *)
LEMMA NextQuietly ==
    ASSUME Ready, NEW p \in Proc, ~At(p, "idle"), ~At(p, "store"),
           UNCHANGED <<round, returned, row, unlocked>>, Step(p, next(p))
    PROVE  Effect
<1>1. Shape(proc[p]) /\ Shape(next(p))
  BY AtWork, NextIs
<1>2. proc' = [proc EXCEPT ![p] = next(p)]
  BY <1>1, StepToRecord
<1>3. Passes
  BY Passing DEF Ready
<1>4. Turn(p, next(p))
  BY <1>2, <1>3, NextIsTurn
<1> QED
  BY <1>3, <1>4, RowsStay DEF Effect, Ready

LEMMA RerunQuietly ==
    ASSUME Ready, NEW p \in Proc, Rerun(p)
    PROVE  Effect
<1>1. ~At(p, "idle") /\ ~At(p, "store") /\ ~At(p, "backoff") /\ proc[p].pc = "rerun"
  BY DEF Rerun, At
<1>2. UNCHANGED <<round, returned, row, unlocked>>
  BY DEF Rerun, Outcome
<1>3. CASE p \in Drains
  <2>1. Step(p, next(p))
    BY <1>3 DEF Rerun
  <2> QED
    BY <1>1, <1>2, <2>1, NextQuietly
<1>4. CASE p \notin Drains
  <2>1. Step(p, [pc |-> "close", again |-> FALSE])
    BY <1>4 DEF Rerun
  <2>2. Works(p, proc[p], round, returned)
    BY <1>1, AtWork
  <2>3. ASSUME NEW r, r.pc = "close", r.todo = proc[p].todo
        PROVE  Works(p, r, round, returned)
    BY <1>1, <2>2, <2>3 DEF Works, Grading
  <2> QED
    BY <1>1, <1>2, <1>4, <2>1, <2>3, Quietly
<1> QED
  BY <1>3, <1>4

(* afterClose: a drain that owes a retry turns to it, all else goes on.     *)
LEMMA AfterClose ==
    ASSUME Ready, NEW p \in Proc, At(p, "close"), Step(p, afterClose(p)),
           UNCHANGED <<round, returned, unlocked>>
    PROVE  \E r : Turn(p, r)
<1>1. ~At(p, "idle") /\ ~At(p, "store") /\ ~At(p, "backoff") /\ ~At(p, "rerun") /\ proc[p].pc = "close"
  BY DEF At
<1>2. Shape(proc[p]) /\ Works(p, proc[p], round, returned)
  BY <1>1, AtWork
<1>3. CASE p \in Drains /\ proc[p].again
  <2>1. Step(p, [pc |-> "rerun"])
    BY <1>3 DEF afterClose
  <2>2. PICK r : GoesOn(p, r) /\ r.pc = "rerun"
    BY <1>2, <2>1, StepGoesOn
  <2>3. Works(p, r, round', returned')
    BY <1>1, <1>2, <2>2 DEF Works, Grading, GoesOn
  <2> QED
    BY <1>1, <2>2, <2>3, GoesOnIsTurn
<1>4. CASE ~(p \in Drains /\ proc[p].again)
  <2>1. Step(p, next(p))
    BY <1>4 DEF afterClose
  <2>2. proc' = [proc EXCEPT ![p] = next(p)]
    BY <1>1, <1>2, <2>1, NextIs, StepToRecord
  <2>3. Passes
    BY Passing DEF Ready
  <2> QED
    BY <1>1, <2>2, <2>3, NextIsTurn
<1> QED
  BY <1>3, <1>4

LEMMA Closing ==
    ASSUME Ready, NEW p \in Proc, completeSettlement(p) \/ CloseFails(p)
    PROVE  Effect
<1> DEFINE t == current(p)
<1>1. /\ At(p, "close") /\ Step(p, afterClose(p)) /\ UNCHANGED <<round, returned, unlocked>>
      /\ ~At(p, "idle") /\ proc[p].pc = "close"
  BY DEF completeSettlement, CloseFails, Stored, Outcome, At
<1>2. \E r : Turn(p, r)
  BY <1>1, AfterClose
<1>3. Passes
  BY <1>1, Passing DEF Ready
<1>4. t \in Tasks /\ t \in ToSet(proc[p].todo) /\ Works(p, proc[p], round, returned)
  BY <1>1, AtWork
<1>5. Settled(t, round, returned) /\ round[t] >= 1
  BY <1>1, <1>4 DEF Works, current
<1>6. CASE row' = row
  BY <1>2, <1>3, <1>6, RowsStay DEF Effect, Ready
<1>7. CASE row' # row
  <2>1. row' = [row EXCEPT ![t].status = "done", ![t].lock = NULL]
    BY <1>7 DEF completeSettlement, CloseFails
  <2>2. Rows
    BY DEF Ready, Tables
  <2>3. RowOk(row'[t]) /\ row'[t].status = "done"
    <3>1. row'[t] = [row[t] EXCEPT !.status = "done", !.lock = NULL]
      BY <1>4, <2>1, <2>2 DEF Rows
    <3>2. row'[t] = [status |-> "done", attempts |-> row[t].attempts, lock |-> NULL,
                     wait |-> row[t].wait]
      BY <1>4, <2>2, <3>1 DEF Rows, RowOk
    <3>3. NULL \in Int
      BY DEF NULL
    <3> QED
      BY <3>2, <3>3 DEF RowOk
  <2>4. \A s \in Tasks : s # t => row'[s] = row[s]
    BY <2>1, <2>2 DEF Rows
  <2>5. RowTurn
    BY <1>5, <2>1, <2>2, <2>3, <2>4 DEF RowTurn, Rows, Closed, Kept
  <2> QED
    BY <1>2, <1>3, <2>5 DEF Effect
<1> QED
  BY <1>6, <1>7

(* A row that changes in one task only.                                     *)
LEMMA OneRow ==
    ASSUME Rows, NEW t \in Tasks, NEW e, row' = [row EXCEPT ![t] = e], RowOk(e),
           Kept(t) \/ Written(t) \/ Closed(t) \/ GivenUp(t) \/ Released(t)
    PROVE  RowTurn
<1>1. \A s \in Tasks : s # t => row'[s] = row[s]
  BY DEF Rows
<1>2. row'[t] = e
  BY DEF Rows
<1> QED
  BY <1>1, <1>2 DEF Rows, RowTurn, Kept

LEMMA EnqueueWrites ==
    ASSUME Ready, NEW p \in Proc, enqueueSettlement(p) \/ EnqueueFails(p)
    PROVE  Effect
<1> DEFINE t == current(p)
<1>1. /\ ~At(p, "idle") /\ ~At(p, "backoff") /\ ~At(p, "rerun") /\ proc[p].pc = "enqueue"
      /\ Step(p, [pc |-> "settle"]) /\ UNCHANGED <<round, returned, unlocked>>
  BY DEF enqueueSettlement, EnqueueFails, At, Stored, Outcome
<1>2. t \in Tasks /\ t \in ToSet(proc[p].todo) /\ Shape(proc[p]) /\ Works(p, proc[p], round, returned)
  BY <1>1, AtWork
<1>3. Passes
  BY <1>1, Passing DEF Ready
<1>4. PICK r : GoesOn(p, r) /\ r.pc = "settle" /\ r.work = proc[p].work
  BY <1>1, <1>2, StepGoesOn
<1>5. Works(p, r, round', returned')
  BY <1>1, <1>2, <1>4 DEF Works, Grading, GoesOn
<1>6. Turn(p, r)
  BY <1>1, <1>4, <1>5, GoesOnIsTurn
<1>7. CASE row' = row
  BY <1>3, <1>6, <1>7, RowsStay DEF Effect, Ready
<1>8. CASE row' # row
  <2>1. row[t] = NoRow /\ row' = [row EXCEPT ![t].status = "pending"]
    BY <1>8 DEF enqueueSettlement, EnqueueFails
  <2> DEFINE e == [status |-> "pending", attempts |-> 0, lock |-> -1, wait |-> 0]
  <2>2. row' = [row EXCEPT ![t] = e]
    <3>1. [NoRow EXCEPT !.status = "pending"] = e
      BY DEF NoRow
    <3> QED
      BY <2>1, <3>1
  <2>3. RowOk(e) /\ e.status = "pending"
    BY DEF RowOk
  <2>4. row'[t] = e
    BY <1>2, <2>2 DEF Ready, Tables, Rows
  <2>5. row[t].status = "none"
    BY <2>1 DEF NoRow
  <2>6. Written(t)
    BY <1>1, <1>2, <2>3, <2>4, <2>5 DEF Works, Written
  <2> HIDE DEF e
  <2>7. RowTurn
    BY <1>2, <2>2, <2>3, <2>6, OneRow DEF Ready, Tables
  <2> QED
    BY <1>3, <1>6, <2>7 DEF Effect
<1> QED
  BY <1>7, <1>8

LEMMA RowCounted ==
    ASSUME NEW e, RowOk(e), NEW a, NEW l
    PROVE  [e EXCEPT !.attempts = a, !.lock = l]
           = [status |-> e.status, attempts |-> a, lock |-> l, wait |-> e.wait]
<1> DEFINE f == [e EXCEPT !.attempts = a]
<1>1. f = [status |-> e.status, attempts |-> a, lock |-> e.lock, wait |-> e.wait]
  BY DEF RowOk
<1> HIDE DEF f
<1>2. [f EXCEPT !.lock = l] = [status |-> e.status, attempts |-> a, lock |-> l, wait |-> e.wait]
  BY <1>1
<1> QED
  BY <1>2 DEF f

LEMMA CountReleases ==
    ASSUME Ready, NEW p \in Proc, Count(p)
    PROVE  Effect
<1> DEFINE t == current(p)
<1>1. /\ ~At(p, "idle") /\ ~At(p, "store") /\ ~At(p, "backoff") /\ ~At(p, "rerun")
      /\ proc[p].pc = "defer" /\ UNCHANGED <<round, returned>>
      /\ unlocked' = IF \E q \in Proc \ {p} : settling(q, t) THEN unlocked \cup {t} ELSE unlocked
  BY DEF Count, At, Stored, Outcome
<1>2. t \in Tasks /\ Shape(proc[p]) /\ Works(p, proc[p], round, returned)
  BY <1>1, AtWork
<1>3. Passes
  BY <1>1, Passing DEF Ready
<1>4. CASE row[t] = NoRow
  <2>1. row' = row /\ Step(p, next(p))
    BY <1>4 DEF Count
  <2>2. proc' = [proc EXCEPT ![p] = next(p)]
    BY <1>1, <1>2, <2>1, NextIs, StepToRecord
  <2>3. Turn(p, next(p))
    BY <1>1, <1>3, <2>2, NextIsTurn
  <2> QED
    BY <1>3, <2>1, <2>3, RowsStay DEF Effect, Ready
<1>5. CASE row[t] # NoRow
  <2> DEFINE changes == [pc |-> "backoff", prior |-> row[t].attempts + 1]
             e == [status |-> row[t].status, attempts |-> row[t].attempts + 1, lock |-> NULL,
                   wait |-> row[t].wait]
  <2>1. row' = [row EXCEPT ![t].attempts = @ + 1, ![t].lock = NULL] /\ Step(p, changes)
    BY <1>5 DEF Count
  <2>2. PICK r : GoesOn(p, r) /\ r.pc = "backoff"
    BY <1>2, <2>1, StepGoesOn
  <2>3. Works(p, r, round', returned')
    BY <1>1, <1>2, <2>2 DEF Works, Grading, GoesOn
  <2>4. Turn(p, r)
    BY <1>1, <2>2, <2>3, GoesOnIsTurn
  <2>5. RowOk(row[t])
    BY <1>2 DEF Ready, Tables, Rows
  <2>6. row' = [row EXCEPT ![t] = e]
    <3>1. [row[t] EXCEPT !.attempts = row[t].attempts + 1, !.lock = NULL] = e
      BY <2>5, RowCounted
    <3> QED
      BY <2>1, <3>1
  <2>7. RowOk(e) /\ e.status = row[t].status
    BY <2>5 DEF RowOk, NULL
  <2> HIDE DEF e
  <2>8. row'[t] = e
    BY <1>2, <2>6 DEF Ready, Tables, Rows
  <2>9. t \in unlocked' \/ \A d \in Drains : ~Has(d, proc'[d], t)
    <3> SUFFICES ASSUME t \notin unlocked', NEW d \in Drains
                 PROVE  ~Has(d, proc'[d], t)
      OBVIOUS
    <3>1. \A q \in Proc \ {p} : ~settling(q, t)
      BY <1>1
    <3>2. d \in Proc /\ proc = [q \in Proc |-> proc[q]]
      BY DEF Proc, Ready, Invocations
    <3>3. CASE d = p
      <4>1. proc'[d] = r
        BY <2>2, <3>2, <3>3 DEF GoesOn
      <4>2. t = Head(r.todo)
        BY <2>2 DEF GoesOn, current
      <4> QED
        BY <2>2, <4>1, <4>2 DEF Has
    <3>4. CASE d # p
      <4>1. proc'[d] = proc[d]
        BY <2>2, <3>2, <3>4 DEF GoesOn
      <4> QED
        BY <3>1, <3>2, <3>4, <4>1 DEF Has, settling, current, At
    <3> QED
      BY <3>3, <3>4
  <2>10. Released(t)
    BY <2>7, <2>8, <2>9 DEF Released
  <2>11. RowTurn
    BY <1>2, <2>6, <2>7, <2>10, OneRow DEF Ready, Tables
  <2> QED
    BY <1>3, <2>4, <2>11 DEF Effect
<1> QED
  BY <1>4, <1>5

LEMMA BackoffDefers ==
    ASSUME Ready, NEW p \in Proc, Backoff(p)
    PROVE  Effect
<1> DEFINE t == current(p)
<1>1. /\ ~At(p, "idle") /\ ~At(p, "store") /\ proc[p].pc = "backoff"
      /\ Step(p, next(p)) /\ UNCHANGED <<round, returned, unlocked>>
  BY DEF Backoff, At, Stored, Outcome
<1>2. t \in Tasks /\ t \in ToSet(proc[p].todo) /\ Shape(proc[p]) /\ Works(p, proc[p], round, returned)
  BY <1>1, AtWork
<1>3. Passes
  BY <1>1, Passing DEF Ready
<1>4. proc' = [proc EXCEPT ![p] = next(p)]
  BY <1>1, <1>2, NextIs, StepToRecord
<1>5. Turn(p, next(p))
  BY <1>1, <1>3, <1>4, NextIsTurn
<1>6. RowOk(row[t]) /\ Rows
  BY <1>2 DEF Ready, Tables, Rows
<1>7. round[t] >= 1
  BY <1>1, <1>2 DEF Works
<1>8. CASE hasGivenUp(proc[p].prior)
  <2> DEFINE e == [status |-> "abandoned", attempts |-> row[t].attempts, lock |-> row[t].lock,
                   wait |-> row[t].wait]
  <2>1. row' = [row EXCEPT ![t].status = "abandoned"]
    BY <1>8 DEF Backoff
  <2>2. row' = [row EXCEPT ![t] = e]
    <3>1. [row[t] EXCEPT !.status = "abandoned"] = e
      BY <1>6 DEF RowOk
    <3> QED
      BY <2>1, <3>1
  <2>3. RowOk(e) /\ e.status = "abandoned"
    BY <1>6 DEF RowOk
  <2> HIDE DEF e
  <2>4. GivenUp(t)
    BY <1>2, <1>6, <1>7, <2>2, <2>3 DEF GivenUp, Rows
  <2>5. RowTurn
    BY <1>2, <1>6, <2>2, <2>3, <2>4, OneRow
  <2> QED
    BY <1>3, <1>5, <2>5 DEF Effect
<1>9. CASE ~hasGivenUp(proc[p].prior)
  <2> DEFINE n == backoff(proc[p].prior)
             e == [status |-> row[t].status, attempts |-> row[t].attempts, lock |-> row[t].lock,
                   wait |-> n]
  <2>1. row' = [row EXCEPT ![t].wait = n]
    BY <1>9 DEF Backoff
  <2> HIDE DEF n
  <2>2. row' = [row EXCEPT ![t] = e]
    <3>1. [row[t] EXCEPT !.wait = n] = e
      BY <1>6 DEF RowOk
    <3> QED
      BY <2>1, <3>1
  <2>3. RowOk(e) /\ e.status = row[t].status /\ e.lock = row[t].lock
    BY <1>6 DEF RowOk
  <2> HIDE DEF e
  <2>4. Kept(t)
    BY <1>2, <1>6, <2>2, <2>3 DEF Kept, Rows
  <2>5. RowTurn
    BY <1>2, <1>6, <2>2, <2>3, <2>4, OneRow
  <2> QED
    BY <1>3, <1>5, <2>5 DEF Effect
<1> QED
  BY <1>8, <1>9

LEMMA DeferFailsQuietly ==
    ASSUME Ready, NEW p \in Proc, DeferFails(p)
    PROVE  Effect
<1>1. ~At(p, "idle") /\ ~At(p, "store") /\ Step(p, next(p))
      /\ UNCHANGED <<round, returned, row, unlocked>>
  BY DEF DeferFails, At, Stored, Outcome
<1> QED
  BY <1>1, NextQuietly

(* An invocation that ends, whichever way.                                  *)
LEMMA EndsQuietly ==
    ASSUME Ready, NEW p \in Proc, StoreFails(p) \/ Crash(p)
    PROVE  Effect
<1>1. Step(p, Idle) /\ UNCHANGED <<round, returned, row, unlocked>>
  BY DEF StoreFails, Crash, Stored, Outcome
<1>2. Shape(proc[p]) /\ Shape(Idle)
  BY IdleIs DEF Ready, Invocations
<1>3. proc' = [proc EXCEPT ![p] = Idle]
  BY <1>1, <1>2, StepToRecord
<1>4. Turn(p, Idle)
  BY <1>3, EndIsTurn
<1> QED
  BY <1>1, <1>4, Passing, RowsStay DEF Effect, Ready

LEMMA StoreCounts ==
    ASSUME Ready, NEW p \in Proc, Store(p)
    PROVE  Effect
<1> DEFINE t == current(p)
<1>1. /\ ~At(p, "idle") /\ ~At(p, "backoff") /\ ~At(p, "rerun") /\ proc[p].pc = "store"
      /\ UNCHANGED <<row, returned, unlocked>> /\ round' = [round EXCEPT ![t] = @ + 1]
      /\ Step(p, [pc |-> "enqueue", work |-> round[t] + 1])
  BY DEF Store, At, Outcome
<1>2. /\ t \in Tasks /\ Shape(proc[p]) /\ Batch(proc[p].todo)
      /\ Listed(p, proc[p])
      /\ p \in Callbacks => Len(proc[p].todo) = 1
  BY <1>1, AtWork
<1>3. Len(proc[p].todo) = 1
  BY <1>1, <1>2 DEF Listed
<1>4. ToSet(proc[p].todo) = {t}
  BY <1>2, <1>3 DEF Batch, ToSet, current
<1>5. round[t] \in Nat /\ round'[t] = round[t] + 1 /\ \A s \in Tasks : s # t => round'[s] = round[s]
  BY <1>1, <1>2 DEF Ready, Tables, Rounds
<1>6. Passes
  BY <1>1, <1>5 DEF Passes, Ready, Tables, Rounds
<1>7. PICK r : GoesOn(p, r) /\ r.pc = "enqueue" /\ r.work = round[t] + 1
  BY <1>1, <1>2, StepGoesOn
<1>8. Works(p, r, round', returned')
  <2>1. Head(r.todo) = t /\ ToSet(r.todo) = {t}
    BY <1>4, <1>7 DEF GoesOn, current
  <2>2. round'[t] >= 1 /\ round[t] + 1 \in 1..round'[t]
    BY <1>5
  <2> QED
    BY <1>7, <2>1, <2>2 DEF Works
<1>9. Turn(p, r)
  BY <1>1, <1>7, <1>8, GoesOnIsTurn
<1> QED
  BY <1>1, <1>6, <1>9, RowsStay DEF Effect, Ready

LEMMA StartIs ==
    ASSUME NEW p, proc[p] = Idle, NEW pc, NEW todo, Step(p, [pc |-> pc, todo |-> todo])
    PROVE  proc' = [proc EXCEPT ![p] = [pc |-> pc, todo |-> todo, work |-> 0, prior |-> 0,
                                        verdict |-> "none", again |-> FALSE, life |-> 0]]
<1> DEFINE changes == [pc |-> pc, todo |-> todo]
           r == [f \in DOMAIN Idle |-> IF f \in DOMAIN changes THEN changes[f] ELSE Idle[f]]
<1>1. proc' = [proc EXCEPT ![p] = r]
  BY DEF Step
<1>2. Shape(Idle)
  BY IdleIs
<1>3. /\ "pc" \in DOMAIN changes /\ "todo" \in DOMAIN changes
      /\ "work" \notin DOMAIN changes /\ "prior" \notin DOMAIN changes
      /\ "verdict" \notin DOMAIN changes /\ "again" \notin DOMAIN changes
      /\ "life" \notin DOMAIN changes
      /\ changes.pc = pc /\ changes.todo = todo
  OBVIOUS
<1> HIDE DEF changes
<1>4. r = [pc |-> pc, todo |-> todo, work |-> Idle.work, prior |-> Idle.prior,
           verdict |-> Idle.verdict, again |-> Idle.again, life |-> Idle.life]
  BY <1>2, <1>3, StepIs
<1> QED
  BY <1>1, <1>4 DEF Idle

LEMMA ClaimTakesOne ==
    ASSUME Ready, NEW c \in Callbacks, NEW t \in Tasks, Claim(c, t)
    PROVE  Effect
<1> DEFINE r == [pc |-> "store", todo |-> <<t>>, work |-> 0, prior |-> 0, verdict |-> "none",
                 again |-> FALSE, life |-> 0]
<1>1. /\ At(c, "idle") /\ Step(c, [pc |-> "store", todo |-> <<t>>])
      /\ UNCHANGED <<round, returned, row, unlocked>>
  BY DEF Claim, Outcome
<1>2. c \in Proc /\ c \notin Drains
  BY ConstantsOk DEF Proc
<1>3. proc[c] = Idle
  BY <1>1, <1>2 DEF Ready, Invocations, Listed, At
<1>4. proc' = [proc EXCEPT ![c] = r]
  BY <1>1, <1>3, StartIs
<1>5. r.pc = "store" /\ r.todo = <<t>> /\ r.life = 0 /\ Shape(r)
  BY DEF Shape
<1> HIDE DEF r
<1>6. <<t>> \in Seq(Tasks) /\ Len(<<t>>) = 1 /\ <<t>> # <<>>
  OBVIOUS
<1>7. Batch(<<t>>)
  BY <1>6 DEF Batch
<1>8. Listed(c, r)
  BY <1>5, <1>6, <1>7, ConstantsOk DEF Listed
<1>9. Works(c, r, round', returned')
  BY <1>5 DEF Works, Grading
<1>10. Turn(c, r)
  BY <1>2, <1>4, <1>5, <1>8, <1>9 DEF Turn
<1> QED
  BY <1>1, <1>2, <1>10, Passing, RowsStay DEF Effect, Ready

LEMMA StepsHaveEffect ==
    ASSUME Ready,
           \/ \E c \in Callbacks, t \in Tasks : Claim(c, t)
           \/ \E p \in Proc : Advance(p) \/ EnqueueFails(p) \/ CloseFails(p) \/ DeferFails(p) \/ Crash(p)
    PROVE  Effect
<1>1. CASE \E c \in Callbacks, t \in Tasks : Claim(c, t)
  BY <1>1, ClaimTakesOne
<1>2. ASSUME NEW p \in Proc,
             Advance(p) \/ EnqueueFails(p) \/ CloseFails(p) \/ DeferFails(p) \/ Crash(p)
      PROVE  Effect
  <2>1. CASE Store(p)
    BY <2>1, StoreCounts
  <2>2. CASE StoreFails(p) \/ Crash(p)
    BY <2>2, EndsQuietly
  <2>3. CASE enqueueSettlement(p) \/ EnqueueFails(p)
    BY <2>3, EnqueueWrites
  <2>4. CASE Read(p)
    BY <2>4, ReadQuietly
  <2>5. CASE \/ Retry(p) \/ Refuse(p) \/ Submit(p) \/ Record(p) \/ Event(p) \/ Pay(p) \/ Swallow(p)
    BY <2>5, SettlesQuietly
  <2>6. CASE Credit(p)
    BY <2>6, CreditConcludes
  <2>7. CASE Throw(p)
    BY <2>7, ThrowQuietly
  <2>8. CASE Rerun(p)
    BY <2>8, RerunQuietly
  <2>9. CASE completeSettlement(p) \/ CloseFails(p)
    BY <2>9, Closing
  <2>10. CASE Count(p)
    BY <2>10, CountReleases
  <2>11. CASE Backoff(p)
    BY <2>11, BackoffDefers
  <2>12. CASE DeferFails(p)
    BY <2>12, DeferFailsQuietly
  <2> QED
    BY <1>2, <2>1, <2>2, <2>3, <2>4, <2>5, <2>6, <2>7, <2>8, <2>9, <2>10, <2>11, <2>12
       DEF Advance, Settle
<1> QED
  BY <1>1, <1>2

-----------------------------------------------------------------------------
(* The invariant is kept.                                                   *)

LEMMA SettledStays ==
    ASSUME Rounds, Passes, NEW t \in Tasks, Settled(t, round, returned)
    PROVE  Settled(t, round', returned')
<1>1. round[t] \in Nat /\ round'[t] \in Nat /\ round'[t] >= round[t] /\ returned[t] \subseteq returned'[t]
  BY DEF Rounds, Passes
<1>2. \A w : w \in 1..round[t] => w \in 1..round'[t]
  BY <1>1
<1> QED
  BY <1>1, <1>2 DEF Settled

LEMMA EffectKeeps ==
    ASSUME Inv, Effect
    PROVE  Inv'
<1>1. PICK p \in Proc : \E r : Turn(p, r)
  BY DEF Effect
<1>2. PICK r : Turn(p, r)
  BY <1>1
<1>3. Passes /\ RowTurn /\ Ready /\ Tables /\ Rounds /\ Rows /\ Invocations
  BY DEF Effect, Inv, Ready, Tables
<1>4. proc = [q \in Proc |-> proc[q]]
  BY <1>3 DEF Invocations
<1>5. proc'[p] = r /\ \A q \in Proc \ {p} : proc'[q] = proc[q]
  BY <1>2, <1>4 DEF Turn
<1>6. Tables'
  BY <1>3 DEF Tables, Rounds, Rows, Passes, RowTurn
<1>7. Invocations'
  <2>1. proc' = [q \in Proc |-> proc'[q]]
    BY <1>2, <1>4 DEF Turn
  <2>2. ASSUME NEW q \in Proc
        PROVE  Shape(proc'[q]) /\ Listed(q, proc'[q]) /\ Works(q, proc'[q], round', returned')
    <3>1. CASE q = p
      BY <1>2, <1>5, <3>1 DEF Turn
    <3>2. CASE q # p
      <4>1. Shape(proc[q]) /\ Listed(q, proc[q]) /\ Works(q, proc[q], round, returned)
        BY <1>3 DEF Invocations
      <4>2. Works(q, proc[q], round', returned')
        BY <1>3, <4>1, StillWorks DEF Listed
      <4> QED
        BY <1>5, <3>2, <4>1, <4>2
    <3> QED
      BY <3>1, <3>2
  <2> QED
    BY <2>1, <2>2 DEF Invocations
<1>8. RowsFollow'
  <2> SUFFICES ASSUME NEW t \in Tasks
               PROVE  /\ row'[t].status # "none" => round'[t] >= 1
                      /\ row'[t].status = "done" => Settled(t, round', returned')
    BY DEF RowsFollow
  <2>1. /\ row[t].status # "none" => round[t] >= 1
        /\ row[t].status = "done" => Settled(t, round, returned)
    BY DEF Inv, RowsFollow
  <2>2. round[t] >= 1 => round'[t] >= 1
    BY <1>3 DEF Rounds, Passes
  <2>3. Settled(t, round, returned) => Settled(t, round', returned')
    BY <1>3, SettledStays
  <2> QED
    BY <1>3, <2>1, <2>2, <2>3 DEF RowTurn, Kept, Written, Closed, GivenUp, Released
<1>9. ASSUME NEW d \in Drains, NEW t \in Tasks, t \notin unlocked', Has(d, proc'[d], t)
      PROVE  t \notin unlocked /\ Has(d, proc[d], t) /\ proc'[d].life = proc[d].life
  <2>1. d \in Proc
    BY DEF Proc
  <2>2. CASE d = p
    BY <1>2, <1>3, <1>5, <1>9, <2>2 DEF Turn, Passes
  <2>3. CASE d # p
    BY <1>3, <1>5, <1>9, <2>1, <2>3 DEF Passes
  <2> QED
    BY <2>2, <2>3
<1>10. Held'
  <2> SUFFICES ASSUME NEW d \in Drains, NEW t \in Tasks, t \notin unlocked', Has(d, proc'[d], t)
               PROVE  Locked(row'[t], proc'[d].life)
    BY DEF Held
  <2>1. Locked(row[t], proc[d].life) /\ proc'[d].life = proc[d].life
    BY <1>9 DEF Inv, Held
  <2>2. ~Released(t) /\ ~Written(t)
    BY <2>1 DEF Released, Written, Locked
  <2>3. Kept(t) \/ Closed(t) \/ GivenUp(t)
    BY <1>3, <2>2 DEF RowTurn
  <2> QED
    BY <2>1, <2>3 DEF Kept, Closed, GivenUp, Locked
<1>11. Alone'
  <2> SUFFICES ASSUME NEW d \in Drains, NEW e \in Drains, NEW t \in Tasks, t \notin unlocked',
                      Has(d, proc'[d], t), Has(e, proc'[e], t)
               PROVE  d = e
    BY DEF Alone
  <2> QED
    BY <1>9 DEF Inv, Alone
<1> QED
  BY <1>6, <1>7, <1>8, <1>10, <1>11 DEF Inv, Ready

(* What is in a batch is at work.                                           *)
LEMMA HasIsLive ==
    ASSUME Ready, NEW p \in Proc, NEW t, Has(p, proc[p], t)
    PROVE  ~At(p, "idle")
BY IdleIs DEF Ready, Invocations, Listed, At

LEMMA HeldBelow ==
    ASSUME NEW e, RowOk(e), NEW life \in 0..LIFE, Locked(e, life), e.status = "pending"
    PROVE  e.lock > 0
<1>1. e.lock \in Int /\ e.lock >= LOCK_TIMEOUT - life
  BY DEF RowOk, Locked
<1>2. LOCK_TIMEOUT \in Nat /\ LIFE \in Nat /\ LOCK_TIMEOUT > LIFE
  BY ConstantsOk
<1> QED
  BY <1>1, <1>2

LEMMA TickKeeps ==
    ASSUME Inv, Tick
    PROVE  Inv'
<1>1. /\ \A p \in Proc : proc[p].life < LIFE
      /\ row' = [t \in Tasks |-> [row[t] EXCEPT !.lock = countDown(row[t].lock),
                                                !.wait = countDown(row[t].wait)]]
      /\ proc' = [p \in Proc |-> IF At(p, "idle") THEN proc[p]
                                 ELSE [proc[p] EXCEPT !.life = proc[p].life + 1]]
      /\ UNCHANGED <<round, returned, unlocked>>
  BY DEF Tick, Stored, Outcome
<1>2. Ready /\ Tables /\ Rounds /\ Rows /\ Invocations
  BY DEF Inv, Ready, Tables
<1>3. ASSUME NEW t \in Tasks
      PROVE  /\ row'[t].status = row[t].status /\ row'[t].lock = countDown(row[t].lock)
             /\ RowOk(row'[t])
  <2> DEFINE l == countDown(row[t].lock)
             w == countDown(row[t].wait)
             f == [row[t] EXCEPT !.lock = l]
  <2>1. RowOk(row[t])
    BY <1>2 DEF Rows
  <2>2. l \in Int
    BY <2>1 DEF RowOk, countDown
  <2>3. row'[t] = [row[t] EXCEPT !.lock = l, !.wait = w]
    BY <1>1
  <2> HIDE DEF l, w
  <2>4. f = [status |-> row[t].status, attempts |-> row[t].attempts, lock |-> l, wait |-> row[t].wait]
    BY <2>1 DEF RowOk
  <2>5. row'[t] = [f EXCEPT !.wait = w]
    BY <2>3
  <2> HIDE DEF f
  <2>6. row'[t] = [status |-> row[t].status, attempts |-> row[t].attempts, lock |-> l, wait |-> w]
    BY <2>4, <2>5
  <2>7. RowOk(row'[t])
    BY <2>1, <2>2, <2>6 DEF RowOk
  <2> QED
    BY <2>6, <2>7 DEF l
<1>4. ASSUME NEW p \in Proc
      PROVE  /\ Shape(proc'[p]) /\ Listed(p, proc'[p]) /\ Works(p, proc'[p], round, returned)
             /\ proc'[p].todo = proc[p].todo /\ proc'[p].pc = proc[p].pc
             /\ ~At(p, "idle") => proc'[p].life = proc[p].life + 1
  <2>1. Shape(proc[p]) /\ Listed(p, proc[p]) /\ Works(p, proc[p], round, returned)
    BY <1>2 DEF Invocations
  <2>2. CASE At(p, "idle")
    BY <1>1, <2>1, <2>2
  <2>3. CASE ~At(p, "idle")
    <3> DEFINE n == proc[p].life + 1
               r == [proc[p] EXCEPT !.life = n]
    <3>1. proc'[p] = r
      BY <1>1, <2>3
    <3>2. proc[p].life \in 0..LIFE /\ proc[p].life < LIFE /\ LIFE \in Nat
      BY <1>1, <2>1, ConstantsOk DEF Listed
    <3>3. n \in 0..LIFE
      BY <3>2
    <3> HIDE DEF n
    <3>4. r = [pc |-> proc[p].pc, todo |-> proc[p].todo, work |-> proc[p].work,
               prior |-> proc[p].prior, verdict |-> proc[p].verdict,
               again |-> proc[p].again, life |-> n]
      BY <2>1 DEF Shape
    <3> HIDE DEF r
    <3>5. /\ r.pc = proc[p].pc /\ r.todo = proc[p].todo /\ r.work = proc[p].work /\ r.life = n
          /\ Shape(r)
      BY <3>4 DEF Shape
    <3>6. Listed(p, r)
      BY <2>1, <2>3, <3>3, <3>5 DEF Listed, At
    <3>7. Works(p, r, round, returned)
      BY <2>1, <3>5 DEF Works
    <3> QED
      BY <3>1, <3>5, <3>6, <3>7 DEF n
  <2> QED
    BY <2>2, <2>3
<1>5. Tables'
  <2>1. row' = [t \in Tasks |-> row'[t]]
    BY <1>1
  <2> QED
    BY <1>1, <1>2, <1>3, <2>1 DEF Tables, Rounds, Rows
<1>6. Invocations'
  <2>1. proc' = [p \in Proc |-> proc'[p]]
    BY <1>1
  <2> QED
    BY <1>1, <1>4, <2>1 DEF Invocations
<1>7. RowsFollow'
  BY <1>1, <1>3 DEF Inv, RowsFollow
<1>8. ASSUME NEW d \in Drains, NEW t \in Tasks, Has(d, proc'[d], t)
      PROVE  Has(d, proc[d], t) /\ d \in Proc
  BY <1>4, <1>8 DEF Has, Proc
<1>9. Held'
  <2> SUFFICES ASSUME NEW d \in Drains, NEW t \in Tasks, t \notin unlocked, Has(d, proc'[d], t)
               PROVE  Locked(row'[t], proc'[d].life)
    BY <1>1 DEF Held
  <2>1. Has(d, proc[d], t) /\ d \in Proc
    BY <1>8
  <2>2. Locked(row[t], proc[d].life)
    BY <2>1 DEF Inv, Held
  <2>3. RowOk(row[t]) /\ proc[d].life \in 0..LIFE /\ LOCK_TIMEOUT \in Nat
    BY <1>2, <2>1, ConstantsOk DEF Rows, Invocations, Listed
  <2>4. proc'[d].life = proc[d].life + 1
    BY <1>2, <1>4, <2>1, HasIsLive
  <2>5. CASE row[t].status \in {"done", "abandoned"}
    BY <1>3, <2>5 DEF Locked
  <2>6. CASE row[t].status = "pending"
    <3>1. row[t].lock > 0
      BY <2>2, <2>3, <2>6, HeldBelow
    <3>2. row[t].lock >= LOCK_TIMEOUT - proc[d].life /\ row[t].lock \in Int
      BY <2>2, <2>3, <2>6 DEF Locked, RowOk
    <3>3. row'[t].lock = row[t].lock - 1 /\ row'[t].status = "pending"
      BY <1>3, <2>6, <3>1 DEF countDown
    <3>4. row'[t].lock >= LOCK_TIMEOUT - proc'[d].life
      BY <2>3, <2>4, <3>2, <3>3
    <3> QED
      BY <3>3, <3>4 DEF Locked
  <2> QED
    BY <2>2, <2>5, <2>6 DEF Locked
<1>10. Alone'
  <2> SUFFICES ASSUME NEW d \in Drains, NEW e \in Drains, NEW t \in Tasks, t \notin unlocked,
                      Has(d, proc'[d], t), Has(e, proc'[e], t)
               PROVE  d = e
    BY <1>1 DEF Alone
  <2> QED
    BY <1>8 DEF Inv, Alone
<1> QED
  BY <1>5, <1>6, <1>7, <1>9, <1>10 DEF Inv, Ready

(* The order in which a drain takes a batch.                                *)
LEMMA BatchOfRows ==
    ASSUME NEW batch \in SUBSET Tasks, Cardinality(batch) >= 1, NEW s \in SetToSeqs(batch)
    PROVE  Batch(s) /\ s # <<>> /\ ToSet(s) \subseteq batch
<1> DEFINE n == Cardinality(batch)
<1>1. IsFiniteSet(batch)
  BY ConstantsOk, FS_Subset
<1>2. n \in Nat
  BY <1>1, FS_CardinalityType
<1>3. s \in [1..n -> batch] /\ \A i, j \in 1..n : i # j => s[i] # s[j]
  BY DEF SetToSeqs
<1> HIDE DEF n
<1>4. s \in Seq(Tasks) /\ Len(s) = n
  BY <1>2, <1>3
<1>5. n >= 1
  BY DEF n
<1>6. Batch(s)
  BY <1>3, <1>4 DEF Batch
<1>7. ToSet(s) \subseteq batch
  BY <1>3 DEF ToSet
<1>8. s # <<>>
  BY <1>4, <1>5
<1> QED
  BY <1>6, <1>7, <1>8

LEMMA SmallerOfTwo ==
    ASSUME NEW a \in Nat, NEW b \in Nat, a >= 1, b >= 1
    PROVE  Min({a, b}) >= 1
BY DEF Min

LEMMA DrainKeeps ==
    ASSUME Inv, NEW d \in Drains, claimSettlements(d)
    PROVE  Inv'
<1> DEFINE due == {t \in Tasks : isDue(t)}
<1>1. /\ At(d, "idle") /\ due # {} /\ UNCHANGED <<round, returned, unlocked>>
      /\ \E batch \in kSubset(Min({DRAIN_BATCH, Cardinality(due)}), due) :
              /\ row' = [t \in Tasks |-> IF t \in batch THEN [row[t] EXCEPT !.lock = LOCK_TIMEOUT]
                                         ELSE row[t]]
              /\ \E todo \in SetToSeqs(batch) : Step(d, [pc |-> "settle", todo |-> todo])
  BY DEF claimSettlements, Stored, Outcome
<1>2. Ready /\ Tables /\ Rounds /\ Rows /\ Invocations
  BY DEF Inv, Ready, Tables
<1>3. PICK batch \in kSubset(Min({DRAIN_BATCH, Cardinality(due)}), due) :
          /\ row' = [t \in Tasks |-> IF t \in batch THEN [row[t] EXCEPT !.lock = LOCK_TIMEOUT]
                                     ELSE row[t]]
          /\ \E todo \in SetToSeqs(batch) : Step(d, [pc |-> "settle", todo |-> todo])
  BY <1>1
<1>4. PICK todo \in SetToSeqs(batch) : Step(d, [pc |-> "settle", todo |-> todo])
  BY <1>3
<1>5. batch \in SUBSET due /\ Cardinality(batch) >= 1
  <2>1. IsFiniteSet(due)
    BY ConstantsOk, FS_Subset
  <2>2. Cardinality(due) \in Nat /\ Cardinality(due) # 0
    BY <1>1, <2>1, FS_CardinalityType, FS_EmptySet
  <2>3. DRAIN_BATCH \in Nat /\ DRAIN_BATCH >= 1
    BY ConstantsOk
  <2>4. Min({DRAIN_BATCH, Cardinality(due)}) >= 1
    BY <2>2, <2>3, SmallerOfTwo
  <2> QED
    BY <1>3, <2>4 DEF kSubset
<1>6. Batch(todo) /\ todo # <<>> /\ ToSet(todo) \subseteq batch
  BY <1>5, BatchOfRows
<1>7. d \in Proc /\ d \notin Callbacks
  BY ConstantsOk DEF Proc
<1> DEFINE r == [pc |-> "settle", todo |-> todo, work |-> 0, prior |-> 0, verdict |-> "none",
                 again |-> FALSE, life |-> 0]
<1>8. proc[d] = Idle
  BY <1>1, <1>2, <1>7 DEF Invocations, Listed, At
<1>9. proc' = [proc EXCEPT ![d] = r]
  BY <1>4, <1>8, StartIs
<1>10. r.pc = "settle" /\ r.todo = todo /\ r.life = 0 /\ Shape(r)
  BY DEF Shape
<1> HIDE DEF r
<1>11. proc'[d] = r /\ \A q \in Proc \ {d} : proc'[q] = proc[q]
  BY <1>2, <1>7, <1>9 DEF Invocations
<1>12. ASSUME NEW t \in Tasks
       PROVE  /\ RowOk(row'[t]) /\ row'[t].status = row[t].status
              /\ t \in batch => /\ row'[t].lock = LOCK_TIMEOUT /\ row[t].status = "pending"
                                /\ row[t].lock <= 0
              /\ t \notin batch => row'[t] = row[t]
  <2>1. RowOk(row[t])
    BY <1>2 DEF Rows
  <2>2. CASE t \in batch
    <3>1. row'[t] = [row[t] EXCEPT !.lock = LOCK_TIMEOUT]
      BY <1>3, <2>2
    <3>2. row'[t] = [status |-> row[t].status, attempts |-> row[t].attempts, lock |-> LOCK_TIMEOUT,
                     wait |-> row[t].wait]
      BY <2>1, <3>1 DEF RowOk
    <3>3. RowOk(row'[t])
      BY <2>1, <3>2, ConstantsOk DEF RowOk
    <3> QED
      BY <1>5, <2>2, <3>2, <3>3 DEF isDue
  <2>3. CASE t \notin batch
    BY <1>3, <2>1, <2>3
  <2> QED
    BY <2>2, <2>3
<1>13. Tables'
  <2>1. row' = [t \in Tasks |-> row'[t]]
    BY <1>3
  <2> QED
    BY <1>1, <1>2, <1>12, <2>1 DEF Tables, Rounds, Rows
<1>14. Listed(d, r)
  BY <1>6, <1>7, <1>10, ConstantsOk DEF Listed
<1>15. Works(d, r, round, returned)
  <2>1. \A t \in batch : t \in Tasks /\ row[t].status = "pending"
    BY <1>5 DEF isDue
  <2>2. \A t \in ToSet(todo) : round[t] >= 1
    BY <1>6, <2>1 DEF Inv, RowsFollow
  <2> QED
    BY <1>7, <1>10, <2>2 DEF Works, Grading
<1>16. Invocations'
  <2>1. proc' = [q \in Proc |-> proc'[q]]
    BY <1>2, <1>9 DEF Invocations
  <2>2. ASSUME NEW q \in Proc
        PROVE  Shape(proc'[q]) /\ Listed(q, proc'[q]) /\ Works(q, proc'[q], round, returned)
    BY <1>2, <1>10, <1>11, <1>14, <1>15 DEF Invocations
  <2> QED
    BY <1>1, <2>1, <2>2 DEF Invocations
<1>17. RowsFollow'
  BY <1>1, <1>12 DEF Inv, RowsFollow
(* What is taken was held by nobody. *)
<1>18. ASSUME NEW e \in Drains, NEW t \in Tasks, t \notin unlocked, Has(e, proc[e], t)
       PROVE  t \notin batch /\ Locked(row[t], proc[e].life)
  <2>1. Locked(row[t], proc[e].life)
    BY <1>18 DEF Inv, Held
  <2>2. RowOk(row[t]) /\ proc[e].life \in 0..LIFE
    BY <1>2 DEF Rows, Invocations, Listed, Proc
  <2>3. row[t].status = "pending" => row[t].lock > 0
    BY <2>1, <2>2, HeldBelow
  <2>4. row[t].lock \in Int
    BY <2>2 DEF RowOk
  <2>5. t \notin batch
    BY <1>12, <2>3, <2>4
  <2> QED
    BY <2>1, <2>5
<1>19. ASSUME NEW e \in Drains, NEW t \in Tasks, Has(e, proc'[e], t)
       PROVE  \/ e = d /\ t \in batch
              \/ e # d /\ proc'[e] = proc[e] /\ Has(e, proc[e], t)
  <2>1. CASE e = d
    BY <1>6, <1>10, <1>11, <1>19, <2>1 DEF Has
  <2>2. CASE e # d
    BY <1>11, <1>19, <2>2 DEF Proc
  <2> QED
    BY <2>1, <2>2
<1>20. Held'
  <2> SUFFICES ASSUME NEW e \in Drains, NEW t \in Tasks, t \notin unlocked, Has(e, proc'[e], t)
               PROVE  Locked(row'[t], proc'[e].life)
    BY <1>1 DEF Held
  <2>1. CASE e = d /\ t \in batch
    <3>1. row'[t].status = "pending" /\ row'[t].lock = LOCK_TIMEOUT
      BY <1>12, <2>1
    <3>2. LOCK_TIMEOUT \in Nat /\ proc'[e].life = 0
      BY <1>10, <1>11, <2>1, ConstantsOk
    <3> QED
      BY <3>1, <3>2 DEF Locked
  <2>2. CASE e # d /\ proc'[e] = proc[e] /\ Has(e, proc[e], t)
    BY <1>12, <1>18, <2>2
  <2> QED
    BY <1>19, <2>1, <2>2
<1>21. Alone'
  <2> SUFFICES ASSUME NEW e \in Drains, NEW f \in Drains, NEW t \in Tasks, t \notin unlocked,
                      Has(e, proc'[e], t), Has(f, proc'[f], t)
               PROVE  e = f
    BY <1>1 DEF Alone
  <2>1. \/ e = d /\ t \in batch
        \/ e # d /\ Has(e, proc[e], t) /\ t \notin batch
    BY <1>18, <1>19
  <2>2. \/ f = d /\ t \in batch
        \/ f # d /\ Has(f, proc[f], t) /\ t \notin batch
    BY <1>18, <1>19
  <2> QED
    BY <2>1, <2>2 DEF Inv, Alone
<1> QED
  BY <1>13, <1>16, <1>17, <1>20, <1>21 DEF Inv, Ready

LEMMA Initially ==
    ASSUME Init
    PROVE  Inv
<1>1. Tables
  <2>1. RowOk(NoRow)
    BY DEF RowOk, NoRow
  <2> QED
    BY <2>1 DEF Init, Tables, Rounds, Rows
<1>2. Invocations
  BY IdleIs DEF Init, Invocations
<1>3. \A t \in Tasks : row[t].status = "none"
  BY DEF Init, NoRow
<1>4. \A d \in Drains : \A t : ~Has(d, proc[d], t)
  BY IdleIs DEF Init, Proc
<1> QED
  BY <1>1, <1>2, <1>3, <1>4 DEF Inv, Ready, RowsFollow, Held, Alone

LEMMA InvariantIsKept ==
    ASSUME Inv, [Next]_vars
    PROVE  Inv'
<1>1. CASE UNCHANGED vars
  <2>1. UNCHANGED <<round, row, returned, proc, unlocked>>
    BY <1>1 DEF vars
  <2> QED
    BY <2>1 DEF Inv, Ready, Tables, Rounds, Rows, Invocations, RowsFollow, Held, Alone
<1>2. CASE \/ \E c \in Callbacks, t \in Tasks : Claim(c, t)
           \/ \E p \in Proc : Advance(p) \/ EnqueueFails(p) \/ CloseFails(p) \/ DeferFails(p) \/ Crash(p)
  BY <1>2, StepsHaveEffect, EffectKeeps DEF Inv
<1>3. CASE \E d \in Drains : claimSettlements(d)
  BY <1>3, DrainKeeps
<1>4. CASE Tick
  BY <1>4, TickKeeps
<1> QED
  BY <1>1, <1>2, <1>3, <1>4 DEF Next

LEMMA Invariant == Spec => []Inv
<1>1. Init => Inv
  BY Initially
<1>2. Inv /\ [Next]_vars => Inv'
  BY InvariantIsKept
<1> QED
  BY <1>1, <1>2, PTL DEF Spec

(* "Two drains racing split the work instead of duplicating it": for any    *)
(* number of drains, batch size, lock and life with the lock outlasting the *)
(* life, no two drains have one task to settle, except after a deferral     *)
(* that released another's lock.                                            *)
THEOREM DrainsSplitTheWork == Spec => []OneDrainPerTask
<1>1. Inv => OneDrainPerTask
  <2> SUFFICES ASSUME Inv, NEW t \in Tasks, t \notin unlocked
               PROVE  Cardinality({d \in Drains : settling(d, t)}) <= 1
    BY DEF OneDrainPerTask
  <2> DEFINE S == {d \in Drains : settling(d, t)}
  <2>1. \A d, e \in S : d = e
    BY DEF Inv, Alone, Has, settling, current, At
  <2>2. CASE S = {}
    BY <2>2, FS_EmptySet
  <2>3. CASE S # {}
    <3>1. PICK d : d \in S
      BY <2>3
    <3>2. S = {d}
      BY <2>1, <3>1
    <3>3. Cardinality({d}) = 1
      BY FS_Singleton
    <3> QED
      BY <3>2, <3>3
  <2> QED
    BY <2>2, <2>3
<1> QED
  BY <1>1, Invariant, PTL

(* With its row written, no death at any await, no write that is lost and   *)
(* no attempt whose throw reaches the queue loses a task's first            *)
(* submission: a row is closed only behind a settlement that ran to its     *)
(* end, or behind one that settleLaborMarketJob's own catch cut short.      *)
THEOREM NothingStoredIsLost == Spec => []FirstSubmissionIsKept
<1>1. Inv => FirstSubmissionIsKept
  <2> SUFFICES ASSUME Inv, NEW t \in Tasks, hasRow(t), round[t] = 1
               PROVE  isKept(t) \/ 1 \in swallowed[t]
    BY DEF FirstSubmissionIsKept
  <2>1. row[t].status \in {"pending", "done", "abandoned"}
    BY DEF Inv, Ready, Tables, Rows, RowOk, hasRow
  <2>2. CASE row[t].status = "done"
    <3>1. PICK w \in returned[t] : w \in 1..round[t]
      BY <2>2 DEF Inv, RowsFollow, Settled
    <3>2. w = 1
      BY <3>1
    <3> QED
      BY <3>1, <3>2 DEF isKept, concluded
  <2>3. CASE row[t].status # "done"
    BY <2>1, <2>3 DEF isKept
  <2> QED
    BY <2>2, <2>3
<1> QED
  BY <1>1, Invariant, PTL
=============================================================================
