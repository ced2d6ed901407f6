------------------------ MODULE DelegationTick_proofs ------------------------
(***************************************************************************)
(* Delegations, for any plan, any number of invocations and of mishaps: a  *)
(* subtask is escrowed twice only under one of the excuses.                *)
(*                                                                         *)
(* While some subtask is unexcused no lease was outlived, so there is one  *)
(* holder at most, and it alone writes the row and posts.  Of an unexcused *)
(* subtask the row then knows the escrow whenever nobody holds a lease     *)
(* (RowKnows); the holder knows it, or has just sent it, or works on a     *)
(* record that was written since (InHand).  It may still post it only if   *)
(* it is not escrowed, or has an escrow on its record without an id: that  *)
(* post is excused as it is made.                                          *)
(***************************************************************************)
EXTENDS DelegationTick, FiniteSetTheorems, TLAPS

PCs == {"idle", "lease", "waves", "grade", "post", "sent", "save"}
Record == [hash : Nat, id : Nat, end : {"none", "output", "failed"}]
State == [pc : PCs, kind : Kinds, sub : [Subtasks -> Record], outdated : SUBSET Subtasks,
          changed : BOOLEAN, todo : SUBSET Subtasks, wave : Seq(Subtasks), op : Nat]
Job == [step : Subtasks, op : Nat, parent : Nat,
        status : {"spec", "sent", "Open", "Submitted", "Completed", "Returned", "Refunded", "Expired"}]

Tables ==
    /\ row \in [status : {"planned", "posted", "completed"}, sub : [Subtasks -> Record]]
    /\ jobs \in Seq(Job)
    /\ lease \subseteq Kinds
    /\ caller \in [Callers -> State]
    /\ \A c \in Callers : /\ caller[c].pc = "waves" => kind(c) = "confirm"
                          /\ caller[c].pc \in {"grade", "post", "save"} => kind(c) = "tick"
    /\ excused \subseteq Subtasks

(* Nobody holds a lease that somebody else holds, or a confirmation's while *)
(* ticks are at work.                                                       *)
Alone ==
    /\ \A c \in Callers : holds(c) => kind(c) \in lease
    /\ \A c, d \in Callers : holds(c) /\ holds(d) => c = d
    /\ \A c \in Callers :
          /\ caller[c].pc # "idle" /\ kind(c) = "tick" => row.status # "planned"
          /\ holds(c) /\ kind(c) = "confirm" => row.status = "planned" /\ caller[c].outdated = {}

(* A wave on its way: one spec after the other, each of its own subtask.    *)
Sent(c) ==
    caller[c].pc = "sent" =>
        LET op == caller[c].op  wave == caller[c].wave
        IN  /\ op # NONE
            /\ \A i \in DOMAIN wave :
                  /\ op + i - 1 \in DOMAIN jobs
                  /\ jobs[op + i - 1] = [step |-> wave[i], op |-> op, parent |-> NONE, status |-> "sent"]

Known(st) == st.hash \in DOMAIN jobs /\ onMarket(st.hash)
RowKnows(s) == escrows(s) # {} => Known(row.sub[s])
InWave(c, s) == caller[c].pc = "sent" /\ s \in ToSet(caller[c].wave)

(* A holder may still come to post s.                                       *)
MayPost(c, s) ==
    \/ caller[c].pc \in {"waves", "grade"} /\ caller[c].sub[s].id = NONE
          /\ (kind(c) = "confirm" => s \notin caller[c].todo)
    \/ caller[c].pc = "post" /\ s \in caller[c].todo
    \/ caller[c].pc = "sent" /\ ~InWave(c, s)
          /\ IF kind(c) = "confirm" THEN caller[c].sub[s].id = NONE /\ s \notin caller[c].todo
             ELSE s \in caller[c].todo

InHand(c, s) ==
    IF s \in caller[c].outdated THEN RowKnows(s) /\ ~InWave(c, s)
    ELSE /\ escrows(s) # {} => Known(caller[c].sub[s]) \/ InWave(c, s)
         /\ InWave(c, s) => escrows(s) \subseteq postedBy(c)
         /\ MayPost(c, s) => escrows(s) = {} \/ lost(caller[c].sub[s])
         /\ kind(c) = "tick" /\ ~caller[c].changed => caller[c].sub[s] = row.sub[s]

Tracked(s) ==
    /\ \A g, h \in escrows(s) : g = h
    /\ (\A c \in Callers : ~holds(c)) => RowKnows(s)
    /\ \A c \in Callers :
          /\ holds(c) => InHand(c, s)
          /\ caller[c].pc = "lease" /\ s \notin caller[c].outdated => caller[c].sub[s] = row.sub[s]

Orderly == Subtasks \subseteq excused \/ (Alone /\ \A c \in Callers : Sent(c))
Inv == Tables /\ Orderly /\ \A s \in Subtasks \ excused : Tracked(s)

-----------------------------------------------------------------------------
(* The wave: every subtask of the set, once.                                *)
LEMMA SeqOfSet ==
    ASSUME NEW S, IsFiniteSet(S)
    PROVE  /\ SetToSeq(S) \in Seq(S)
           /\ ToSet(SetToSeq(S)) = S
           /\ \A i, k \in DOMAIN SetToSeq(S) : SetToSeq(S)[i] = SetToSeq(S)[k] => i = k
<1> DEFINE n == Cardinality(S)
<1>1. n \in Nat /\ ExistsBijection(1..n, S)
  BY FS_CardinalityType
<1>2. PICK f \in Bijection(1..n, S) : TRUE
  BY <1>1 DEF ExistsBijection
<1>3. f \in [1..n -> S] /\ IsInjective(f)
  BY <1>2 DEF Bijection, Injection
<1>4. SetToSeq(S) \in [1..n -> S] /\ IsInjective(SetToSeq(S))
  BY <1>3 DEF SetToSeq
<1> DEFINE q == SetToSeq(S)
<1>5. q \in Injection(1..n, S)
  BY <1>4 DEF Injection
<1> HIDE DEF q
<1>6. q \in Surjection(1..n, S)
  <2>1. IsFiniteSet(1..n) /\ Cardinality(1..n) = n
    BY <1>1, FS_Interval
  <2>2. QED
    BY <1>5, <2>1, FS_Injection
<1>7. q \in [1..n -> S] /\ DOMAIN q = 1..n /\ \A x \in S : \E i \in 1..n : q[i] = x
  BY <1>6 DEF Surjection
<1>8. q \in Seq(S)
  BY <1>1, <1>7
<1>9. ToSet(q) = S
  BY <1>7 DEF ToSet
<1>10. \A i, k \in DOMAIN q : q[i] = q[k] => i = k
  BY <1>4, <1>7 DEF q, IsInjective
<1>11. QED
  BY <1>8, <1>9, <1>10 DEF q

(* What the market does to its jobs: none is forgotten, none leaves the     *)
(* market again, a spec without a job stays one, and new ones are not       *)
(* escrows of s, unless a wave is sent.                                     *)
Grows ==
    \A h \in DOMAIN jobs :
        /\ h \in DOMAIN jobs'
        /\ jobs'[h].step = jobs[h].step /\ jobs'[h].parent = jobs[h].parent
        /\ onMarket(h) => jobs'[h].status \notin {"spec", "sent"}
        /\ jobs[h].status = "spec" => jobs'[h].status = "spec"
NoNewEscrow == \A s \in Subtasks : escrows(s)' \subseteq escrows(s)

Statuses == {"spec", "sent", "Open", "Submitted", "Completed", "Returned", "Refunded", "Expired"}

(* Become, and what is appended to the jobs.                                *)
LEMMA BecomeTypes ==
    ASSUME Tables, NEW hs, NEW to \in Statuses, Become(hs, to)
    PROVE  /\ jobs' \in Seq(Job) /\ DOMAIN jobs' = DOMAIN jobs
           /\ \A h \in DOMAIN jobs :
                  /\ jobs'[h].step = jobs[h].step /\ jobs'[h].parent = jobs[h].parent
                  /\ h \in hs => jobs'[h].status = to
                  /\ h \notin hs => jobs'[h] = jobs[h]
<1>1. jobs \in Seq(Job) /\ Len(jobs) \in Nat /\ DOMAIN jobs = 1..Len(jobs)
  BY DEF Tables
<1>2. \A h \in DOMAIN jobs : jobs[h] \in Job
  BY <1>1
<1> DEFINE new(h) == IF h \in hs THEN [jobs[h] EXCEPT !.status = to] ELSE jobs[h]
<1>3. \A h \in DOMAIN jobs : /\ new(h) \in Job
                             /\ new(h).step = jobs[h].step /\ new(h).parent = jobs[h].parent
                             /\ h \in hs => new(h).status = to
                             /\ h \notin hs => new(h) = jobs[h]
  BY <1>2 DEF Job, Statuses
<1>4. jobs' = [h \in 1..Len(jobs) |-> new(h)]
  BY <1>1 DEF Become
<1> HIDE DEF new
<1>5. jobs' \in Seq(Job) /\ DOMAIN jobs' = DOMAIN jobs /\ \A h \in DOMAIN jobs : jobs'[h] = new(h)
  BY <1>1, <1>3, <1>4
<1>6. QED
  BY <1>3, <1>5

LEMMA BecomeGrows ==
    ASSUME Tables, NEW hs, NEW to \in Statuses, Become(hs, to),
           \A h \in hs \cap DOMAIN jobs : /\ jobs[h].status # "spec"
                                          /\ onMarket(h) => to \notin {"spec", "sent"}
    PROVE  Grows /\ NoNewEscrow
<1>1. /\ DOMAIN jobs' = DOMAIN jobs
      /\ \A h \in DOMAIN jobs :
             /\ jobs'[h].step = jobs[h].step /\ jobs'[h].parent = jobs[h].parent
             /\ h \in hs => jobs'[h].status = to
             /\ h \notin hs => jobs'[h] = jobs[h]
  BY BecomeTypes
<1>2. Grows
  BY <1>1 DEF Grows, onMarket
<1>3. NoNewEscrow
  BY <1>1 DEF NoNewEscrow, escrows
<1>4. QED
  BY <1>2, <1>3

LEMMA AppendGrows ==
    ASSUME Tables, NEW new \in Seq(Job), jobs' = jobs \o new
    PROVE  /\ jobs' \in Seq(Job) /\ Grows
           /\ \A h \in DOMAIN jobs : jobs'[h] = jobs[h]
           /\ DOMAIN jobs' = DOMAIN jobs \cup {Len(jobs) + i : i \in DOMAIN new}
           /\ \A i \in DOMAIN new : jobs'[Len(jobs) + i] = new[i]
<1>1. /\ jobs \in Seq(Job) /\ Len(jobs) \in Nat /\ DOMAIN jobs = 1..Len(jobs)
      /\ Len(new) \in Nat /\ DOMAIN new = 1..Len(new)
  BY DEF Tables
<1>2. jobs' \in Seq(Job) /\ Len(jobs') = Len(jobs) + Len(new) /\ DOMAIN jobs' = 1..(Len(jobs) + Len(new))
  BY <1>1
<1>3. \A h \in DOMAIN jobs : jobs'[h] = jobs[h]
  BY <1>1
<1>4. \A i \in DOMAIN new : jobs'[Len(jobs) + i] = new[i]
  BY <1>1
<1>5. DOMAIN jobs' = DOMAIN jobs \cup {Len(jobs) + i : i \in DOMAIN new}
  <2>1. ASSUME NEW h \in (Len(jobs) + 1)..(Len(jobs) + Len(new))
        PROVE  h \in {Len(jobs) + i : i \in DOMAIN new}
    <3>1. h - Len(jobs) \in DOMAIN new /\ h = Len(jobs) + (h - Len(jobs))
      BY <1>1, <2>1
    <3>2. QED
      BY <3>1
  <2>2. \A h \in {Len(jobs) + i : i \in DOMAIN new} : h \in 1..(Len(jobs) + Len(new))
    BY <1>1
  <2>3. QED
    BY <1>1, <1>2, <2>1, <2>2
<1>6. Grows
  BY <1>2, <1>3, <1>5 DEF Grows, onMarket
<1>7. QED
  BY <1>2, <1>3, <1>4, <1>5, <1>6

(* What is known of an escrow stays known.                                  *)
LEMMA KnownStays ==
    ASSUME Grows, NEW st, Known(st)
    PROVE  st.hash \in DOMAIN jobs' /\ jobs'[st.hash].status \notin {"spec", "sent"}
BY DEF Grows, Known

-----------------------------------------------------------------------------
(* The kinds of step.  Every action is one of them.                         *)

Excuses == excused \subseteq excused' /\ excused' \subseteq Subtasks

(* While a subtask is unexcused there is order.                             *)
LEMMA InOrder ==
    ASSUME Inv, Excuses, ~(Subtasks \subseteq excused')
    PROVE  Alone /\ \A c \in Callers : Sent(c)
BY DEF Inv, Orderly, Excuses

(* The market moves and no invocation does.                                 *)
LEMMA JobsMove ==
    ASSUME Inv, UNCHANGED <<row, lease, caller>>, Excuses, jobs' \in Seq(Job), Grows, NoNewEscrow,
           \A c \in Callers : Sent(c) => Sent(c)'
    PROVE  Inv'
<1>1. Tables'
  BY DEF Inv, Tables, Excuses, kind
<1>2. Orderly'
  <2>1. Alone => Alone'
    BY DEF Alone, holds, kind
  <2>2. QED
    BY <2>1, InOrder DEF Orderly
<1>3. ASSUME NEW s \in Subtasks \ excused'
      PROVE  Tracked(s)'
  <2>1. s \notin excused /\ Tracked(s) /\ escrows(s)' \subseteq escrows(s)
    BY <1>3 DEF Inv, Excuses, NoNewEscrow
  <2>2. RowKnows(s) => RowKnows(s)'
    BY <2>1, KnownStays DEF RowKnows, Known, onMarket
  <2>3. ASSUME NEW c \in Callers, holds(c)
        PROVE  InHand(c, s)'
    <3>1. InHand(c, s)
      BY <2>1, <2>3 DEF Tracked
    <3>2. Known(caller[c].sub[s]) => Known(caller[c].sub[s])'
      BY KnownStays DEF Known, onMarket
    <3>3. (InWave(c, s)' <=> InWave(c, s)) /\ postedBy(c)' = postedBy(c)
      BY DEF InWave, postedBy
    <3>4. MayPost(c, s)' <=> MayPost(c, s)
      BY <3>3 DEF MayPost, kind
    <3>5. CASE s \in caller[c].outdated
      BY <2>2, <3>1, <3>3, <3>5 DEF InHand
    <3>6. CASE s \notin caller[c].outdated
      BY <2>1, <3>1, <3>2, <3>3, <3>4, <3>6 DEF InHand, kind, lost
    <3>7. QED
      BY <3>5, <3>6
  <2>4. \A c \in Callers : holds(c)' <=> holds(c)
    BY DEF holds
  <2>5. QED
    BY <2>1, <2>2, <2>3, <2>4 DEF Tracked
<1>4. QED
  BY <1>1, <1>2, <1>3 DEF Inv

(* An invocation that holds a lease does something, and does not write.     *)
LEMMA HolderTurn ==
    ASSUME Inv, NEW c \in Callers, holds(c), NEW rec \in State,
           row' = row, caller' = [caller EXCEPT ![c] = rec],
           Excuses, jobs' \in Seq(Job), lease' \subseteq Kinds,
           rec.pc \in {"waves", "grade", "post", "save", "sent", "idle"},
           rec.pc = "waves" => rec.kind = "confirm",
           rec.pc \in {"grade", "post", "save"} => rec.kind = "tick",
           rec.pc # "idle" => rec.kind = kind(c) /\ rec.outdated = caller[c].outdated /\ lease' = lease,
           ~(Subtasks \subseteq excused') => Sent(c)',
           \A s \in Subtasks \ excused' :
               /\ \A g, h \in escrows(s)' : g = h
               /\ IF rec.pc = "idle" THEN RowKnows(s)' ELSE InHand(c, s)'
    PROVE  Inv'
<1>1. /\ caller \in [Callers -> State] /\ caller' \in [Callers -> State]
      /\ caller'[c] = rec /\ \A d \in Callers : d # c => caller'[d] = caller[d]
  BY DEF Inv, Tables
<1>2. Tables'
  <2>1. ASSUME NEW d \in Callers
        PROVE  /\ caller'[d].pc = "waves" => caller'[d].kind = "confirm"
               /\ caller'[d].pc \in {"grade", "post", "save"} => caller'[d].kind = "tick"
    <3>1. CASE d = c
      BY <1>1, <3>1
    <3>2. CASE d # c
      BY <1>1, <3>2 DEF Inv, Tables, kind
    <3>3. QED
      BY <3>1, <3>2
  <2>2. QED
    BY <1>1, <2>1 DEF Inv, Tables, Excuses, kind
<1>3. ASSUME ~(Subtasks \subseteq excused')
      PROVE  /\ Alone' /\ \A d \in Callers : Sent(d)'
             /\ \A d \in Callers : d # c => ~holds(d) /\ ~holds(d)'
  <2>1. Alone /\ \A d \in Callers : Sent(d)
    BY <1>3, InOrder
  <2>2. \A d \in Callers : d # c => ~holds(d) /\ ~holds(d)'
    BY <1>1, <2>1 DEF Alone, holds
  <2>3. \A d \in Callers : d # c => kind(d)' = kind(d)
    BY <1>1 DEF kind
  <2>4. caller[c].pc \notin {"idle", "lease"} /\ (holds(c)' => kind(c)' = kind(c) /\ lease' = lease)
    BY <1>1 DEF holds, kind
  <2>5. caller'[c].pc # "idle" => holds(c)' /\ kind(c)' = kind(c)
    BY <1>1 DEF holds, kind
  <2>6. Alone'
    <3>1. ASSUME NEW d \in Callers, holds(d)'
          PROVE  d = c
      BY <2>2, <3>1
    <3>2. ASSUME NEW d \in Callers, caller'[d].pc # "idle", kind(d)' = "tick"
          PROVE  row'.status # "planned"
      <4>1. CASE d = c
        BY <2>1, <2>4, <2>5, <3>2, <4>1 DEF Alone
      <4>2. CASE d # c
        BY <1>1, <2>1, <2>3, <3>2, <4>2 DEF Alone
      <4>3. QED
        BY <4>1, <4>2
    <3>3. holds(c)' => kind(c)' \in lease'
      BY <2>1, <2>4 DEF Alone
    <3>4. holds(c)' /\ kind(c)' = "confirm" => row'.status = "planned" /\ caller'[c].outdated = {}
      BY <1>1, <2>1, <2>4 DEF Alone, holds
    <3>5. QED
      BY <3>1, <3>2, <3>3, <3>4 DEF Alone
  <2>7. ASSUME NEW d \in Callers
        PROVE  Sent(d)'
    <3>1. CASE d = c
      BY <1>3, <3>1
    <3>2. CASE d # c
      BY <2>2, <3>2 DEF Sent, holds
    <3>3. QED
      BY <3>1, <3>2
  <2>8. QED
    BY <2>2, <2>6, <2>7
<1>4. ASSUME NEW s \in Subtasks \ excused'
      PROVE  Tracked(s)'
  <2>1. Tracked(s)
    BY <1>4 DEF Inv, Excuses
  <2>2. \A d \in Callers : d # c => ~holds(d) /\ ~holds(d)'
    BY <1>3, <1>4
  <2>3. rec.pc = "idle" \/ (rec.pc # "lease" /\ holds(c)')
    BY <1>1 DEF holds
  <2>4. (\A d \in Callers : ~holds(d)') => RowKnows(s)'
    BY <1>4, <2>3
  <2>5. ASSUME NEW d \in Callers, holds(d)'
        PROVE  InHand(d, s)'
    <3>1. d = c /\ rec.pc # "idle"
      BY <1>1, <2>2, <2>5 DEF holds
    <3>2. QED
      BY <1>4, <3>1
  <2>6. ASSUME NEW d \in Callers, caller'[d].pc = "lease", s \notin caller'[d].outdated
        PROVE  caller'[d].sub[s] = row'.sub[s]
    <3>1. d # c
      BY <1>1, <2>6
    <3>2. QED
      BY <1>1, <2>1, <2>6, <3>1 DEF Tracked
  <2>7. \A g, h \in escrows(s)' : g = h
    BY <1>4
  <2>8. QED
    BY <2>1, <2>4, <2>5, <2>6, <2>7 DEF Tracked
<1>5. QED
  BY <1>2, <1>3, <1>4 DEF Inv, Orderly

(* It writes the row and leaves.                                            *)
LEMMA WriterTurn ==
    ASSUME Inv, NEW c \in Callers, holds(c),
           NEW status \in {"planned", "posted", "completed"}, NEW sub \in [Subtasks -> Record],
           NEW left, left \subseteq lease, Write(c, status, sub, left),
           Excuses, jobs' \in Seq(Job),
           status = "planned" => row.status = "planned",
           \A s \in Subtasks \ excused' :
               /\ \A g, h \in escrows(s)' : g = h
               /\ RowKnows(s)'
    PROVE  Inv'
<1> DEFINE new == {s \in Subtasks : sub[s] # row.sub[s]}
           next(d) == IF d = c THEN Idle
                      ELSE IF caller[d].pc = "idle" THEN Idle
                      ELSE [caller[d] EXCEPT !.outdated = @ \cup new]
<1>1. /\ row' = [status |-> status, sub |-> sub] /\ lease' = left
      /\ caller' = [d \in Callers |-> next(d)]
  BY DEF Write
<1>2. caller \in [Callers -> State] /\ \A d \in Callers : caller[d] \in State
  BY DEF Inv, Tables
<1>3. Idle \in State /\ Idle.pc = "idle"
  BY DEF Idle, Blank, State, PCs, Record, Kinds, NONE
<1>4. ASSUME NEW d \in Callers
      PROVE  /\ caller'[d] \in State
             /\ \/ caller'[d] = Idle
                \/ /\ d # c /\ caller[d].pc # "idle" /\ caller'[d].pc = caller[d].pc
                   /\ caller'[d].kind = caller[d].kind /\ caller'[d].sub = caller[d].sub
                   /\ caller'[d].outdated = caller[d].outdated \cup new
  <2>1. CASE next(d) = Idle
    BY <1>1, <1>3, <2>1
  <2>2. CASE d # c /\ caller[d].pc # "idle"
    <3> DEFINE old == caller[d]
               rec == [old EXCEPT !.outdated = old.outdated \cup new]
    <3>1. caller'[d] = rec /\ old \in State /\ new \subseteq Subtasks
      BY <1>1, <1>2, <2>2
    <3> HIDE DEF new, old
    <3>2. /\ rec \in State /\ rec.pc = old.pc /\ rec.kind = old.kind /\ rec.sub = old.sub
          /\ rec.outdated = old.outdated \cup new
      BY <3>1 DEF State
    <3>3. QED
      BY <2>2, <3>1, <3>2 DEF old
  <2>3. QED
    BY <2>1, <2>2
<1> HIDE DEF next
<1>5. Tables'
  <2>1. ASSUME NEW d \in Callers
        PROVE  /\ caller'[d].pc = "waves" => caller'[d].kind = "confirm"
               /\ caller'[d].pc \in {"grade", "post", "save"} => caller'[d].kind = "tick"
    BY <1>3, <1>4 DEF Inv, Tables, kind
  <2>2. caller' \in [Callers -> State]
    BY <1>1, <1>4
  <2>3. lease' \subseteq Kinds
    BY <1>1 DEF Inv, Tables
  <2>4. row' \in [status : {"planned", "posted", "completed"}, sub : [Subtasks -> Record]]
    BY <1>1
  <2>5. QED
    BY <2>1, <2>2, <2>3, <2>4 DEF Tables, Excuses, kind
<1>6. ASSUME ~(Subtasks \subseteq excused')
      PROVE  \A d \in Callers : ~holds(d)' /\ (caller'[d].pc # "idle" => caller[d].pc # "idle" /\ kind(d)' = kind(d))
  <2>1. Alone
    BY <1>6, InOrder
  <2>2. \A d \in Callers : d # c => ~holds(d)
    BY <2>1 DEF Alone
  <2>3. QED
    BY <1>3, <1>4, <2>2 DEF holds, kind
<1>7. Orderly'
  <2> SUFFICES ASSUME ~(Subtasks \subseteq excused') PROVE Alone' /\ \A d \in Callers : Sent(d)'
    BY DEF Orderly
  <2>1. Alone
    BY InOrder
  <2>2. \A d \in Callers : Sent(d)'
    BY <1>6 DEF Sent, holds
  <2>3. row.status # "planned" => row'.status # "planned"
    BY <1>1
  <2>4. QED
    BY <1>6, <2>1, <2>2, <2>3 DEF Alone
<1>8. ASSUME NEW s \in Subtasks \ excused'
      PROVE  Tracked(s)'
  <2>1. Tracked(s)
    BY <1>8 DEF Inv, Excuses
  <2>2. ASSUME NEW d \in Callers, caller'[d].pc = "lease", s \notin caller'[d].outdated
        PROVE  caller'[d].sub[s] = row'.sub[s]
    <3>1. /\ caller[d].pc = "lease" /\ caller'[d].sub = caller[d].sub
          /\ s \notin caller[d].outdated /\ s \notin new
      BY <1>3, <1>4, <2>2
    <3>2. caller[d].sub[s] = row.sub[s] /\ sub[s] = row.sub[s]
      BY <1>8, <2>1, <3>1 DEF Tracked
    <3>3. QED
      BY <1>1, <3>1, <3>2
  <2>3. QED
    BY <1>6, <1>8, <2>2 DEF Tracked
<1>9. QED
  BY <1>5, <1>7, <1>8 DEF Inv

-----------------------------------------------------------------------------
(* The market.                                                              *)

LEMMA MarketMoves ==
    ASSUME Inv, NEW h \in DOMAIN jobs, Land(h) \/ Market(h) \/ Return(h) \/ Repost(h)
    PROVE  Inv'
<1>0. Tables /\ jobs \in Seq(Job) /\ DOMAIN jobs = 1..Len(jobs) /\ Len(jobs) \in Nat /\ jobs[h] \in Job
  BY DEF Inv, Tables
<1>1. Excuses /\ UNCHANGED <<row, lease, caller>>
  BY <1>0 DEF Excuses, Tables, Land, Market, Return, Repost
<1>2. ASSUME jobs' \in Seq(Job), Grows, NoNewEscrow,
             \A k \in DOMAIN jobs :
                 jobs[k].status = "sent" /\ (\E c \in Callers : caller[c].op = jobs[k].op)
                     => jobs'[k] = jobs[k]
      PROVE  Inv'
  <2>1. ASSUME NEW c \in Callers, Sent(c), caller[c].pc = "sent", NEW i \in DOMAIN caller[c].wave
        PROVE  LET k == caller[c].op + i - 1 IN k \in DOMAIN jobs' /\ jobs'[k] = jobs[k]
    <3> DEFINE k == caller[c].op + i - 1
    <3>1. k \in DOMAIN jobs /\ jobs[k] = [step |-> caller[c].wave[i], op |-> caller[c].op,
                                          parent |-> NONE, status |-> "sent"]
      BY <2>1 DEF Sent
    <3>2. jobs[k].status = "sent" /\ jobs[k].op = caller[c].op
      BY <3>1
    <3> HIDE DEF k
    <3>3. k \in DOMAIN jobs' /\ jobs'[k] = jobs[k]
      BY <1>2, <3>1, <3>2 DEF Grows
    <3>4. QED
      BY <3>3 DEF k
  <2>2. \A c \in Callers : Sent(c) => Sent(c)'
    BY <1>1, <2>1 DEF Sent
  <2>3. QED
    BY <1>1, <1>2, <2>2, JobsMove
<1>3. CASE Land(h)
  <2>1. Become(operation(h), "Open") /\ "Open" \in Statuses
    BY <1>3 DEF Land, Statuses
  <2>2. \A k \in operation(h) : jobs[k].status = "sent" /\ jobs[k].op = h /\ ~onMarket(k)
    BY DEF operation, onMarket
  <2>3. \A c \in Callers : caller[c].op # h
    BY <1>3 DEF Land
  <2>4. /\ jobs' \in Seq(Job) /\ Grows /\ NoNewEscrow
        /\ \A k \in DOMAIN jobs : k \notin operation(h) => jobs'[k] = jobs[k]
    BY <1>0, <2>1, <2>2, BecomeGrows, BecomeTypes
  <2>5. QED
    BY <1>2, <2>2, <2>3, <2>4
<1>4. ASSUME NEW to \in {"Submitted", "Refunded", "Completed", "Returned", "Expired"}, Become({h}, to),
             jobs[h].status \in {"Open", "Submitted"}
      PROVE  Inv'
  <2>1. to \in Statuses /\ to \notin {"spec", "sent"}
    BY <1>4 DEF Statuses
  <2>2. /\ jobs' \in Seq(Job) /\ Grows /\ NoNewEscrow
        /\ \A k \in DOMAIN jobs : k \notin {h} => jobs'[k] = jobs[k]
    BY <1>0, <1>4, <2>1, BecomeGrows, BecomeTypes DEF onMarket
  <2>3. QED
    BY <1>2, <1>4, <2>2
<1>5. CASE Market(h) \/ Return(h)
  BY <1>4, <1>5 DEF Market, Return
<1>6. CASE Repost(h)
  <2>1. PICK outcome \in {"sent", "spec"} :
            jobs' = Append([jobs EXCEPT ![h].status = "Refunded"],
                           [step |-> jobs[h].step, op |-> Len(jobs) + 1, parent |-> h, status |-> outcome])
    BY <1>6 DEF Repost
  <2> DEFINE old == [jobs[h] EXCEPT !.status = "Refunded"]
             new == [step |-> jobs[h].step, op |-> Len(jobs) + 1, parent |-> h, status |-> outcome]
             mid == [jobs EXCEPT ![h] = old]
  <2>2. /\ old \in Job /\ old.status = "Refunded" /\ old.step = jobs[h].step
        /\ old.parent = jobs[h].parent /\ jobs[h].status = "Returned"
    BY <1>0, <1>6 DEF Job, Repost
  <2>3. new \in Job /\ new.parent = h /\ h # NONE
    BY <1>0 DEF Job, NONE
  <2>4. jobs' = Append(mid, new)
    BY <1>0, <2>1
  <2> HIDE DEF old, new
  <2>5. /\ mid \in Seq(Job) /\ Len(mid) = Len(jobs) /\ mid[h] = old
        /\ \A k \in DOMAIN jobs : k # h => mid[k] = jobs[k]
    BY <1>0, <2>2
  <2> HIDE DEF mid
  <2>6. /\ jobs' \in Seq(Job) /\ DOMAIN jobs' = DOMAIN jobs \cup {Len(jobs) + 1}
        /\ jobs'[h] = old /\ jobs'[Len(jobs) + 1] = new
        /\ \A k \in DOMAIN jobs : k # h => jobs'[k] = jobs[k]
    BY <1>0, <2>3, <2>4, <2>5
  <2>7. Grows
    BY <2>2, <2>6 DEF Grows, onMarket
  <2>8. NoNewEscrow
    BY <2>2, <2>3, <2>6 DEF NoNewEscrow, escrows
  <2>9. QED
    BY <1>2, <2>2, <2>6, <2>7, <2>8
<1>7. QED
  BY <1>3, <1>5, <1>6

(* A lease that runs out under a live holder excuses everything.            *)
LEMMA ExpireStep ==
    ASSUME Inv, NEW k \in Kinds, Expire(k)
    PROVE  Inv'
<1>1. CASE \E c \in Callers : holds(c) /\ kind(c) = k
  <2>1. excused' = Subtasks /\ lease' \subseteq Kinds /\ UNCHANGED <<row, jobs, caller>>
    BY <1>1 DEF Expire, Excuse, Inv, Tables
  <2>2. Tables'
    BY <2>1 DEF Inv, Tables, kind
  <2>3. QED
    BY <2>1, <2>2 DEF Inv, Orderly
<1>2. CASE ~(\E c \in Callers : holds(c) /\ kind(c) = k)
  <2>1. UNCHANGED <<row, jobs, caller, excused>> /\ lease' = lease \ {k}
    BY <1>2 DEF Expire
  <2>2. Tables'
    BY <2>1 DEF Inv, Tables, kind
  <2>3. Alone => Alone'
    BY <1>2, <2>1 DEF Alone, holds, kind
  <2>4. \A c \in Callers : Sent(c) => Sent(c)'
    BY <2>1 DEF Sent
  <2>5. \A s \in Subtasks : Tracked(s) => Tracked(s)'
    <3> SUFFICES ASSUME NEW s \in Subtasks, Tracked(s) PROVE Tracked(s)'
      OBVIOUS
    <3>1. escrows(s)' = escrows(s) /\ (RowKnows(s)' <=> RowKnows(s))
      BY <2>1 DEF escrows, RowKnows, Known, onMarket
    <3>2. \A c \in Callers : (holds(c)' <=> holds(c)) /\ (InHand(c, s)' <=> InHand(c, s))
      BY <2>1, <3>1 DEF holds, InHand, InWave, MayPost, postedBy, Known, onMarket, kind, lost
    <3>3. QED
      BY <2>1, <3>1, <3>2 DEF Tracked
  <2>6. QED
    BY <2>1, <2>2, <2>3, <2>4, <2>5 DEF Inv, Orderly
<1>3. QED
  BY <1>1, <1>2

-----------------------------------------------------------------------------
(* Reading the row, and entering.                                           *)

(* Nothing but one invocation that holds nothing changes, and it still      *)
(* holds nothing.                                                           *)
LEMMA OutsiderTurn ==
    ASSUME Inv, NEW c \in Callers, ~holds(c), NEW rec \in State,
           UNCHANGED <<row, jobs, lease>>, Excuses, caller' = [caller EXCEPT ![c] = rec],
           rec.pc \in {"idle", "lease"},
           rec.pc = "lease" => /\ rec.sub = row.sub
                               /\ rec.kind = "tick" => row.status # "planned"
    PROVE  Inv'
<1>1. /\ caller \in [Callers -> State] /\ caller' \in [Callers -> State]
      /\ caller'[c] = rec /\ \A d \in Callers : d # c => caller'[d] = caller[d]
  BY DEF Inv, Tables
<1>2. Tables'
  <2>1. ASSUME NEW d \in Callers
        PROVE  /\ caller'[d].pc = "waves" => caller'[d].kind = "confirm"
               /\ caller'[d].pc \in {"grade", "post", "save"} => caller'[d].kind = "tick"
    <3>1. CASE d = c
      BY <1>1, <3>1
    <3>2. CASE d # c
      BY <1>1, <3>2 DEF Inv, Tables, kind
    <3>3. QED
      BY <3>1, <3>2
  <2>2. QED
    BY <1>1, <2>1 DEF Inv, Tables, Excuses, kind
<1>3. \A d \in Callers : /\ holds(d)' <=> holds(d)
                         /\ holds(d) => caller'[d] = caller[d] /\ kind(d)' = kind(d)
  BY <1>1 DEF holds, kind
<1>4. Orderly'
  <2> SUFFICES ASSUME ~(Subtasks \subseteq excused') PROVE Alone' /\ \A d \in Callers : Sent(d)'
    BY DEF Orderly
  <2>1. Alone /\ \A d \in Callers : Sent(d)
    BY InOrder
  <2>2. ASSUME NEW d \in Callers
        PROVE  Sent(d)'
    <3>1. CASE holds(d)
      BY <1>3, <2>1, <3>1 DEF Sent
    <3>2. CASE ~holds(d)
      BY <1>3, <3>2 DEF Sent, holds
    <3>3. QED
      BY <3>1, <3>2
  <2>3. ASSUME NEW d \in Callers, caller'[d].pc # "idle", kind(d)' = "tick"
        PROVE  row'.status # "planned"
    <3>1. CASE d = c
      BY <1>1, <2>3, <3>1 DEF kind
    <3>2. CASE d # c
      BY <1>1, <2>1, <2>3, <3>2 DEF Alone, kind
    <3>3. QED
      BY <3>1, <3>2
  <2>4. QED
    BY <1>3, <2>1, <2>2, <2>3 DEF Alone
<1>5. ASSUME NEW s \in Subtasks \ excused'
      PROVE  Tracked(s)'
  <2>1. Tracked(s)
    BY <1>5 DEF Inv, Excuses
  <2>2. escrows(s)' = escrows(s) /\ (RowKnows(s)' <=> RowKnows(s))
    BY DEF escrows, RowKnows, Known, onMarket
  <2>3. ASSUME NEW d \in Callers, holds(d)'
        PROVE  InHand(d, s)'
    <3>1. InHand(d, s) /\ caller'[d] = caller[d]
      BY <1>3, <2>1, <2>3 DEF Tracked
    <3>2. QED
      BY <2>2, <3>1 DEF InHand, InWave, MayPost, postedBy, Known, onMarket, kind, lost
  <2>4. ASSUME NEW d \in Callers, caller'[d].pc = "lease", s \notin caller'[d].outdated
        PROVE  caller'[d].sub[s] = row'.sub[s]
    <3>1. CASE d = c
      BY <1>1, <2>4, <3>1
    <3>2. CASE d # c
      BY <1>1, <2>1, <2>4, <3>2 DEF Tracked
    <3>3. QED
      BY <3>1, <3>2
  <2>5. QED
    BY <1>3, <2>1, <2>2, <2>3, <2>4 DEF Tracked
<1>6. QED
  BY <1>2, <1>4, <1>5 DEF Inv

LEMMA IdleState == Idle \in State /\ Idle.pc = "idle"
BY DEF Idle, Blank, State, PCs, Record, Kinds, NONE

(* What is read is the row as it is.                                        *)
LEMMA ReadStep ==
    ASSUME Inv, NEW c \in Callers, Read(c)
    PROVE  Inv'
<1> DEFINE rec == [Idle EXCEPT !.pc = "lease", !.sub = row.sub,
                               !.kind = IF row.status = "planned" THEN "confirm" ELSE "tick"]
<1>1. row.sub \in [Subtasks -> Record] /\ excused \subseteq Subtasks
  BY DEF Inv, Tables
<1>2. /\ rec \in State /\ rec.pc = "lease" /\ rec.sub = row.sub
      /\ rec.kind = "tick" => row.status # "planned"
  BY <1>1, IdleState DEF State, PCs, Kinds
<1>3. /\ caller' = [caller EXCEPT ![c] = rec] /\ ~holds(c)
      /\ UNCHANGED <<row, jobs, lease, excused>>
  BY DEF Read, Set, holds
<1> HIDE DEF rec
<1>4. Excuses
  BY <1>1, <1>3 DEF Excuses
<1>5. QED
  BY <1>2, <1>3, <1>4, OutsiderTurn

(* An invocation enters: nobody else is there.                              *)
LEMMA EnterTurn ==
    ASSUME Inv, NEW c \in Callers, caller[c].pc = "lease", kind(c) \notin lease, NEW rec \in State,
           UNCHANGED <<row, jobs>>, Excuses, caller' = [caller EXCEPT ![c] = rec],
           lease' = lease \cup {kind(c)}, rec.kind = kind(c),
           IF kind(c) = "confirm" THEN rec.pc = "waves" /\ row.status = "planned" /\ rec.outdated = {}
           ELSE rec.pc = "grade",
           \A s \in Subtasks \ excused' : RowKnows(s) => InHand(c, s)'
    PROVE  Inv'
<1>1. /\ caller \in [Callers -> State] /\ caller' \in [Callers -> State]
      /\ caller'[c] = rec /\ \A d \in Callers : d # c => caller'[d] = caller[d]
      /\ kind(c) \in Kinds
  BY DEF Inv, Tables, State, kind
<1>2. Tables'
  <2>1. ASSUME NEW d \in Callers
        PROVE  /\ caller'[d].pc = "waves" => caller'[d].kind = "confirm"
               /\ caller'[d].pc \in {"grade", "post", "save"} => caller'[d].kind = "tick"
    <3>1. CASE d = c
      BY <1>1, <3>1 DEF Kinds
    <3>2. CASE d # c
      BY <1>1, <3>2 DEF Inv, Tables, kind
    <3>3. QED
      BY <3>1, <3>2
  <2>2. lease' \subseteq Kinds
    BY <1>1 DEF Inv, Tables
  <2>3. QED
    BY <1>1, <2>1, <2>2 DEF Inv, Tables, Excuses, kind
<1>3. ASSUME ~(Subtasks \subseteq excused')
      PROVE  Alone /\ \A d \in Callers : ~holds(d) /\ (holds(d)' => d = c)
  <2>1. Alone
    BY <1>3, InOrder
  <2>2. \A d \in Callers : ~holds(d)
    <3> SUFFICES ASSUME NEW d \in Callers, holds(d) PROVE FALSE
      OBVIOUS
    <3>1. kind(d) \in Kinds /\ kind(d) # kind(c)
      BY <2>1 DEF Alone, Inv, Tables, State, kind
    <3>2. CASE kind(c) = "confirm"
      BY <1>1, <2>1, <3>1, <3>2 DEF Alone, Kinds, holds
    <3>3. CASE kind(c) = "tick"
      BY <1>1, <2>1, <3>1, <3>3 DEF Alone, Kinds, holds
    <3>4. QED
      BY <1>1, <3>2, <3>3 DEF Kinds
  <2>3. QED
    BY <1>1, <2>1, <2>2 DEF holds
<1>4. Orderly'
  <2> SUFFICES ASSUME ~(Subtasks \subseteq excused') PROVE Alone' /\ \A d \in Callers : Sent(d)'
    BY DEF Orderly
  <2>1. kind(c)' = kind(c) /\ kind(c)' \in lease'
    BY <1>1 DEF kind
  <2>2. ASSUME NEW d \in Callers, caller'[d].pc # "idle", kind(d)' = "tick"
        PROVE  row'.status # "planned"
    <3>1. CASE d = c
      BY <1>3, <2>1, <2>2, <3>1 DEF Alone
    <3>2. CASE d # c
      BY <1>1, <1>3, <2>2, <3>2 DEF Alone, kind
    <3>3. QED
      BY <3>1, <3>2
  <2>3. \A d \in Callers : caller'[d].pc # "sent"
    <3>1. caller'[c].pc # "sent"
      BY <1>1
    <3>2. QED
      BY <1>3, <3>1 DEF holds
  <2>4. \A d \in Callers : Sent(d)'
    BY <2>3 DEF Sent
  <2>5. kind(c)' = "confirm" => row'.status = "planned" /\ caller'[c].outdated = {}
    BY <1>1, <2>1
  <2>6. QED
    BY <1>3, <2>1, <2>2, <2>4, <2>5 DEF Alone
<1>5. ASSUME NEW s \in Subtasks \ excused'
      PROVE  Tracked(s)'
  <2>1. Tracked(s) /\ \A d \in Callers : ~holds(d) /\ (holds(d)' => d = c)
    BY <1>3, <1>5 DEF Inv, Excuses
  <2>2. escrows(s)' = escrows(s) /\ RowKnows(s)
    BY <2>1 DEF escrows, Tracked
  <2>3. holds(c)' /\ InHand(c, s)'
    BY <1>1, <1>5, <2>2 DEF holds
  <2>4. ASSUME NEW d \in Callers, caller'[d].pc = "lease", s \notin caller'[d].outdated
        PROVE  caller'[d].sub[s] = row'.sub[s]
    BY <1>1, <2>1, <2>4 DEF Tracked
  <2>5. QED
    BY <2>1, <2>2, <2>3, <2>4 DEF Tracked
<1>6. QED
  BY <1>2, <1>4, <1>5 DEF Inv

-----------------------------------------------------------------------------
(* acquireOpsLease.                                                         *)

(* Turned away.                                                             *)
LEMMA LeaveUnheld ==
    ASSUME Inv, NEW c \in Callers, ~holds(c), Leave(c, lease), UNCHANGED <<row, jobs, excused>>
    PROVE  Inv'
<1>1. Excuses
  BY DEF Excuses, Inv, Tables
<1>2. QED
  BY <1>1, IdleState, OutsiderTurn DEF Leave, Set

(* A confirmation works on the row as it is, and may post what has no id:   *)
(* that is not escrowed, or has a hash.                                     *)
LEMMA BeginConfirmStep ==
    ASSUME Inv, NEW c \in Callers, caller[c].pc = "lease", kind(c) = "confirm",
           kind(c) \notin lease, beginConfirm(c), UNCHANGED <<row, jobs>>
    PROVE  Inv'
<1>1. ~holds(c) /\ excused' = excused /\ freshRow(c) = row
  BY DEF holds, beginConfirm, freshRow
<1>2. CASE row.status # "planned"
  BY <1>1, <1>2, LeaveUnheld DEF beginConfirm
<1>3. CASE row.status = "planned"
  <2> DEFINE old == caller[c]
             rec == [old EXCEPT !.pc = "waves", !.sub = row.sub, !.outdated = {}]
  <2>1. old \in State /\ row.sub \in [Subtasks -> Record] /\ Excuses
    BY <1>1 DEF Inv, Tables, Excuses
  <2>2. caller' = [caller EXCEPT ![c] = rec] /\ lease' = lease \cup {kind(c)}
    BY <1>1, <1>3 DEF beginConfirm, Set
  <2> HIDE DEF old
  <2>3. /\ rec \in State /\ rec.pc = "waves" /\ rec.kind = old.kind
        /\ rec.sub = row.sub /\ rec.outdated = {}
    BY <2>1 DEF State, PCs
  <2> HIDE DEF rec
  <2>4. rec.kind = kind(c) /\ caller'[c] = rec
    BY <2>2, <2>3 DEF old, kind, Inv, Tables
  <2>5. ASSUME NEW s \in Subtasks \ excused', RowKnows(s)
        PROVE  InHand(c, s)'
    <3>1. Tracked(s)
      BY <1>1, <2>5 DEF Inv
    <3>2. escrows(s)' = escrows(s)
      BY DEF escrows
    <3>3. ~InWave(c, s)' /\ s \notin caller'[c].outdated /\ kind(c)' = "confirm"
      BY <2>3, <2>4 DEF InWave, kind
    <3>4. MayPost(c, s)' => escrows(s)' = {} \/ lost(caller[c].sub[s])'
      <4>1. MayPost(c, s)' => row.sub[s].id = NONE
        BY <2>3, <2>4 DEF MayPost
      <4>2. escrows(s) # {} => row.sub[s].hash # NONE
        BY <2>5 DEF RowKnows, Known, NONE, Inv, Tables
      <4>3. QED
        BY <2>3, <2>4, <3>2, <4>1, <4>2 DEF lost
    <3>5. escrows(s)' # {} => Known(caller[c].sub[s])'
      BY <2>3, <2>4, <2>5, <3>2 DEF RowKnows, Known, onMarket
    <3>6. QED
      BY <3>3, <3>4, <3>5 DEF InHand
  <2>6. QED
    BY <1>3, <2>1, <2>2, <2>3, <2>4, <2>5, EnterTurn
<1>4. QED
  BY <1>2, <1>3

(* What a scan makes of a record: an escrow it knows of it still knows.     *)
LEMMA ObservedKnown ==
    ASSUME Tables, NEW sub \in [Subtasks -> Record], NEW s \in Subtasks, NEW view \in Views
    PROVE  LET new == observed(backfillJobIds(sub, view)[s], view)
           IN  new \in Record /\ (Known(sub[s]) => Known(new))
<1> DEFINE st == sub[s]
           r == backfillJobIds(sub, view)[s]
           new == observed(r, view)
<1>1. /\ st \in Record /\ NONE \notin DOMAIN jobs /\ DOMAIN jobs \subseteq Nat
      /\ \A h \in view : h \in DOMAIN jobs /\ onMarket(h)
  BY DEF Tables, NONE, Views, upToDate
<1>2. r = IF lost(st) /\ st.hash \in view THEN [st EXCEPT !.id = st.hash] ELSE st
  BY DEF backfillJobIds
<1> HIDE DEF st, r
<1>3. r \in Record /\ r.hash = st.hash
  BY <1>1, <1>2 DEF Record
<1>4. \/ new \in Record /\ new.hash = r.hash
      \/ /\ new \in Record
         /\ \E g \in DOMAIN jobs : onMarket(g) /\ new.hash = g
  <2> DEFINE next == {g \in successors(r.hash) : g \in view}
  <2>1. \A end \in {"output", "failed"} :
            LET x == [r EXCEPT !.end = end] IN x \in Record /\ x.hash = r.hash
    BY <1>3 DEF Record
  <2>2. ASSUME next # {}
        PROVE  LET g == CHOOSE g \in next : TRUE
                   x == [r EXCEPT !.hash = g, !.id = g]
               IN  x \in Record /\ g \in DOMAIN jobs /\ onMarket(g) /\ x.hash = g
    <3> DEFINE g == CHOOSE g \in next : TRUE
               x == [r EXCEPT !.hash = g, !.id = g]
    <3>1. g \in next
      BY <2>2
    <3>2. g \in DOMAIN jobs /\ onMarket(g) /\ g \in Nat
      BY <1>1, <3>1
    <3> HIDE DEF g
    <3>3. x \in Record /\ x.hash = g
      BY <1>3, <3>2 DEF Record
    <3>4. QED
      BY <3>2, <3>3 DEF g
  <2>3. \/ new = r
        \/ new = [r EXCEPT !.end = "output"]
        \/ new = [r EXCEPT !.end = "failed"]
        \/ next # {} /\ new = LET g == CHOOSE g \in next : TRUE IN [r EXCEPT !.hash = g, !.id = g]
    BY DEF observed
  <2> HIDE DEF new
  <2>4. QED
    BY <1>3, <2>1, <2>2, <2>3
<1> HIDE DEF new
<1>5. new \in Record /\ (Known(st) => Known(new))
  BY <1>3, <1>4 DEF Known
<1>6. QED
  BY <1>5 DEF new, r, st

(* A tick enters with what it read, and looks everything up.                *)
LEMMA ScanStep ==
    ASSUME Inv, NEW c \in Callers, caller[c].pc = "lease", kind(c) = "tick",
           kind(c) \notin lease, NEW view \in Views, scan(c, view), UNCHANGED <<row, jobs>>
    PROVE  Inv'
<1> DEFINE old == caller[c]
           sub == [s \in Subtasks |-> observed(backfillJobIds(old.sub, view)[s], view)]
<1>1. PICK toGrade \in SUBSET Subtasks, tooEarly \in SUBSET Subtasks :
          /\ Set(c, [old EXCEPT !.pc = "grade", !.sub = sub, !.todo = toGrade,
                                !.changed = sub # old.sub])
          /\ lease' = lease \cup {"tick"}
          /\ Excuse(tooEarly)
  <2> DEFINE repaired == backfillJobIds(caller[c].sub, view)
             G == {s \in Subtasks : /\ ~terminal(sub[s]) /\ sub[s].id = repaired[s].id
                                    /\ sub[s].id \in view /\ jobs[sub[s].id].status = "Submitted"}
             E == {s \in Subtasks : /\ sub[s].end = "failed" /\ repaired[s].end = "none"
                                    /\ \/ jobs[sub[s].id].status = "Returned"
                                       \/ successors(sub[s].hash) # {}}
  <2>1. G \in SUBSET Subtasks /\ E \in SUBSET Subtasks
    OBVIOUS
  <2>2. /\ Set(c, [old EXCEPT !.pc = "grade", !.sub = sub, !.todo = G,
                              !.changed = sub # old.sub])
        /\ lease' = lease \cup {"tick"}
        /\ Excuse(E)
    BY DEF scan
  <2>3. QED
    BY <2>1, <2>2
<1> DEFINE rec == [old EXCEPT !.pc = "grade", !.sub = sub, !.todo = toGrade,
                              !.changed = sub # old.sub]
<1>2. old \in State /\ old.sub \in [Subtasks -> Record] /\ Tables
  BY DEF Inv, Tables, State
<1>3. \A s \in Subtasks : sub[s] \in Record /\ (Known(old.sub[s]) => Known(sub[s]))
  BY <1>2, ObservedKnown
<1>4. sub \in [Subtasks -> Record] /\ caller' = [caller EXCEPT ![c] = rec]
  BY <1>1, <1>3 DEF Set
<1> HIDE DEF old, sub
<1>5. /\ rec \in State /\ rec.pc = "grade" /\ rec.kind = old.kind /\ rec.sub = sub
      /\ rec.outdated = old.outdated /\ (~rec.changed => sub = old.sub)
  BY <1>2, <1>4 DEF State, PCs
<1> HIDE DEF rec
<1>6. rec.kind = kind(c) /\ caller'[c] = rec /\ Excuses
  BY <1>1, <1>4, <1>5 DEF old, kind, Inv, Tables, Excuses, Excuse
<1>7. ASSUME NEW s \in Subtasks \ excused', RowKnows(s)
      PROVE  InHand(c, s)'
  <2>1. Tracked(s) /\ s \in Subtasks
    BY <1>6, <1>7 DEF Inv, Excuses
  <2>2. escrows(s)' = escrows(s) /\ RowKnows(s)'
    BY <1>7 DEF escrows, RowKnows, Known, onMarket
  <2>3. ~InWave(c, s)' /\ kind(c)' = "tick"
    BY <1>5, <1>6 DEF InWave, kind
  <2>4. CASE s \in old.outdated
    BY <1>5, <1>6, <2>2, <2>3, <2>4 DEF InHand
  <2>5. CASE s \notin old.outdated
    <3>1. old.sub[s] = row.sub[s]
      BY <2>1, <2>5 DEF Tracked, old
    <3>2. escrows(s) # {} => Known(sub[s])
      BY <1>3, <1>7, <2>1, <3>1 DEF RowKnows
    <3>3. MayPost(c, s)' => escrows(s)' = {} \/ lost(caller[c].sub[s])'
      <4>1. MayPost(c, s)' => sub[s].id = NONE
        BY <1>5, <1>6 DEF MayPost
      <4>2. Known(sub[s]) => sub[s].hash # NONE
        BY <1>2 DEF Known, NONE, Tables
      <4>3. QED
        BY <1>5, <1>6, <2>2, <3>2, <4>1, <4>2 DEF lost
    <3>4. escrows(s)' # {} => Known(caller[c].sub[s])'
      BY <1>5, <1>6, <2>2, <3>2 DEF Known, onMarket
    <3>5. ~caller'[c].changed => caller'[c].sub[s] = row'.sub[s]
      BY <1>5, <1>6, <3>1
    <3>6. QED
      BY <1>5, <1>6, <2>3, <2>5, <3>3, <3>4, <3>5 DEF InHand
  <2>6. QED
    BY <2>4, <2>5
<1>8. QED
  BY <1>1, <1>4, <1>5, <1>6, <1>7, EnterTurn

LEMMA AcquireStep ==
    ASSUME Inv, NEW c \in Callers, acquireOpsLease(c)
    PROVE  Inv'
<1>1. caller[c].pc = "lease" /\ ~holds(c) /\ kind(c) \in {"tick", "confirm"}
  BY DEF acquireOpsLease, holds, Inv, Tables, State, Kinds, kind
<1>2. UNCHANGED <<row, jobs>>
  BY DEF acquireOpsLease
<1>3. CASE turnedAway(c)
  BY <1>1, <1>2, <1>3, LeaveUnheld DEF turnedAway
<1>4. CASE kind(c) \notin lease /\ kind(c) = "confirm" /\ beginConfirm(c)
  BY <1>1, <1>2, <1>4, BeginConfirmStep
<1>5. CASE kind(c) \notin lease /\ kind(c) = "tick" /\ \E view \in Views : scan(c, view)
  BY <1>1, <1>2, <1>5, ScanStep
<1>6. QED
  BY <1>3, <1>4, <1>5 DEF acquireOpsLease

-----------------------------------------------------------------------------
(* Posting.                                                                 *)

(* A wave of subtasks the holder may post: each has no escrow yet, and has  *)
(* one now, which the holder will hear of.                                  *)
LEMMA SendTurn ==
    ASSUME Inv, NEW c \in Callers, caller[c].pc \in {"waves", "post"}, NEW wave \in Seq(Subtasks),
           \A i, k \in DOMAIN wave : wave[i] = wave[k] => i = k,
           \A s \in ToSet(wave) : MayPost(c, s),
           Send(c, wave), UNCHANGED <<row, lease>>
    PROVE  Inv'
<1> DEFINE old == caller[c]
           op == Len(jobs) + 1
           specs == [i \in DOMAIN wave |-> [step |-> wave[i], op |-> op, parent |-> NONE, status |-> "sent"]]
           rec == [old EXCEPT !.wave = wave, !.op = op, !.pc = "sent"]
<1>1. /\ jobs' = jobs \o specs /\ caller' = [caller EXCEPT ![c] = rec]
      /\ excused' = excused \cup {s \in ToSet(wave) : s \in old.outdated \/ lost(old.sub[s])}
  BY DEF Send, Set, Excuse
<1>2. /\ Tables /\ old \in State /\ Len(jobs) \in Nat /\ DOMAIN jobs = 1..Len(jobs)
      /\ Len(wave) \in Nat /\ DOMAIN wave = 1..Len(wave) /\ \A i \in DOMAIN wave : wave[i] \in Subtasks
  BY DEF Inv, Tables
<1>3. op \in Nat /\ op # NONE /\ \A i \in DOMAIN wave : op + i - 1 = Len(jobs) + i
  BY <1>2 DEF NONE
<1>4. /\ specs \in Seq(Job) /\ DOMAIN specs = DOMAIN wave
      /\ \A i \in DOMAIN wave :
             specs[i] = [step |-> wave[i], op |-> op, parent |-> NONE, status |-> "sent"]
  <2>1. \A i \in DOMAIN wave : [step |-> wave[i], op |-> op, parent |-> NONE, status |-> "sent"] \in Job
    BY <1>2, <1>3 DEF Job, NONE
  <2>2. specs = [i \in 1..Len(wave) |-> [step |-> wave[i], op |-> op, parent |-> NONE, status |-> "sent"]]
    BY <1>2
  <2>3. QED
    BY <1>2, <2>1, <2>2
<1> HIDE DEF specs, old, op
<1>5. /\ rec \in State /\ rec.pc = "sent" /\ rec.kind = old.kind /\ rec.sub = old.sub /\ rec.todo = old.todo
      /\ rec.outdated = old.outdated /\ rec.changed = old.changed /\ rec.wave = wave /\ rec.op = op
  BY <1>2, <1>3 DEF State, PCs
<1> HIDE DEF rec
<1>6. /\ caller'[c] = rec /\ rec.kind = kind(c) /\ rec.outdated = caller[c].outdated /\ holds(c)
      /\ caller[c].pc = "waves" => kind(c) = "confirm"
      /\ caller[c].pc = "post" => kind(c) = "tick"
  BY <1>1, <1>2, <1>5 DEF old, kind, holds, Tables
<1>7. /\ jobs' \in Seq(Job) /\ Grows
      /\ \A h \in DOMAIN jobs : jobs'[h] = jobs[h]
      /\ DOMAIN jobs' = DOMAIN jobs \cup {Len(jobs) + i : i \in DOMAIN wave}
      /\ \A i \in DOMAIN wave :
            jobs'[Len(jobs) + i] = [step |-> wave[i], op |-> op, parent |-> NONE, status |-> "sent"]
  BY <1>1, <1>2, <1>4, AppendGrows
<1>8. Excuses
  BY <1>1, <1>2 DEF Excuses, Tables, ToSet
<1>9. Sent(c)'
  <2>1. \A i \in DOMAIN wave :
           /\ op + i - 1 \in DOMAIN jobs'
           /\ jobs'[op + i - 1] = [step |-> wave[i], op |-> op, parent |-> NONE, status |-> "sent"]
    BY <1>3, <1>7
  <2>2. QED
    BY <1>3, <1>5, <1>6, <2>1 DEF Sent, NONE
<1>10. \A s \in Subtasks : InWave(c, s)' <=> s \in ToSet(wave)
  BY <1>5, <1>6 DEF InWave
<1>11. postedBy(c)' = {op + i - 1 : i \in DOMAIN wave}
  BY <1>5, <1>6 DEF postedBy
<1>12. ASSUME NEW s \in Subtasks \ excused'
       PROVE  (\A g, h \in escrows(s)' : g = h) /\ InHand(c, s)'
  <2>1. Tracked(s) /\ InHand(c, s)
    BY <1>6, <1>8, <1>12 DEF Inv, Excuses, Tracked
  <2>2. kind(c)' = kind(c) /\ caller'[c].sub = old.sub /\ caller'[c].outdated = old.outdated
    BY <1>5, <1>6 DEF kind
  <2>3. ~InWave(c, s)
    BY DEF InWave
  <2>4. escrows(s)' = escrows(s) \cup {Len(jobs) + i : i \in {k \in DOMAIN wave : wave[k] = s}}
    <3>1. \A h \in DOMAIN jobs : h \in escrows(s)' <=> h \in escrows(s)
      BY <1>7 DEF escrows
    <3>2. \A i \in DOMAIN wave : Len(jobs) + i \in escrows(s)' <=> wave[i] = s
      <4> TAKE i \in DOMAIN wave
      <4> DEFINE h == Len(jobs) + i
      <4>1. /\ h \in DOMAIN jobs'
            /\ jobs'[h] = [step |-> wave[i], op |-> op, parent |-> NONE, status |-> "sent"]
        BY <1>7
      <4> HIDE DEF h
      <4>2. jobs'[h].step = wave[i] /\ jobs'[h].parent = NONE /\ jobs'[h].status # "spec"
        BY <4>1
      <4>3. h \in escrows(s)' <=> wave[i] = s
        BY <4>1, <4>2 DEF escrows, NONE
      <4>4. QED
        BY <4>3 DEF h
    <3>3. escrows(s)' \subseteq DOMAIN jobs'
      BY DEF escrows
    <3>4. escrows(s) \subseteq DOMAIN jobs
      BY DEF escrows
    <3>5. \A h \in escrows(s)' : h \in DOMAIN jobs \/ \E i \in DOMAIN wave : h = Len(jobs) + i
      BY <1>7, <3>3
    <3>6. QED
      BY <3>1, <3>2, <3>4, <3>5
  <2>5. CASE s \in ToSet(wave)
    <3>1. s \notin old.outdated /\ ~lost(old.sub[s])
      BY <1>1, <1>12, <2>5
    <3>2. MayPost(c, s)
      BY <2>5
    <3>3. escrows(s) = {}
      BY <2>1, <3>1, <3>2 DEF InHand, old
    <3>4. \A g, h \in escrows(s)' : g = h
      BY <2>4, <3>3
    <3>5. escrows(s)' \subseteq postedBy(c)'
      BY <1>3, <1>11, <2>4, <3>3
    <3>6. ~MayPost(c, s)'
      BY <1>5, <1>6, <1>10, <2>5 DEF MayPost
    <3>7. kind(c) = "tick" /\ ~caller'[c].changed => old.sub[s] = row'.sub[s]
      BY <1>5, <1>6, <2>1, <3>1 DEF InHand, old
    <3>8. InHand(c, s)'
      BY <1>10, <2>2, <2>5, <3>1, <3>5, <3>6, <3>7 DEF InHand
    <3>9. QED
      BY <3>4, <3>8
  <2>6. CASE s \notin ToSet(wave)
    <3>1. \A i \in DOMAIN wave : wave[i] # s
      BY <2>6 DEF ToSet
    <3>2. escrows(s)' = escrows(s)
      BY <2>4, <3>1
    <3>3. \A g, h \in escrows(s)' : g = h
      BY <2>1, <3>2 DEF Tracked
    <3>4. CASE s \in old.outdated
      <4>1. RowKnows(s)
        BY <2>1, <3>4 DEF InHand, old
      <4>2. RowKnows(s)'
        BY <3>2, <4>1, <1>7, KnownStays DEF RowKnows, Known, onMarket
      <4>3. QED
        BY <1>10, <2>2, <2>6, <3>3, <3>4, <4>2 DEF InHand
    <3>5. CASE s \notin old.outdated
      <4>1. escrows(s) # {} => Known(old.sub[s])
        BY <2>1, <2>3, <3>5 DEF InHand, old
      <4>2. escrows(s)' # {} => Known(caller[c].sub[s])'
        BY <1>7, <2>2, <3>2, <4>1, KnownStays DEF Known, onMarket
      <4>3. MayPost(c, s)' => MayPost(c, s)
        BY <1>5, <1>6, <2>2 DEF MayPost, old
      <4>4. MayPost(c, s)' => escrows(s)' = {} \/ lost(caller[c].sub[s])'
        BY <2>1, <2>2, <3>2, <3>5, <4>3 DEF InHand, old, lost
      <4>5. kind(c) = "tick" /\ ~caller'[c].changed => old.sub[s] = row'.sub[s]
        BY <1>5, <1>6, <2>1, <3>5 DEF InHand, old
      <4>6. QED
        BY <1>10, <2>2, <2>6, <3>3, <3>5, <4>2, <4>4, <4>5 DEF InHand
    <3>6. QED
      BY <3>4, <3>5
  <2>7. QED
    BY <2>5, <2>6
<1>13. QED
  BY <1>1, <1>5, <1>6, <1>7, <1>8, <1>9, <1>12, HolderTurn DEF Inv, Tables

(* A confirmation posts the roots it has not posted.                        *)
LEMMA PostWaveStep ==
    ASSUME Inv, NEW c \in Callers, PostWave(c)
    PROVE  Inv'
<1>1. caller[c].pc = "waves" /\ UNCHANGED <<row, lease>>
  BY DEF PostWave
<1>2. PICK p \in {Payer[s] : s \in Roots} : Send(c, SetToSeq(waveOf(caller[c].sub, p) \ caller[c].todo))
  BY DEF PostWave
<1> DEFINE S == waveOf(caller[c].sub, p) \ caller[c].todo
<1>3. S \subseteq Subtasks /\ \A s \in S : caller[c].sub[s].id = NONE /\ s \notin caller[c].todo
  BY DEF waveOf, Roots
<1>4. IsFiniteSet(S)
  BY <1>3, FS_Subset, DelegationAssumption
<1>5. Send(c, SetToSeq(S))
  BY <1>2
<1> HIDE DEF S
<1>6. /\ SetToSeq(S) \in Seq(S) /\ ToSet(SetToSeq(S)) = S
      /\ \A i, k \in DOMAIN SetToSeq(S) : SetToSeq(S)[i] = SetToSeq(S)[k] => i = k
  BY <1>4, SeqOfSet
<1>7. SetToSeq(S) \in Seq(Subtasks)
  BY <1>3, <1>6
<1>8. \A s \in S : MayPost(c, s)
  BY <1>1, <1>3 DEF MayPost
<1>9. QED
  BY <1>1, <1>5, <1>6, <1>7, <1>8, SendTurn

(* A tick posts one subtask that is ready.                                  *)
LEMMA PostDependentStep ==
    ASSUME Inv, NEW c \in Callers, PostDependent(c)
    PROVE  Inv'
<1>1. caller[c].pc = "post" /\ UNCHANGED <<row, lease>>
  BY DEF PostDependent
<1>2. PICK s \in caller[c].todo : Send(c, <<s>>)
  BY DEF PostDependent
<1>3. s \in Subtasks
  BY <1>2 DEF Inv, Tables, State
<1>4. <<s>> \in Seq(Subtasks) /\ DOMAIN <<s>> = {1} /\ <<s>>[1] = s
  BY <1>3
<1>5. ToSet(<<s>>) = {s} /\ \A i, k \in DOMAIN <<s>> : <<s>>[i] = <<s>>[k] => i = k
  BY <1>4 DEF ToSet
<1>6. MayPost(c, s)
  BY <1>1, <1>2 DEF MayPost
<1>7. QED
  BY <1>1, <1>2, <1>4, <1>5, <1>6, SendTurn

(* What a wave on its way is, spec by spec.                                 *)
LEMMA SentSpecs ==
    ASSUME NEW c \in Callers, caller[c].pc = "sent", Sent(c)
    PROVE  \A i \in DOMAIN caller[c].wave :
               LET h == caller[c].op + i - 1
               IN  h \in DOMAIN jobs /\ jobs[h].step = caller[c].wave[i] /\ jobs[h].status = "sent"
<1> TAKE i \in DOMAIN caller[c].wave
<1> DEFINE h == caller[c].op + i - 1
<1>1. h \in DOMAIN jobs /\ jobs[h] = [step |-> caller[c].wave[i], op |-> caller[c].op,
                                      parent |-> NONE, status |-> "sent"]
  BY DEF Sent
<1> HIDE DEF h
<1>2. jobs[h].step = caller[c].wave[i] /\ jobs[h].status = "sent"
  BY <1>1
<1>3. QED
  BY <1>1, <1>2 DEF h

(* A wave comes back, or is given up by a tick.  Where it was not excused,  *)
(* its escrows are on the holder's record, or there are none.               *)
WaveBehind(c, to, rec) ==
    /\ caller[c].pc = "sent" /\ to \in {"spec", "Open", "sent"} /\ Become(postedBy(c), to)
    /\ rec \in State /\ caller' = [caller EXCEPT ![c] = rec] /\ UNCHANGED <<row, lease>> /\ Excuses
    /\ rec.kind = kind(c) /\ rec.outdated = caller[c].outdated
    /\ IF kind(c) = "confirm"
       THEN rec.pc = "waves" /\ rec.todo = caller[c].todo \cup ToSet(caller[c].wave)
       ELSE rec.pc \in {"save", "post"} /\ rec.todo = caller[c].todo \ ToSet(caller[c].wave)
    /\ \A s \in Subtasks \ excused' :
           /\ ~InWave(c, s) => rec.sub[s] = caller[c].sub[s]
           /\ InWave(c, s) => to = "spec" \/ (to = "Open" /\ rec.sub[s].hash \in postedBy(c))
           /\ ~rec.changed => ~caller[c].changed /\ rec.sub[s] = caller[c].sub[s]

LEMMA WaveTurn ==
    ASSUME Inv, NEW c \in Callers, NEW to, NEW rec, WaveBehind(c, to, rec)
    PROVE  Inv'
<1> USE DEF WaveBehind
<1>1. /\ Tables /\ holds(c) /\ caller'[c] = rec /\ kind(c)' = kind(c) /\ kind(c) \in Kinds
      /\ lease \subseteq Kinds
  BY DEF Inv, Tables, holds, kind, State
<1>2. /\ jobs' \in Seq(Job) /\ DOMAIN jobs' = DOMAIN jobs
      /\ \A h \in DOMAIN jobs :
             /\ jobs'[h].step = jobs[h].step /\ jobs'[h].parent = jobs[h].parent
             /\ h \in postedBy(c) => jobs'[h].status = to
             /\ h \notin postedBy(c) => jobs'[h] = jobs[h]
  BY <1>1, BecomeTypes DEF Statuses
<1>3. /\ rec.pc \in {"waves", "save", "post"} /\ (rec.pc = "waves" <=> kind(c) = "confirm")
      /\ rec.pc \in {"save", "post"} => kind(c) = "tick"
  BY <1>1 DEF Kinds
<1>4. Sent(c)' /\ (\A s \in Subtasks : ~InWave(c, s)')
  BY <1>1, <1>3 DEF Sent, InWave
<1>5. ASSUME NEW s \in Subtasks \ excused'
      PROVE  (\A g, h \in escrows(s)' : g = h) /\ InHand(c, s)'
  <2>1. Sent(c) /\ Tracked(s) /\ InHand(c, s)
    BY <1>1, <1>5, InOrder DEF Inv, Excuses, Tracked
  <2>2. \A h \in postedBy(c) : h \in DOMAIN jobs /\ jobs[h].status = "sent"
    <3>1. \A i \in DOMAIN caller[c].wave :
             /\ caller[c].op + i - 1 \in DOMAIN jobs
             /\ jobs[caller[c].op + i - 1].status = "sent"
      BY <2>1, SentSpecs
    <3>2. QED
      BY <3>1 DEF postedBy
  <2>3. Grows /\ NoNewEscrow
    BY <1>1, <2>2, BecomeGrows DEF onMarket, Statuses
  <2>4. escrows(s)' \subseteq escrows(s) /\ \A g, h \in escrows(s)' : g = h
    BY <2>1, <2>3 DEF NoNewEscrow, Tracked
  <2>5. CASE s \in caller[c].outdated
    <3>1. RowKnows(s)'
      BY <2>1, <2>3, <2>4, <2>5, KnownStays DEF InHand, RowKnows, Known, onMarket
    <3>2. QED
      BY <1>1, <1>4, <2>4, <2>5, <3>1 DEF InHand
  <2>6. CASE s \notin caller[c].outdated
    <3>1. ~InWave(c, s) => (escrows(s)' # {} => Known(caller[c].sub[s])')
      BY <1>1, <1>5, <2>1, <2>3, <2>4, <2>6, KnownStays DEF InHand, Known, onMarket
    <3>2. InWave(c, s) /\ to = "spec" => escrows(s)' = {}
      <4>1. InWave(c, s) => escrows(s)' \subseteq postedBy(c)
        BY <2>1, <2>4, <2>6 DEF InHand
      <4>2. to = "spec" => \A h \in postedBy(c) : h \notin escrows(s)'
        BY <1>2, <2>2 DEF escrows
      <4>3. QED
        BY <4>1, <4>2
    <3>3. InWave(c, s) /\ to # "spec" => Known(caller[c].sub[s])'
      BY <1>1, <1>2, <1>5, <2>2 DEF Known, onMarket
    <3>4. InWave(c, s) => ~MayPost(c, s)'
      BY <1>1, <1>3 DEF MayPost, InWave
    <3>5. ~InWave(c, s) /\ MayPost(c, s)' => MayPost(c, s)
      <4>1. CASE kind(c) = "confirm"
        BY <1>1, <1>3, <1>5, <4>1 DEF MayPost
      <4>2. CASE kind(c) # "confirm"
        BY <1>1, <1>3, <1>5, <4>2 DEF MayPost
      <4>3. QED
        BY <4>1, <4>2
    <3>6. MayPost(c, s)' => escrows(s)' = {} \/ lost(caller[c].sub[s])'
      BY <1>1, <1>5, <2>1, <2>4, <2>6, <3>4, <3>5 DEF InHand, lost
    <3>7. kind(c) = "tick" /\ ~rec.changed => rec.sub[s] = row'.sub[s]
      BY <1>5, <2>1, <2>6 DEF InHand
    <3>8. QED
      BY <1>1, <1>4, <2>4, <2>6, <3>1, <3>2, <3>3, <3>6, <3>7 DEF InHand
  <2>7. QED
    BY <2>5, <2>6
<1>6. QED
  BY <1>1, <1>2, <1>3, <1>4, <1>5, HolderTurn

(* The record after a post.                                                 *)
LEMMA WithJobs ==
    ASSUME Tables, NEW c \in Callers, caller[c].pc = "sent", NEW found \in BOOLEAN
    PROVE  LET sub == withJobs(c, found)
           IN  /\ sub \in [Subtasks -> Record]
               /\ Sent(c) => \A s \in Subtasks :
                      /\ ~InWave(c, s) => sub[s] = caller[c].sub[s]
                      /\ InWave(c, s) => sub[s].hash \in postedBy(c)
<1> DEFINE old == caller[c].sub
           posted(s) == {h \in postedBy(c) : jobs[h].step = s}
           h0(s) == CHOOSE h \in postedBy(c) : jobs[h].step = s
           new(s) == [old[s] EXCEPT !.hash = h0(s), !.id = IF found THEN h0(s) ELSE NONE]
<1>1. /\ old \in [Subtasks -> Record] /\ caller[c].wave \in Seq(Subtasks)
      /\ caller[c].op \in Nat /\ Len(caller[c].wave) \in Nat
      /\ DOMAIN caller[c].wave = 1..Len(caller[c].wave)
  BY DEF Tables, State
<1>2. postedBy(c) \subseteq Nat
  BY <1>1 DEF postedBy
<1>3. ASSUME NEW s \in Subtasks, \E h \in postedBy(c) : jobs[h].step = s
      PROVE  new(s) \in Record /\ new(s).hash \in postedBy(c)
  <2>1. h0(s) \in postedBy(c)
    BY <1>3
  <2> HIDE DEF h0
  <2>2. h0(s) \in Nat /\ old[s] \in Record
    BY <1>1, <1>2, <2>1
  <2>3. new(s) \in Record /\ new(s).hash = h0(s)
    BY <2>2 DEF Record, NONE
  <2>4. QED
    BY <2>1, <2>3
<1>4. withJobs(c, found) = [s \in Subtasks |->
          IF \E h \in postedBy(c) : jobs[h].step = s THEN new(s) ELSE old[s]]
  BY DEF withJobs
<1> HIDE DEF new, old
<1>5. withJobs(c, found) \in [Subtasks -> Record]
  BY <1>1, <1>3, <1>4
<1>6. ASSUME Sent(c), NEW s \in Subtasks
      PROVE  InWave(c, s) <=> \E h \in postedBy(c) : jobs[h].step = s
  <2>1. \A i \in DOMAIN caller[c].wave : jobs[caller[c].op + i - 1].step = caller[c].wave[i]
    BY <1>6, SentSpecs
  <2>2. InWave(c, s) <=> \E i \in DOMAIN caller[c].wave : caller[c].wave[i] = s
    BY DEF InWave, ToSet
  <2>3. QED
    BY <2>1, <2>2 DEF postedBy
<1>7. QED
  BY <1>3, <1>4, <1>5, <1>6 DEF old

(* The record of an invocation as a wave is behind it.                      *)
LEMMA AfterWave ==
    ASSUME Tables, NEW c \in Callers, NEW sub \in [Subtasks -> Record], NEW changed \in BOOLEAN
    PROVE  LET rec == [afterWave(c, sub) EXCEPT !.changed = changed]
           IN  /\ rec \in State /\ rec.changed = changed
               /\ rec.kind = kind(c) /\ rec.outdated = caller[c].outdated /\ rec.sub = sub
               /\ IF kind(c) = "confirm"
                  THEN rec.pc = "waves" /\ rec.todo = caller[c].todo \cup ToSet(caller[c].wave)
                  ELSE rec.pc \in {"save", "post"} /\ rec.todo = caller[c].todo \ ToSet(caller[c].wave)
<1> DEFINE old == caller[c]
           posted == ToSet(old.wave)
           none == <<>>
           next == [old EXCEPT !.sub = sub, !.wave = none, !.op = NONE]
<1>1. old \in State /\ old.wave \in Seq(Subtasks)
  BY DEF Tables, State
<1>2. posted \subseteq Subtasks /\ old.todo \subseteq Subtasks
  BY <1>1 DEF ToSet, State
<1>3. afterWave(c, sub) = IF old.kind = "confirm"
                          THEN [next EXCEPT !.pc = "waves", !.todo = old.todo \cup posted]
                          ELSE [next EXCEPT !.pc = IF old.todo \ posted = {} THEN "save" ELSE "post",
                                            !.todo = old.todo \ posted]
  BY <1>1 DEF afterWave, kind, State
<1> HIDE DEF posted
<1>4. kind(c) = old.kind /\ none \in Seq(Subtasks) /\ NONE \in Nat
  BY DEF kind, NONE
<1> HIDE DEF old, none
<1>5. /\ next \in State /\ next.kind = old.kind /\ next.outdated = old.outdated /\ next.sub = sub
  BY <1>1, <1>4 DEF State
<1> HIDE DEF next
<1> DEFINE rec == [afterWave(c, sub) EXCEPT !.changed = changed]
           Result(pc, todo) == /\ rec \in State /\ rec.changed = changed
                               /\ rec.kind = old.kind /\ rec.outdated = old.outdated /\ rec.sub = sub
                               /\ rec.pc = pc /\ rec.todo = todo
<1>6. ASSUME NEW pc \in PCs, NEW todo \in SUBSET Subtasks,
             afterWave(c, sub) = [next EXCEPT !.pc = pc, !.todo = todo]
      PROVE  Result(pc, todo)
  <2>1. rec = [next EXCEPT !.pc = pc, !.todo = todo, !.changed = changed]
    BY <1>5, <1>6 DEF State
  <2>2. QED
    BY <1>5, <1>6, <2>1 DEF State
<1> HIDE DEF rec
<1>7. CASE old.kind = "confirm"
  <2>1. Result("waves", old.todo \cup posted)
    BY <1>2, <1>3, <1>6, <1>7 DEF PCs
  <2>2. QED
    BY <1>4, <1>7, <2>1 DEF old, posted, rec
<1>8. CASE old.kind # "confirm"
  <2> DEFINE pc == IF old.todo \ posted = {} THEN "save" ELSE "post"
             left == old.todo \ posted
  <2>1. pc \in {"save", "post"} /\ pc \in PCs /\ left \in SUBSET Subtasks
    BY <1>2 DEF PCs
  <2>2. afterWave(c, sub) = [next EXCEPT !.pc = pc, !.todo = left]
    BY <1>3, <1>8
  <2> HIDE DEF pc, left
  <2>3. Result(pc, left)
    BY <1>6, <2>1, <2>2
  <2>4. QED
    BY <1>4, <1>8, <2>1, <2>3 DEF old, posted, rec, left
<1>9. QED
  BY <1>7, <1>8

(* It keeps whether anything has changed.                                   *)
LEMMA AfterWaveKeeps ==
    ASSUME Tables, NEW c \in Callers, NEW sub \in [Subtasks -> Record]
    PROVE  afterWave(c, sub) = [afterWave(c, sub) EXCEPT !.changed = caller[c].changed]
<1> DEFINE old == caller[c]
           none == <<>>
           next == [old EXCEPT !.sub = sub, !.wave = none, !.op = NONE]
<1>1. old \in State /\ none \in Seq(Subtasks) /\ NONE \in Nat
  BY DEF Tables, NONE
<1> HIDE DEF old, none
<1>2. next \in State /\ next.changed = old.changed
  BY <1>1 DEF State
<1> HIDE DEF next
<1>3. ASSUME NEW pc, NEW todo
      PROVE  LET x == [next EXCEPT !.pc = pc, !.todo = todo] IN x = [x EXCEPT !.changed = old.changed]
  BY <1>2 DEF State
<1>4. \E pc, todo : afterWave(c, sub) = [next EXCEPT !.pc = pc, !.todo = todo]
  <2>1. CASE kind(c) = "confirm"
    <3>1. afterWave(c, sub) = [next EXCEPT !.pc = "waves", !.todo = next.todo \cup ToSet(caller[c].wave)]
      BY <1>2, <2>1 DEF afterWave, State, next, old, none
    <3>2. QED
      BY <3>1
  <2>2. CASE kind(c) # "confirm"
    <3> DEFINE left == caller[c].todo \ ToSet(caller[c].wave)
               pc == IF left = {} THEN "save" ELSE "post"
    <3>1. afterWave(c, sub) = [next EXCEPT !.pc = pc, !.todo = left]
      BY <2>2 DEF afterWave, next, old, none
    <3> HIDE DEF pc, left
    <3>2. QED
      BY <3>1
  <2>3. QED
    BY <2>1, <2>2
<1>5. QED
  BY <1>3, <1>4 DEF old

(* A post that returns: found, unseen or in vain.                           *)
LEMMA AfterPostStep ==
    ASSUME Inv, NEW c \in Callers, afterSubtaskPost(c)
    PROVE  Inv'
<1>1. Tables /\ caller[c].pc = "sent" /\ UNCHANGED <<row, lease, excused>> /\ Excuses
  BY DEF afterSubtaskPost, Excuses, Inv, Tables
<1>2. PICK outcome \in {"found", "unseen", "vain"} :
          /\ Become(postedBy(c), IF outcome = "vain" THEN "spec" ELSE "Open")
          /\ Set(c, [afterWave(c, withJobs(c, outcome = "found")) EXCEPT !.changed = TRUE])
  BY DEF afterSubtaskPost
<1> DEFINE to == IF outcome = "vain" THEN "spec" ELSE "Open"
           found == outcome = "found"
           sub == withJobs(c, found)
           rec == [afterWave(c, sub) EXCEPT !.changed = TRUE]
<1>3. /\ to \in {"spec", "Open"} /\ found \in BOOLEAN
      /\ Become(postedBy(c), to) /\ caller' = [caller EXCEPT ![c] = rec]
  BY <1>2 DEF Set
<1> HIDE DEF to, found
<1>4. /\ sub \in [Subtasks -> Record]
      /\ Sent(c) => \A s \in Subtasks :
             /\ ~InWave(c, s) => sub[s] = caller[c].sub[s]
             /\ InWave(c, s) => sub[s].hash \in postedBy(c)
  BY <1>1, <1>3, WithJobs
<1> HIDE DEF sub
<1>5. /\ rec \in State /\ rec.changed = TRUE
      /\ rec.kind = kind(c) /\ rec.outdated = caller[c].outdated /\ rec.sub = sub
      /\ IF kind(c) = "confirm"
         THEN rec.pc = "waves" /\ rec.todo = caller[c].todo \cup ToSet(caller[c].wave)
         ELSE rec.pc \in {"save", "post"} /\ rec.todo = caller[c].todo \ ToSet(caller[c].wave)
  BY <1>1, <1>4, AfterWave
<1> HIDE DEF rec
<1>6. ASSUME NEW s \in Subtasks \ excused'
      PROVE  /\ ~InWave(c, s) => rec.sub[s] = caller[c].sub[s]
             /\ InWave(c, s) => to = "spec" \/ (to = "Open" /\ rec.sub[s].hash \in postedBy(c))
             /\ ~rec.changed => ~caller[c].changed /\ rec.sub[s] = caller[c].sub[s]
  <2>1. Sent(c)
    BY <1>1, <1>6, InOrder
  <2>2. QED
    BY <1>3, <1>4, <1>5, <1>6, <2>1
<1>7. WaveBehind(c, to, rec)
  BY <1>1, <1>3, <1>5, <1>6 DEF WaveBehind
<1>8. QED
  BY <1>7, WaveTurn

(* A tick goes on without a trace of a post that threw; a confirmation      *)
(* stores what it has.                                                      *)
LEMMA PostThrowsStep ==
    ASSUME Inv, NEW c \in Callers, PostThrows(c)
    PROVE  Inv'
<1>1. Tables /\ caller[c].pc = "sent" /\ holds(c) /\ caller[c] \in State /\ kind(c) \in {"tick", "confirm"}
  BY DEF PostThrows, Inv, Tables, holds, kind, State, Kinds
<1>2. PICK outcome \in {"dropped", "pending", "unread"} :
         LET known == outcome = "unread" dropped == outcome = "dropped"
             sub == IF known THEN withJobs(c, FALSE) ELSE caller[c].sub
             unsure == IF dropped THEN {} ELSE ToSet(caller[c].wave)
         IN  /\ Become(postedBy(c), IF dropped THEN "spec" ELSE IF known THEN "Open" ELSE "sent")
             /\ Excuse(unsure)
             /\ IF kind(c) = "tick"
                THEN Set(c, afterWave(c, sub)) /\ UNCHANGED <<row, lease>>
                ELSE Write(c, row.status, sub, lease \ {"confirm"})
  BY DEF PostThrows
<1> DEFINE dropped == outcome = "dropped"
           sub == IF outcome = "unread" THEN withJobs(c, FALSE) ELSE caller[c].sub
           to == IF dropped THEN "spec" ELSE IF outcome = "unread" THEN "Open" ELSE "sent"
           unsure == IF dropped THEN {} ELSE ToSet(caller[c].wave)
<1>3. /\ to \in {"spec", "Open", "sent"} /\ Become(postedBy(c), to) /\ excused' = excused \cup unsure
      /\ kind(c) = "tick" => Set(c, afterWave(c, sub)) /\ UNCHANGED <<row, lease>>
      /\ kind(c) = "confirm" => Write(c, row.status, sub, lease \ {"confirm"})
  BY <1>2 DEF Excuse
<1>4. /\ sub \in [Subtasks -> Record]
      /\ Sent(c) => \A s \in Subtasks : ~InWave(c, s) => sub[s] = caller[c].sub[s]
      /\ outcome # "unread" => sub = caller[c].sub
  BY <1>1, WithJobs DEF State
<1> HIDE DEF sub
<1>5. unsure \subseteq Subtasks
  BY <1>1 DEF State, ToSet
<1>6. Excuses
  BY <1>1, <1>3, <1>5 DEF Excuses, Tables
<1>7. ASSUME NEW s \in Subtasks \ excused'
      PROVE  /\ Sent(c) /\ Alone /\ Tracked(s) /\ InHand(c, s)
             /\ sub[s] = caller[c].sub[s]
             /\ InWave(c, s) => to = "spec"
  <2>1. Sent(c) /\ Alone /\ Tracked(s) /\ InHand(c, s)
    BY <1>1, <1>6, <1>7, InOrder DEF Inv, Excuses, Tracked
  <2>2. s \notin unsure
    BY <1>3, <1>7
  <2>3. InWave(c, s) => dropped
    BY <2>2 DEF InWave
  <2>4. sub[s] = caller[c].sub[s]
    BY <1>4, <2>1, <2>3
  <2>5. QED
    BY <2>1, <2>3, <2>4
<1> HIDE DEF unsure
<1>8. CASE kind(c) = "tick"
  <2> DEFINE rec == [afterWave(c, sub) EXCEPT !.changed = caller[c].changed]
  <2>0. caller[c].changed \in BOOLEAN
    BY <1>1 DEF State
  <2>1. /\ rec \in State /\ rec.changed = caller[c].changed
        /\ rec.kind = kind(c) /\ rec.outdated = caller[c].outdated /\ rec.sub = sub
        /\ IF kind(c) = "confirm"
           THEN rec.pc = "waves" /\ rec.todo = caller[c].todo \cup ToSet(caller[c].wave)
           ELSE rec.pc \in {"save", "post"} /\ rec.todo = caller[c].todo \ ToSet(caller[c].wave)
    BY <1>1, <1>4, <2>0, AfterWave
  <2>2. afterWave(c, sub) = rec
    BY <1>1, <1>4, AfterWaveKeeps
  <2> HIDE DEF rec
  <2>3. caller' = [caller EXCEPT ![c] = rec] /\ UNCHANGED <<row, lease>>
    BY <1>3, <1>8, <2>2 DEF Set
  <2> HIDE DEF to
  <2>4. ASSUME NEW s \in Subtasks \ excused'
        PROVE  /\ ~InWave(c, s) => rec.sub[s] = caller[c].sub[s]
               /\ InWave(c, s) => to = "spec" \/ (to = "Open" /\ rec.sub[s].hash \in postedBy(c))
               /\ ~rec.changed => ~caller[c].changed /\ rec.sub[s] = caller[c].sub[s]
    BY <1>7, <2>1, <2>4
  <2>5. WaveBehind(c, to, rec)
    BY <1>1, <1>3, <1>6, <2>1, <2>3, <2>4 DEF WaveBehind
  <2>6. QED
    BY <2>5, WaveTurn
<1>9. CASE kind(c) = "confirm"
  <2>1. /\ row.status \in {"planned", "posted", "completed"} /\ lease \ {"confirm"} \subseteq lease
        /\ Write(c, row.status, sub, lease \ {"confirm"})
    BY <1>1, <1>3, <1>9 DEF Tables
  <2>2. row'.sub = sub
    BY <2>1 DEF Write
  <2>3. jobs' \in Seq(Job)
    BY <1>1, <1>3, BecomeTypes DEF Statuses
  <2>4. ASSUME NEW s \in Subtasks \ excused'
        PROVE  (\A g, h \in escrows(s)' : g = h) /\ RowKnows(s)'
    <3>1. /\ Sent(c) /\ Alone /\ Tracked(s) /\ InHand(c, s) /\ sub[s] = caller[c].sub[s]
          /\ InWave(c, s) => to = "spec"
      BY <1>7, <2>4
    <3>2. \A h \in postedBy(c) : h \in DOMAIN jobs /\ jobs[h].status = "sent"
      BY <1>1, <3>1, SentSpecs DEF postedBy
    <3> HIDE DEF to
    <3>3. Grows /\ NoNewEscrow
      BY <1>1, <1>3, <3>2, BecomeGrows DEF onMarket, Statuses
    <3>4. escrows(s)' \subseteq escrows(s) /\ s \notin caller[c].outdated
      BY <1>1, <1>9, <3>1, <3>3 DEF NoNewEscrow, Alone
    <3>5. CASE InWave(c, s)
      <4>1. escrows(s)' \subseteq postedBy(c) /\ to = "spec"
        BY <3>1, <3>4, <3>5 DEF InHand
      <4>2. \A h \in postedBy(c) : h \notin escrows(s)'
        BY <1>1, <1>3, <3>2, <4>1, BecomeTypes DEF Statuses, escrows
      <4>3. escrows(s)' = {}
        BY <4>1, <4>2
      <4>4. QED
        BY <4>3 DEF RowKnows
    <3>6. CASE ~InWave(c, s)
      <4>1. escrows(s) # {} => Known(sub[s])
        BY <3>1, <3>4, <3>6 DEF InHand
      <4>2. QED
        BY <2>2, <3>1, <3>3, <3>4, <4>1, KnownStays DEF RowKnows, Known, onMarket, Tracked
    <3>7. QED
      BY <3>5, <3>6
  <2>5. QED
    BY <1>1, <1>4, <1>6, <2>1, <2>3, <2>4, WriterTurn
<1>10. QED
  BY <1>1, <1>8, <1>9

(* A confirmation that is through writes what nobody else has written since. *)
LEMMA FinishConfirmStep ==
    ASSUME Inv, NEW c \in Callers, FinishConfirm(c)
    PROVE  Inv'
<1>1. /\ caller[c].pc = "waves" /\ holds(c) /\ kind(c) = "confirm" /\ caller[c].sub \in [Subtasks -> Record]
      /\ Write(c, "posted", caller[c].sub, lease \ {"confirm"}) /\ UNCHANGED <<jobs, excused>>
  BY DEF FinishConfirm, holds, Inv, Tables, State
<1>2. Excuses /\ jobs' \in Seq(Job) /\ lease \ {"confirm"} \subseteq lease
  BY <1>1 DEF Excuses, Inv, Tables
<1>3. ASSUME NEW s \in Subtasks \ excused'
      PROVE  (\A g, h \in escrows(s)' : g = h) /\ RowKnows(s)'
  <2>1. Tracked(s) /\ InHand(c, s) /\ Alone
    BY <1>1, <1>2, <1>3, InOrder DEF Inv, Tracked
  <2>2. escrows(s)' = escrows(s) /\ row'.sub = caller[c].sub
    BY <1>1 DEF escrows, Write
  <2>3. escrows(s) # {} => Known(caller[c].sub[s])
    BY <1>1, <2>1 DEF InHand, Alone, InWave
  <2>4. QED
    BY <1>1, <2>1, <2>2, <2>3 DEF Tracked, RowKnows, Known, onMarket
<1>4. QED
  BY <1>1, <1>2, <1>3, WriterTurn

-----------------------------------------------------------------------------
(* Grading, saving, dying.                                                  *)

(* An end does not touch hash and id.                                       *)
LEMMA EndingKeeps ==
    ASSUME NEW sub \in [Subtasks -> Record], NEW ss, NEW end \in {"output", "failed"}
    PROVE  LET new == ending(sub, ss, end)
           IN  new \in [Subtasks -> Record]
               /\ \A s \in Subtasks : new[s].hash = sub[s].hash /\ new[s].id = sub[s].id
<1> DEFINE new(s) == IF s \in ss THEN [sub[s] EXCEPT !.end = end] ELSE sub[s]
<1>1. \A s \in Subtasks : new(s) \in Record /\ new(s).hash = sub[s].hash /\ new(s).id = sub[s].id
  BY DEF Record
<1>2. ending(sub, ss, end) = [s \in Subtasks |-> new(s)]
  BY DEF ending
<1> HIDE DEF new
<1>3. QED
  BY <1>1, <1>2

(* Of what is ready after a grading nothing is escrowed yet.                *)
LEMMA GradeStep ==
    ASSUME Inv, NEW c \in Callers, Grade(c)
    PROVE  Inv'
<1> DEFINE old == caller[c]
<1>1. /\ Tables /\ old.pc = "grade" /\ holds(c) /\ kind(c) = "tick" /\ old \in State
      /\ UNCHANGED <<row, lease, excused>> /\ Excuses /\ lease \subseteq Kinds
  BY DEF Grade, holds, Inv, Tables, Excuses
<1>2. PICK passed \in SUBSET {s \in old.todo : jobs[old.sub[s].id].status = "Submitted"} :
         LET graded == ending(old.sub, passed, "output")
             sub == ending(graded, cascades(graded), "failed")
             ready == {s \in held(sub) : \A d \in DependsOn[s] : sub[d].end = "output"}
         IN  /\ Become({graded[s].id : s \in passed}, "Completed")
             /\ Set(c, [old EXCEPT !.pc = IF ready = {} THEN "save" ELSE "post",
                                   !.sub = sub, !.todo = ready,
                                   !.changed = @ \/ sub # old.sub])
  BY DEF Grade
<1> DEFINE graded == ending(old.sub, passed, "output")
           sub == ending(graded, cascades(graded), "failed")
           ready == {s \in held(sub) : \A d \in DependsOn[s] : sub[d].end = "output"}
           paid == {graded[s].id : s \in passed}
           pc == IF ready = {} THEN "save" ELSE "post"
           changed == old.changed \/ sub # old.sub
           rec == [old EXCEPT !.pc = pc, !.sub = sub, !.todo = ready, !.changed = changed]
<1>3. /\ old.sub \in [Subtasks -> Record] /\ old.todo \subseteq Subtasks /\ old.changed \in BOOLEAN
      /\ passed \subseteq Subtasks
  BY <1>1 DEF State
<1>4. /\ graded \in [Subtasks -> Record]
      /\ \A s \in Subtasks : graded[s].hash = old.sub[s].hash /\ graded[s].id = old.sub[s].id
  BY <1>3, EndingKeeps
<1>5. Become(paid, "Completed") /\ caller' = [caller EXCEPT ![c] = rec]
  BY <1>2 DEF Set
<1>6. \A h \in paid : jobs[h].status = "Submitted"
  BY <1>3, <1>4
<1> HIDE DEF graded
<1>7. /\ sub \in [Subtasks -> Record]
      /\ \A s \in Subtasks : sub[s].hash = old.sub[s].hash /\ sub[s].id = old.sub[s].id
  <2>1. /\ sub \in [Subtasks -> Record]
        /\ \A s \in Subtasks : sub[s].hash = graded[s].hash /\ sub[s].id = graded[s].id
    BY <1>4, EndingKeeps
  <2>2. QED
    BY <1>4, <2>1
<1> HIDE DEF sub
<1>8. /\ ready \subseteq Subtasks /\ \A s \in ready : sub[s].id = NONE
      /\ pc \in {"save", "post"} /\ changed \in BOOLEAN
  BY <1>3 DEF held
<1> HIDE DEF ready, pc, paid, old
<1>9. /\ rec \in State /\ rec.pc = pc /\ rec.kind = old.kind /\ rec.sub = sub /\ rec.todo = ready
      /\ rec.outdated = old.outdated /\ (~rec.changed => ~old.changed /\ sub = old.sub)
  BY <1>1, <1>7, <1>8 DEF State, PCs
<1> HIDE DEF rec
<1>10. rec.kind = kind(c) /\ rec.outdated = caller[c].outdated /\ caller'[c] = rec /\ kind(c)' = kind(c)
  BY <1>1, <1>5, <1>9 DEF old, kind, Tables
<1>11. /\ jobs' \in Seq(Job) /\ Grows /\ NoNewEscrow
  BY <1>1, <1>5, <1>6, BecomeTypes, BecomeGrows DEF Statuses
<1>12. Sent(c)'
  BY <1>8, <1>9, <1>10 DEF Sent
<1>13. ASSUME NEW s \in Subtasks \ excused'
       PROVE  (\A g, h \in escrows(s)' : g = h) /\ InHand(c, s)'
  <2>1. Tracked(s) /\ InHand(c, s)
    BY <1>1, <1>13 DEF Inv, Tracked
  <2>2. escrows(s)' \subseteq escrows(s) /\ \A g, h \in escrows(s)' : g = h
    BY <1>11, <2>1 DEF NoNewEscrow, Tracked
  <2>3. ~InWave(c, s) /\ ~InWave(c, s)'
    BY <1>1, <1>8, <1>9, <1>10 DEF InWave, old
  <2>4. CASE s \in old.outdated
    <3>1. RowKnows(s)'
      BY <1>1, <1>11, <2>1, <2>2, <2>4, KnownStays DEF InHand, RowKnows, Known, onMarket, old
    <3>2. QED
      BY <1>9, <1>10, <2>2, <2>3, <2>4, <3>1 DEF InHand
  <2>5. CASE s \notin old.outdated
    <3>1. escrows(s)' # {} => Known(caller[c].sub[s])'
      BY <1>7, <1>9, <1>10, <1>11, <2>1, <2>2, <2>3, <2>5, KnownStays DEF InHand, Known, onMarket, old
    <3>2. MayPost(c, s)' => MayPost(c, s)
      BY <1>1, <1>7, <1>8, <1>9, <1>10 DEF MayPost, old
    <3>3. MayPost(c, s)' => escrows(s)' = {} \/ lost(caller[c].sub[s])'
      BY <1>7, <1>9, <1>10, <2>1, <2>2, <2>5, <3>2 DEF InHand, old, lost
    <3>4. ~rec.changed => sub[s] = row'.sub[s]
      BY <1>1, <1>9, <2>1, <2>5 DEF InHand, old
    <3>5. QED
      BY <1>9, <1>10, <2>2, <2>3, <2>5, <3>1, <3>3, <3>4 DEF InHand
  <2>6. QED
    BY <2>4, <2>5
<1>14. QED
  BY <1>1, <1>5, <1>8, <1>9, <1>10, <1>11, <1>12, <1>13, HolderTurn

(* A tick that changed nothing writes nothing; what it writes over somebody *)
(* else's record it is excused for.                                         *)
LEMMA SaveStep ==
    ASSUME Inv, NEW c \in Callers, Save(c)
    PROVE  Inv'
<1> DEFINE sub == caller[c].sub
           written == allTerminal(sub) \/ caller[c].changed
           status == IF allTerminal(sub) THEN "completed" ELSE row.status
<1>1. /\ Tables /\ caller[c].pc = "save" /\ holds(c) /\ kind(c) = "tick" /\ sub \in [Subtasks -> Record]
      /\ UNCHANGED jobs /\ jobs' \in Seq(Job) /\ row.status \in {"planned", "posted", "completed"}
      /\ lease \ {"tick"} \subseteq lease /\ lease \subseteq Kinds
  BY DEF Save, holds, Inv, Tables, State
<1>2. ASSUME NEW s \in Subtasks \ excused', Excuses
      PROVE  /\ Tracked(s) /\ InHand(c, s) /\ escrows(s)' = escrows(s) /\ ~InWave(c, s)
             /\ \A g, h \in escrows(s)' : g = h
  BY <1>1, <1>2 DEF Inv, Excuses, Tracked, escrows, InWave
<1>3. CASE written
  <2>1. /\ Write(c, status, sub, lease \ {"tick"})
        /\ excused' = excused \cup {s \in caller[c].outdated : sub[s] # row.sub[s]}
    BY <1>3 DEF Save, Excuse
  <2>2. Excuses
    BY <1>1, <2>1 DEF Excuses, Tables, State
  <2>3. ASSUME NEW s \in Subtasks \ excused'
        PROVE  RowKnows(s)' /\ Alone
    <3>1. Tracked(s) /\ InHand(c, s) /\ escrows(s)' = escrows(s) /\ ~InWave(c, s)
      BY <1>2, <2>2, <2>3
    <3>2. row'.sub = sub /\ Alone
      BY <2>1, <2>2, <2>3, InOrder DEF Write
    <3>3. escrows(s) # {} => Known(sub[s])
      <4>1. CASE s \in caller[c].outdated
        BY <2>1, <2>3, <3>1, <4>1 DEF InHand, RowKnows
      <4>2. CASE s \notin caller[c].outdated
        BY <3>1, <4>2 DEF InHand
      <4>3. QED
        BY <4>1, <4>2
    <3>4. QED
      BY <1>1, <3>1, <3>2, <3>3 DEF RowKnows, Known, onMarket
  <2>4. ASSUME NEW s \in Subtasks \ excused'
        PROVE  status # "planned"
    BY <1>1, <2>3, <2>4 DEF Alone, holds
  <2>5. status \in {"planned", "posted", "completed"} /\ (status = "planned" => row.status = "planned")
    BY <1>1
  <2> HIDE DEF status, sub
  <2>6. QED
    BY <1>1, <1>2, <2>1, <2>2, <2>3, <2>4, <2>5, WriterTurn
<1>4. CASE ~written
  <2>1. Leave(c, lease \ {"tick"}) /\ UNCHANGED <<row, excused>>
    BY <1>4 DEF Save
  <2>2. Excuses /\ caller' = [caller EXCEPT ![c] = Idle] /\ lease' \subseteq Kinds
    BY <1>1, <2>1 DEF Excuses, Tables, Leave, Set
  <2>3. ASSUME NEW s \in Subtasks \ excused'
        PROVE  RowKnows(s)'
    <3>1. InHand(c, s) /\ escrows(s)' = escrows(s) /\ ~InWave(c, s)
      BY <1>2, <2>2, <2>3
    <3>2. RowKnows(s)
      BY <1>1, <1>4, <3>1 DEF InHand, RowKnows
    <3>3. QED
      BY <1>1, <2>1, <3>1, <3>2 DEF RowKnows, Known, onMarket
  <2>4. (~(Subtasks \subseteq excused')) => Sent(c)'
    BY <2>2, IdleState DEF Sent, Inv, Tables
  <2>5. QED
    BY <1>1, <1>2, <2>1, <2>2, <2>3, <2>4, IdleState, HolderTurn
<1>5. QED
  BY <1>3, <1>4

(* What a dead invocation had not saved is lost, and excused.               *)
LEMMA DieStep ==
    ASSUME Inv, NEW c \in Callers, Die(c)
    PROVE  Inv'
<1> DEFINE unsaved == {s \in Subtasks : \/ caller[c].sub[s].hash # row.sub[s].hash
                                        \/ caller[c].pc = "sent" /\ s \in ToSet(caller[c].wave)}
<1>1. /\ Tables /\ holds(c) /\ UNCHANGED <<row, jobs>> /\ jobs' \in Seq(Job)
      /\ excused' = excused \cup unsaved
  BY DEF Die, Inv, Tables, Excuse
<1>2. Excuses /\ caller' = [caller EXCEPT ![c] = Idle] /\ lease' \subseteq Kinds
  BY <1>1 DEF Excuses, Tables, Die, Leave, Set
<1>3. ASSUME NEW s \in Subtasks \ excused'
      PROVE  (\A g, h \in escrows(s)' : g = h) /\ RowKnows(s)'
  <2>1. Tracked(s) /\ InHand(c, s) /\ escrows(s)' = escrows(s)
    BY <1>1, <1>3 DEF Inv, Tracked, escrows
  <2>2. caller[c].sub[s].hash = row.sub[s].hash /\ ~InWave(c, s)
    BY <1>1, <1>3 DEF InWave
  <2>3. RowKnows(s)
    BY <2>1, <2>2 DEF InHand, RowKnows, Known
  <2>4. QED
    BY <1>1, <2>1, <2>3 DEF RowKnows, Known, onMarket, Tracked
<1>4. Sent(c)'
  BY <1>2, IdleState DEF Sent, Inv, Tables
<1>5. QED
  BY <1>1, <1>2, <1>3, <1>4, IdleState, HolderTurn

-----------------------------------------------------------------------------

LEMMA InitInv == Init => Inv
<1> SUFFICES ASSUME Init PROVE Inv
  OBVIOUS
<1>1. /\ Blank \in [Subtasks -> Record] /\ \A s \in Subtasks : Blank[s].hash = NONE
      /\ row.sub = Blank /\ row.status = "planned" /\ jobs = <<>> /\ excused = {}
      /\ \A c \in Callers : caller[c] = Idle
  BY DEF Init, Blank, Record, NONE
<1>2. Idle \in State /\ Idle.pc = "idle"
  BY IdleState
<1>3. Tables
  BY <1>1, <1>2 DEF Init, Tables
<1>4. Orderly
  BY <1>1, <1>2 DEF Orderly, Alone, Sent, holds
<1>5. \A s \in Subtasks : escrows(s) = {}
  BY <1>1 DEF escrows
<1>6. \A s \in Subtasks : Tracked(s)
  BY <1>1, <1>2, <1>5 DEF Tracked, RowKnows, holds
<1>7. QED
  BY <1>3, <1>4, <1>6 DEF Inv

LEMMA StutterInv == Inv /\ UNCHANGED vars => Inv'
<1> SUFFICES ASSUME Inv, UNCHANGED vars PROVE Inv'
  OBVIOUS
<1>1. UNCHANGED <<row, jobs, lease, caller, excused>>
  BY DEF vars
<1>2. Excuses /\ jobs' \in Seq(Job) /\ Grows /\ NoNewEscrow /\ \A c \in Callers : Sent(c) => Sent(c)'
  BY <1>1 DEF Inv, Tables, Excuses, Grows, NoNewEscrow, escrows, onMarket, Sent
<1>3. QED
  BY <1>1, <1>2, JobsMove

LEMMA StepInv == Inv /\ [Next]_vars => Inv'
<1> SUFFICES ASSUME Inv, [Next]_vars PROVE Inv'
  OBVIOUS
<1>1. CASE UNCHANGED vars
  BY <1>1, StutterInv
<1>2. ASSUME NEW c \in Callers, Read(c) PROVE Inv'
  BY <1>2, ReadStep
<1>3. ASSUME NEW c \in Callers, Advance(c) PROVE Inv'
  <2>1. CASE acquireOpsLease(c)
    BY <2>1, AcquireStep
  <2>2. CASE PostWave(c)
    BY <2>2, PostWaveStep
  <2>3. CASE PostDependent(c)
    BY <2>3, PostDependentStep
  <2>4. CASE afterSubtaskPost(c)
    BY <2>4, AfterPostStep
  <2>5. CASE FinishConfirm(c)
    BY <2>5, FinishConfirmStep
  <2>6. CASE Grade(c)
    BY <2>6, GradeStep
  <2>7. CASE Save(c)
    BY <2>7, SaveStep
  <2>8. QED
    BY <1>3, <2>1, <2>2, <2>3, <2>4, <2>5, <2>6, <2>7 DEF Advance
<1>4. ASSUME NEW c \in Callers, PostThrows(c) PROVE Inv'
  BY <1>4, PostThrowsStep
<1>5. ASSUME NEW c \in Callers, Die(c) PROVE Inv'
  BY <1>5, DieStep
<1>6. ASSUME NEW h \in DOMAIN jobs, Land(h) \/ Market(h) \/ Return(h) \/ Repost(h) PROVE Inv'
  BY <1>6, MarketMoves
<1>7. ASSUME NEW k \in Kinds, Expire(k) PROVE Inv'
  BY <1>7, ExpireStep
<1>8. QED
  BY <1>1, <1>2, <1>3, <1>4, <1>5, <1>6, <1>7 DEF Next

(* Whatever the plan, however many invocations and mishaps: a subtask that  *)
(* is escrowed twice is excused, by a row that was written since it was     *)
(* read, by a lease outlived, by a post whose outcome nobody can say, by a  *)
(* death, or by a view of the market that did not show the first escrow     *)
(* (postDelegationJobs, tickDelegation).                                    *)
THEOREM DelegationTwiceOnlyIfExcused == Spec => []TwiceOnlyIfExcused
<1>1. Inv => TwiceOnlyIfExcused
  <2> SUFFICES ASSUME Inv, NEW s \in Subtasks \ excused PROVE ~(Cardinality(escrows(s)) > 1)
    BY DEF TwiceOnlyIfExcused
  <2>1. \A g, h \in escrows(s) : g = h
    BY DEF Inv, Tracked
  <2>2. CASE escrows(s) = {}
    BY <2>2, FS_EmptySet
  <2>3. CASE escrows(s) # {}
    <3>1. PICK h \in escrows(s) : TRUE
      BY <2>3
    <3>2. escrows(s) = {h}
      BY <2>1, <3>1
    <3>3. Cardinality({h}) = 1
      BY FS_Singleton
    <3>4. QED
      BY <3>2, <3>3
  <2>4. QED
    BY <2>2, <2>3
<1>2. QED
  BY InitInv, StepInv, <1>1, PTL DEF Spec
=============================================================================
