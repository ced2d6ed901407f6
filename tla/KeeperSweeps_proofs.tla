------------------------- MODULE KeeperSweeps_proofs -------------------------
(***************************************************************************)
(* What the dispute gate publishes, for any number of jobs, invocations,   *)
(* deaths and lost calls, and for every order of everybody's steps.        *)
(***************************************************************************)
EXTENDS KeeperSweeps, TLAPS

Sent(j) == status[j] = "Refunded" \/ j \in mempool \cup lost

(* Between the refund and its ruling: the refund has been sent.             *)
Recording(c, j) == cycle[c].pc = "record" /\ current(c) = j
SentBeforeRuled == \A c \in Cycles, j \in Jobs \cap RefundDue : Recording(c, j) => Sent(j)

Invocation(r) == r = [pc |-> r.pc, step |-> r.step, todo |-> r.todo, ruled |-> r.ruled, life |-> r.life]
Cycling == cycle = [c \in Cycles |-> cycle[c]] /\ \A c \in Cycles : Invocation(cycle[c])
Standing == status = [j \in Jobs |-> status[j]]
Shape == Standing /\ Cycling

Inv == Shape /\ SentBeforeRuled /\ RulingsWereSent

(* A refund that was sent is mined, comes to nothing, or is still on its    *)
(* way; a job that was refunded stays refunded.                             *)
LEMMA SentStays ==
    ASSUME Shape, Next, NEW j \in Jobs, Sent(j)
    PROVE  Sent(j)'
<1>1. CASE \E k \in Jobs : Lapse(k) \/ Parties(k) \/ Stranger(k) \/ Mine(k) \/ Drop(k)
  <2> SUFFICES ASSUME NEW k \in Jobs, Lapse(k) \/ Parties(k) \/ Stranger(k) \/ Mine(k) \/ Drop(k)
               PROVE  Sent(j)'
    BY <1>1
  <2>1. CASE Lapse(k)
    BY <2>1 DEF Lapse, Sent
  <2>2. CASE Parties(k)
    BY <2>2 DEF Parties, Leave, Sent, Shape, Standing
  <2>3. CASE Stranger(k)
    BY <2>3 DEF Stranger, callExit, Leave, Sent, Shape, Standing
  <2>4. CASE Mine(k)
    BY <2>4 DEF Mine, Leave, Chain, Sent, Shape, Standing
  <2>5. CASE Drop(k)
    BY <2>5 DEF Drop, Chain, Sent
  <2>6. QED
    BY <2>1, <2>2, <2>3, <2>4, <2>5
<1>2. CASE \E c \in Cycles : Begin(c) \/ Advance(c) \/ Skip(c) \/ CallFails(c) \/ Crash(c)
  <2> SUFFICES ASSUME NEW c \in Cycles, Begin(c) \/ Advance(c) \/ Skip(c) \/ CallFails(c) \/ Crash(c)
               PROVE  Sent(j)'
    BY <1>2
  <2>1. CASE CallExit(c)
    BY <2>1 DEF CallExit, callExit, Leave, Chain, Sent, Shape, Standing
  <2>2. CASE Rule(c)
    BY <2>2 DEF Rule, Chain, Sent
  <2>3. CASE Withdraw(c)
    BY <2>3 DEF Withdraw, Sent
  <2>4. CASE acquireOpsLease(c) \/ releaseOpsLease(c)
    BY <2>4 DEF acquireOpsLease, releaseOpsLease, Chain, Sent
  <2>5. CASE ReadDeadlines(c) \/ ReadBalances(c) \/ ReadDisputes(c)
    BY <2>5 DEF ReadDeadlines, ReadBalances, ReadDisputes, Chain, Sent
  <2>6. CASE RecordRuling(c)
    BY <2>6 DEF RecordRuling, Chain, Sent
  <2>7. CASE Begin(c) \/ Skip(c) \/ CallFails(c) \/ Crash(c)
    BY <2>7 DEF Begin, Skip, CallFails, Crash, Chain, Sent
  <2>8. QED
    BY <2>1, <2>2, <2>3, <2>4, <2>5, <2>6, <2>7 DEF Advance
<1>3. CASE Tick
  BY <1>3 DEF Tick, Chain, Sent
<1>4. QED
  BY <1>1, <1>2, <1>3 DEF Next

(* What the assignments to one invocation do.                               *)
OnlyOf(c) == Cycling' /\ \A d \in Cycles \ {c} : cycle'[d] = cycle[d]

LEMMA Assigned ==
    ASSUME Cycling, NEW c \in Cycles, NEW r, Invocation(r), cycle' = [cycle EXCEPT ![c] = r]
    PROVE  OnlyOf(c) /\ cycle'[c] = r
BY DEF Cycling, OnlyOf

LEMMA FieldsAssigned ==
    ASSUME Cycling, NEW c \in Cycles, NEW label, NEW todo, NEW n,
           \/ cycle' = [cycle EXCEPT ![c].pc = label]
           \/ cycle' = [cycle EXCEPT ![c].pc = label, ![c].todo = todo]
           \/ cycle' = [cycle EXCEPT ![c].pc = label, ![c].ruled = n]
           \/ cycle' = [cycle EXCEPT ![c].pc = label, ![c].todo = todo, ![c].ruled = n]
    PROVE  OnlyOf(c) /\ cycle'[c].pc = label
<1> DEFINE old == cycle[c]
           new(t, m) == [pc |-> label, step |-> old.step, todo |-> t, ruled |-> m, life |-> old.life]
<1>1. old = [pc |-> old.pc, step |-> old.step, todo |-> old.todo, ruled |-> old.ruled, life |-> old.life]
  BY DEF Cycling, Invocation
<1>2. \A t, m : Invocation(new(t, m))
  BY DEF Invocation
<1>3. cycle'[c] \in {new(old.todo, old.ruled), new(todo, old.ruled), new(old.todo, n), new(todo, n)}
  BY <1>1 DEF Cycling
<1>4. QED
  BY <1>2, <1>3 DEF Cycling, OnlyOf

(* One invocation's step is its own, and only a ruling leads to a record.   *)
LEMMA OneInvocation ==
    ASSUME Shape, NEW c \in Cycles,
           Begin(c) \/ Advance(c) \/ Skip(c) \/ CallFails(c) \/ Crash(c)
    PROVE  /\ Shape'
           /\ OnlyOf(c)
           /\ cycle'[c].pc = "record" => Rule(c) /\ current(c)' = current(c)
<1> DEFINE Ends == OnlyOf(c) /\ cycle'[c].pc # "record"
           Goal == /\ Shape' /\ OnlyOf(c)
                   /\ cycle'[c].pc = "record" => Rule(c) /\ current(c)' = current(c)
<1>0. Cycling /\ Standing
  BY DEF Shape
<1>y. ASSUME status' = status  PROVE  Standing'
  BY <1>0, <1>y DEF Standing
<1>z. ASSUME Ends, Standing'  PROVE  Goal
  BY <1>z DEF OnlyOf, Shape
<1>a. ASSUME NEW entry \in {nextEntry(c), afterFailure(c)}, Move(c, entry)  PROVE  Ends
  <2>1. entry.pc # "record"
    BY <1>a DEF nextEntry, afterFailure
  <2>2. QED
    BY <1>0, <1>a, <2>1, FieldsAssigned DEF Move
<1>b. ASSUME NEW n, Ruled(c, n)  PROVE  Ends
  <2>1. afterRuling(c, n).pc # "record"
    BY DEF afterRuling, nextEntry
  <2>2. QED
    BY <1>0, <1>b, <2>1, FieldsAssigned DEF Ruled
<1>c. ASSUME NEW r \in {Idle, nextStep(c)}, Become(c, r)  PROVE  Ends
  <2>1. Invocation(r) /\ r.pc # "record"
    <3>1. CASE r = Idle
      BY <3>1 DEF Invocation, Idle
    <3>2. CASE r = nextStep(c) /\ cycle[c].step # Len(Steps)
      <4>1. r = [pc |-> "lease", step |-> cycle[c].step + 1, todo |-> <<>>, ruled |-> 0, life |-> cycle[c].life]
        BY <3>2 DEF nextStep, Idle
      <4>2. QED
        BY <4>1 DEF Invocation
    <3>3. QED
      BY <3>1, <3>2, r \in {Idle, nextStep(c)} DEF nextStep
  <2>2. QED
    BY <1>0, <1>c, <2>1, Assigned DEF Become
<1>d. ASSUME NEW label, label # "record", Goto(c, label)  PROVE  Ends
  BY <1>0, <1>d, FieldsAssigned DEF Goto
<1>e. ASSUME NEW batch, startPass(c, batch)  PROVE  Ends
  <2> DEFINE label == IF batch = <<>> THEN "release" ELSE "work"
  <2>1. cycle' = [cycle EXCEPT ![c].pc = label, ![c].todo = batch]
    BY <1>e DEF startPass, Move
  <2>2. label # "record"
    OBVIOUS
  <2> HIDE DEF label
  <2>3. QED
    BY <1>0, <2>1, <2>2, FieldsAssigned
<1> HIDE DEF Ends
<1>1. CASE Begin(c)
  <2>1. Ends
    BY <1>1, <1>d DEF Begin, Chain
  <2>2. status' = status
    BY <1>1 DEF Begin, Chain
  <2>3. QED
    BY <1>y, <1>z, <2>1, <2>2
<1>2. CASE acquireOpsLease(c)
  <2>1. Ends
    BY <1>2, <1>c, <1>d DEF acquireOpsLease, Chain
  <2>2. status' = status
    BY <1>2 DEF acquireOpsLease, Chain
  <2>3. QED
    BY <1>y, <1>z, <2>1, <2>2
<1>3. CASE releaseOpsLease(c)
  <2>1. Ends
    BY <1>3, <1>c DEF releaseOpsLease, Chain
  <2>2. status' = status
    BY <1>3 DEF releaseOpsLease, Chain
  <2>3. QED
    BY <1>y, <1>z, <2>1, <2>2
<1>4. CASE ReadDeadlines(c)
  <2>1. Ends
    BY <1>4, <1>e DEF ReadDeadlines, Chain
  <2>2. status' = status
    BY <1>4 DEF ReadDeadlines, Chain
  <2>3. QED
    BY <1>y, <1>z, <2>1, <2>2
<1>5. CASE CallExit(c)
  <2>1. Ends
    BY <1>5, <1>a DEF CallExit
  <2>2. Standing'
    BY <1>0, <1>5 DEF CallExit, Leave, Chain, Standing
  <2>3. QED
    BY <1>z, <2>1, <2>2
<1>6. CASE ReadBalances(c)
  <2>1. Ends
    BY <1>6, <1>e DEF ReadBalances, Chain
  <2>2. status' = status
    BY <1>6 DEF ReadBalances, Chain
  <2>3. QED
    BY <1>y, <1>z, <2>1, <2>2
<1>7. CASE Withdraw(c)
  <2>1. Ends
    BY <1>7, <1>a DEF Withdraw
  <2>2. status' = status
    BY <1>7 DEF Withdraw
  <2>3. QED
    BY <1>y, <1>z, <2>1, <2>2
<1>8. CASE ReadDisputes(c)
  <2>1. Ends
    BY <1>8, <1>e DEF ReadDisputes, Chain
  <2>2. status' = status
    BY <1>8 DEF ReadDisputes, Chain
  <2>3. QED
    BY <1>y, <1>z, <2>1, <2>2
<1>9. CASE Rule(c)
  <2>1. status' = status
    BY <1>9 DEF Rule, Chain
  <2>2. CASE \E n : Ruled(c, n)
    BY <1>b, <1>y, <1>z, <2>1, <2>2
  <2>3. CASE cycle' = [cycle EXCEPT ![c].pc = "record", ![c].ruled = cycle[c].ruled + 1]
    <3>1. OnlyOf(c)
      BY <1>0, <2>3, FieldsAssigned
    <3>2. cycle'[c].todo = cycle[c].todo
      BY <1>0, <2>3 DEF Cycling, Invocation
    <3>3. QED
      BY <1>9, <1>y, <2>1, <3>1, <3>2 DEF OnlyOf, current, Shape
  <2>4. QED
    BY <1>9, <2>2, <2>3 DEF Rule
<1>10. CASE RecordRuling(c)
  <2>1. Ends
    BY <1>10, <1>b DEF RecordRuling, Chain, OnlyOf
  <2>2. status' = status
    BY <1>10 DEF RecordRuling, Chain, OnlyOf
  <2>3. QED
    BY <1>y, <1>z, <2>1, <2>2
<1>11. CASE Skip(c)
  <2>1. Ends
    BY <1>11, <1>c DEF Skip, Chain
  <2>2. status' = status
    BY <1>11 DEF Skip, Chain
  <2>3. QED
    BY <1>y, <1>z, <2>1, <2>2
<1>12. CASE CallFails(c)
  <2>1. Ends
    BY <1>12, <1>a, <1>b, <1>c DEF CallFails, Chain
  <2>2. status' = status
    BY <1>12 DEF CallFails, Chain
  <2>3. QED
    BY <1>y, <1>z, <2>1, <2>2
<1>13. CASE Crash(c)
  <2>1. Ends
    BY <1>13, <1>c DEF Crash, Chain
  <2>2. status' = status
    BY <1>13 DEF Crash, Chain
  <2>3. QED
    BY <1>y, <1>z, <2>1, <2>2
<1>14. QED
  BY <1>1, <1>2, <1>3, <1>4, <1>5, <1>6, <1>7, <1>8, <1>9, <1>10, <1>11, <1>12, <1>13 DEF Advance

(* Everything else leaves the invocations where they are.                   *)
LEMMA OtherSteps ==
    ASSUME Shape, Tick \/ \E k \in Jobs : Lapse(k) \/ Parties(k) \/ Stranger(k) \/ Mine(k) \/ Drop(k)
    PROVE  /\ Shape'
           /\ \A c \in Cycles : cycle'[c].pc = "record" => cycle[c].pc = "record" /\ current(c)' = current(c)
<1>1. CASE Tick
  <2> DEFINE aged(c) == IF cycle[c].pc = "idle" THEN Idle ELSE [cycle[c] EXCEPT !.life = @ + 1]
  <2>1. cycle' = [c \in Cycles |-> aged(c)] /\ status' = status
    BY <1>1 DEF Tick, Chain
  <2>2. ASSUME NEW c \in Cycles
        PROVE  Invocation(aged(c)) /\ (aged(c).pc = "record" => cycle[c].pc = "record" /\ aged(c).todo = cycle[c].todo)
    <3>1. CASE cycle[c].pc = "idle"
      BY <3>1 DEF Idle, Invocation
    <3>2. CASE cycle[c].pc # "idle"
      <4> DEFINE r == cycle[c]
      <4>1. r = [pc |-> r.pc, step |-> r.step, todo |-> r.todo, ruled |-> r.ruled, life |-> r.life]
        BY DEF Shape, Cycling, Invocation
      <4>2. aged(c) = [pc |-> r.pc, step |-> r.step, todo |-> r.todo, ruled |-> r.ruled, life |-> r.life + 1]
        BY <3>2, <4>1
      <4>3. QED
        BY <4>2 DEF Invocation
    <3>3. QED
      BY <3>1, <3>2
  <2> HIDE DEF aged
  <2>3. QED
    BY <2>1, <2>2 DEF Shape, Standing, Cycling, current
<1>2. CASE \E k \in Jobs : Lapse(k) \/ Parties(k) \/ Stranger(k) \/ Mine(k) \/ Drop(k)
  <2>1. cycle' = cycle
    BY <1>2 DEF Lapse, Parties, Stranger, Mine, Drop
  <2>2. Standing'
    BY <1>2 DEF Lapse, Parties, Stranger, Mine, Drop, Leave, Chain, Shape, Standing
  <2>3. QED
    BY <2>1, <2>2 DEF Shape, Standing, Cycling, current
<1>3. QED
  BY <1>1, <1>2

(* A ruling that refunds is recorded only when its refund has been sent.    *)
LEMMA SentBeforeRuledStays ==
    ASSUME Inv, Next
    PROVE  SentBeforeRuled'
<1> SUFFICES ASSUME NEW c \in Cycles, NEW j \in Jobs \cap RefundDue, Recording(c, j)'
             PROVE  Sent(j)'
  BY DEF SentBeforeRuled
<1>1. ASSUME Recording(c, j)  PROVE  Sent(j)'
  BY <1>1, SentStays DEF Inv, SentBeforeRuled
<1>2. CASE \E d \in Cycles : Begin(d) \/ Advance(d) \/ Skip(d) \/ CallFails(d) \/ Crash(d)
  <2> PICK d \in Cycles : Begin(d) \/ Advance(d) \/ Skip(d) \/ CallFails(d) \/ Crash(d)
    BY <1>2
  <2>1. CASE d # c
    <3>1. cycle'[c] = cycle[c]
      BY <2>1, OneInvocation DEF Inv, OnlyOf
    <3>2. QED
      BY <3>1, <1>1 DEF Recording, current
  <2>2. CASE d = c
    <3>1. Rule(c) /\ current(c) = j
      BY <2>2, OneInvocation DEF Inv, Recording
    <3>2. cycle'[c].pc = "record"
      BY DEF Recording
    <3>3. ASSUME NEW n  PROVE  ~Ruled(c, n)
      <4>1. afterRuling(c, n).pc # "record"
        BY DEF afterRuling, nextEntry
      <4>2. QED
        BY <3>2, <4>1, FieldsAssigned DEF Ruled, Inv, Shape
    <3>4. QED
      BY <3>1, <3>3 DEF Rule, Sent
  <2>3. QED
    BY <2>1, <2>2
<1>3. CASE Tick \/ \E k \in Jobs : Lapse(k) \/ Parties(k) \/ Stranger(k) \/ Mine(k) \/ Drop(k)
  <2>1. Recording(c, j)
    BY <1>3, OtherSteps DEF Inv, Recording
  <2>2. QED
    BY <2>1, <1>1
<1>4. QED
  BY <1>2, <1>3 DEF Next

(* Rulings are only ever added, by the one statement that records them.     *)
LEMMA RulingsStay ==
    ASSUME Inv, Next
    PROVE  RulingsWereSent'
<1> SUFFICES ASSUME NEW j \in Jobs, <<j, "refund">> \in rulings'
             PROVE  Sent(j)'
  BY DEF RulingsWereSent, Sent
<1>1. CASE <<j, "refund">> \in rulings
  <2>1. Sent(j)
    BY <1>1 DEF Inv, RulingsWereSent, Sent
  <2>2. QED
    BY <2>1, SentStays DEF Inv
<1>2. CASE <<j, "refund">> \notin rulings
  <2>1. PICK c \in Cycles : RecordRuling(c)
    BY <1>2 DEF Next, Lapse, Parties, Stranger, Mine, Drop, Tick, Begin, Skip, CallFails, Crash, Advance,
                acquireOpsLease, releaseOpsLease, ReadDeadlines, CallExit, ReadBalances, Withdraw,
                ReadDisputes, Rule
  <2>2. j = current(c) /\ j \in RefundDue /\ cycle[c].pc = "record"
    BY <1>2, <2>1 DEF RecordRuling, At
  <2>3. Sent(j)
    BY <2>2 DEF Inv, SentBeforeRuled, Recording
  <2>4. QED
    BY <2>3, SentStays DEF Inv
<1>3. QED
  BY <1>1, <1>2

(* A published refund happened, is on its way, or was sent and came to      *)
(* nothing: no death, lost write, reverted call or other party's step makes *)
(* a ruling of a refund that nobody sent.                                   *)
THEOREM PublishedRefunds == Spec => []RulingsWereSent
<1>1. Init => Inv
  <2> SUFFICES ASSUME Init  PROVE  Inv
    OBVIOUS
  <2>1. Standing
    BY DEF Init, Standing
  <2>2. Invocation(Idle) /\ Idle.pc # "record"
    BY DEF Invocation, Idle
  <2>3. cycle = [c \in Cycles |-> Idle] /\ rulings = {}
    BY DEF Init
  <2>4. QED
    BY <2>1, <2>2, <2>3 DEF Inv, Shape, Cycling, SentBeforeRuled, Recording, RulingsWereSent
<1>2. Inv /\ [Next]_vars => Inv'
  <2> SUFFICES ASSUME Inv, [Next]_vars
               PROVE  Inv'
    OBVIOUS
  <2>1. CASE UNCHANGED vars
    BY <2>1 DEF vars, Inv, Shape, Standing, Cycling, SentBeforeRuled, Recording, current, RulingsWereSent, Sent
  <2>2. CASE Next
    <3>1. Shape'
      BY <2>2, OneInvocation, OtherSteps DEF Next, Inv
    <3>2. QED
      BY <2>2, <3>1, SentBeforeRuledStays, RulingsStay DEF Inv
  <2>3. QED
    BY <2>1, <2>2
<1>3. Inv => RulingsWereSent
  BY DEF Inv
<1>4. QED
  BY <1>1, <1>2, <1>3, PTL DEF Spec
=============================================================================
