-------------------------- MODULE PriceRaise_proofs --------------------------
(***************************************************************************)
(* A replacement is escrowed only behind a refund: for any number of jobs, *)
(* sweeps, resuming passes, deaths, and operations that are late, dropped  *)
(* or mined in vain, whatever the leases and the ages.                     *)
(*                                                                         *)
(* "What n replaces gave its escrow back" cannot become false, so it is    *)
(* carried along: from the cancel, or from the read of the chain, to the   *)
(* invocation that goes on to post, to the operation it sends, and to the  *)
(* job that is made of it.                                                 *)
(*                                                                         *)
(* From it follows that a piece of work has one live posting, unless it was *)
(* doubled in one of three ways: the rows that go back to one posting are a *)
(* line as long as none of them is raised twice, and of a line only the end *)
(* can be live.                                                            *)
(***************************************************************************)
EXTENDS PriceRaise, TLAPS

Final == {"Cancelled", "Refunded"}
GaveBack(n, ch) == \E id \in DOMAIN ch : ch[id].spec = n /\ ch[id].status \in Final

(* Row n may be posted: it replaces nothing, or what it replaces gave its   *)
(* escrow back, or its cancel was mined in vain.                            *)
Backed(n, rw, ch, vn) ==
    /\ n \in DOMAIN rw
    /\ rw[n].parent = 0 \/ GaveBack(rw[n].parent, ch) \/ n \in vn
Linked(n, rw) == n \in DOMAIN rw /\ rw[n].jobId # 0

Shape(r) == r = [pc |-> r.pc, todo |-> r.todo, row |-> r.row, seen |-> r.seen, links |-> r.links,
                 tries |-> r.tries, waited |-> r.waited, life |-> r.life]

(* What an invocation read of the chain and of the links was so.            *)
SeenOk(r, ch) ==
    \A id \in DOMAIN r.seen :
        /\ id \in DOMAIN ch /\ ch[id].spec = r.seen[id].spec
        /\ r.seen[id].status \in Final => ch[id].status \in Final
LinksOk(r, ch) ==
    \A n \in DOMAIN r.links : r.links[n] # 0 => r.links[n] \in DOMAIN ch /\ ch[r.links[n]].spec = n

(* A sweep works through linked rows, a resuming pass through rows whose    *)
(* parents' links it has read; what it is to post is backed.                *)
Sweeping == {"sweep", "cancel", "cancelling", "link"}
Resuming == {"read", "parents", "resume"}
Raises(p, r, rw, ch, vn) ==
    /\ r.pc \in Sweeping => p \in Sweeps
    /\ r.pc \in Resuming => p \notin Sweeps
    /\ r.todo \subseteq DOMAIN rw
    /\ p \in Sweeps => \A n \in r.todo : rw[n].jobId # 0
    /\ p \notin Sweeps => \A n \in r.todo : rw[n].parent \in DOMAIN rw
    /\ p \notin Sweeps /\ r.pc \notin {"idle", "read", "parents"} =>
          \A n \in r.todo : rw[n].parent \in DOMAIN r.links
    /\ r.pc \in {"cancel", "cancelling"} => r.row \in DOMAIN rw /\ Linked(rw[r.row].parent, rw)
    /\ r.pc \in {"post", "posting"} => Backed(r.row, rw, ch, vn)
Invocation(p, r, rw, ch, vn) ==
    Shape(r) /\ SeenOk(r, ch) /\ LinksOk(r, ch) /\ Raises(p, r, rw, ch, vn)

(* An operation on its way.                                                 *)
Operation(o, rw, ch, vn) ==
    /\ o.kind = "post" => Backed(o.row, rw, ch, vn)
    /\ o.kind = "cancel" => /\ o.row \in DOMAIN rw /\ o.job \in DOMAIN ch
                            /\ ch[o.job].spec = rw[o.row].parent
Awaited(o, r) == r.row = o.row /\ r.pc = IF o.kind = "cancel" THEN "cancelling" ELSE "posting"

RowSet == [parent : Nat, jobId : Nat, age : Int]
Statuses == Moves \cup {"Open", "Cancelled"}
JobSet == [spec : Nat, status : Statuses]
OpSet == [kind : {"cancel", "post"}, job : Nat, row : Nat, by : Proc \cup {Nobody}]

Typed == rows \in Seq(RowSet) /\ chain \in Seq(JobSet) /\ mempool \in Seq(OpSet)
Tables ==
    /\ \A n \in DOMAIN rows : rows[n].jobId # 0 =>
          rows[n].jobId \in DOMAIN chain /\ chain[rows[n].jobId].spec = n
    /\ \A n \in DOMAIN rows : rows[n].parent # 0 => rows[n].parent \in DOMAIN rows
    /\ \A id \in DOMAIN chain : Backed(chain[id].spec, rows, chain, vain)
Invocations ==
    /\ proc = [p \in Proc |-> proc[p]]
    /\ \A p \in Proc : Invocation(p, proc[p], rows, chain, vain)
Operations ==
    /\ \A i \in DOMAIN mempool :
          /\ Operation(mempool[i], rows, chain, vain)
          /\ mempool[i].by # Nobody => Awaited(mempool[i], proc[mempool[i].by])
    /\ \A i, j \in DOMAIN mempool : i # j => mempool[i].by # mempool[j].by \/ mempool[i].by = Nobody

Ready == Typed /\ Tables /\ Invocations
Inv == Ready /\ Operations

(* Nothing that was recorded is taken back.                                 *)
Grows ==
    /\ \A n \in DOMAIN rows : /\ n \in DOMAIN rows' /\ rows'[n].parent = rows[n].parent
                              /\ rows[n].jobId # 0 => rows'[n].jobId # 0
    /\ \A id \in DOMAIN chain : /\ id \in DOMAIN chain' /\ chain'[id].spec = chain[id].spec
                                /\ chain[id].status \in Final => chain'[id].status \in Final
    /\ vain \subseteq vain'

Turn(p, r) == proc' = [proc EXCEPT ![p] = r] /\ Invocation(p, r, rows', chain', vain')

-----------------------------------------------------------------------------
LEMMA RemoveAtIs ==
    ASSUME NEW S, NEW s \in Seq(S), NEW i \in 1..Len(s)
    PROVE  /\ RemoveAt(s, i) \in Seq(S)
           /\ Len(RemoveAt(s, i)) = Len(s) - 1
           /\ \A k \in 1..Len(s) - 1 : RemoveAt(s, i)[k] = IF k < i THEN s[k] ELSE s[k + 1]
<1> DEFINE a == SubSeq(s, 1, i - 1)
           b == SubSeq(s, i + 1, Len(s))
<1>1. Len(s) \in Nat /\ i \in Nat /\ i >= 1 /\ i <= Len(s)
  OBVIOUS
<1>2. a \in Seq(S) /\ Len(a) = i - 1 /\ \A k \in 1..i - 1 : a[k] = s[k]
  BY <1>1
<1>3. b \in Seq(S) /\ Len(b) = Len(s) - i /\ \A k \in 1..Len(s) - i : b[k] = s[i + k]
  BY <1>1
<1> HIDE DEF a, b
<1>4. /\ a \o b \in Seq(S) /\ Len(a \o b) = Len(a) + Len(b)
      /\ \A k \in 1..Len(a) + Len(b) : (a \o b)[k] = IF k <= Len(a) THEN a[k] ELSE b[k - Len(a)]
  <2>1. a \in Seq(S) /\ b \in Seq(S)
    BY <1>2, <1>3
  <2> QED
    BY <2>1
<1>5. ASSUME NEW k \in 1..Len(s) - 1
      PROVE  (a \o b)[k] = IF k < i THEN s[k] ELSE s[k + 1]
  <2>1. CASE k < i
    BY <1>1, <1>2, <1>4, <2>1
  <2>2. CASE ~(k < i)
    <3> DEFINE m == k - Len(a)
    <3>1. m \in 1..Len(s) - i /\ i + m = k + 1 /\ k \in 1..Len(a) + Len(b) /\ ~(k <= Len(a))
      BY <1>1, <1>2, <1>3, <2>2
    <3>2. (a \o b)[k] = b[m]
      BY <1>4, <3>1
    <3> HIDE DEF m
    <3>3. b[m] = s[i + m]
      BY <1>3, <3>1
    <3> QED
      BY <2>2, <3>1, <3>2, <3>3
  <2> QED
    BY <2>1, <2>2
<1>6. Len(a) + Len(b) = Len(s) - 1
  BY <1>1, <1>2, <1>3
<1> QED
  BY <1>4, <1>5, <1>6 DEF RemoveAt, a, b

(* A step overlays a record with its changes.                               *)
Overlay(r, changes) ==
    [pc |-> IF "pc" \in DOMAIN changes THEN changes.pc ELSE r.pc,
     todo |-> IF "todo" \in DOMAIN changes THEN changes.todo ELSE r.todo,
     row |-> IF "row" \in DOMAIN changes THEN changes.row ELSE r.row,
     seen |-> IF "seen" \in DOMAIN changes THEN changes.seen ELSE r.seen,
     links |-> IF "links" \in DOMAIN changes THEN changes.links ELSE r.links,
     tries |-> IF "tries" \in DOMAIN changes THEN changes.tries ELSE r.tries,
     waited |-> IF "waited" \in DOMAIN changes THEN changes.waited ELSE r.waited,
     life |-> IF "life" \in DOMAIN changes THEN changes.life ELSE r.life]

LEMMA StepIs ==
    ASSUME NEW r, Shape(r), NEW changes
    PROVE  [f \in DOMAIN r |-> IF f \in DOMAIN changes THEN changes[f] ELSE r[f]] = Overlay(r, changes)
BY DEF Shape, Overlay

(* What holds of an invocation or an operation goes on to hold.             *)
LEMMA BackedStays ==
    ASSUME Grows, NEW n, Backed(n, rows, chain, vain)
    PROVE  Backed(n, rows', chain', vain')
BY DEF Grows, Backed, GaveBack

LEMMA InvocationStays ==
    ASSUME Grows, NEW p, NEW r, Invocation(p, r, rows, chain, vain)
    PROVE  Invocation(p, r, rows', chain', vain')
<1>1. Shape(r) /\ SeenOk(r, chain') /\ LinksOk(r, chain')
  BY DEF Invocation, SeenOk, LinksOk, Grows
<1>2. Backed(r.row, rows, chain, vain) => Backed(r.row, rows', chain', vain')
  BY BackedStays
<1>3. r.row \in DOMAIN rows /\ Linked(rows[r.row].parent, rows)
        => r.row \in DOMAIN rows' /\ Linked(rows'[r.row].parent, rows')
  BY DEF Grows, Linked
<1>4. Raises(p, r, rows', chain', vain')
  BY <1>2, <1>3 DEF Invocation, Raises, Grows
<1> QED
  BY <1>1, <1>4 DEF Invocation

LEMMA OperationStays ==
    ASSUME Grows, NEW o, Operation(o, rows, chain, vain)
    PROVE  Operation(o, rows', chain', vain')
BY BackedStays DEF Operation, Grows

LEMMA TurnKeeps ==
    ASSUME Ready, Grows, NEW p \in Proc, NEW r, Turn(p, r)
    PROVE  /\ Invocations'
           /\ proc'[p] = r /\ \A q \in Proc \ {p} : proc'[q] = proc[q]
<1>1. proc = [q \in Proc |-> proc[q]] /\ proc' = [proc EXCEPT ![p] = r]
  BY DEF Ready, Invocations, Turn
<1>2. proc'[p] = r /\ \A q \in Proc \ {p} : proc'[q] = proc[q]
  BY <1>1
<1>3. proc' = [q \in Proc |-> proc'[q]]
  BY <1>1
<1>4. ASSUME NEW q \in Proc
      PROVE  Invocation(q, proc'[q], rows', chain', vain')
  <2>1. CASE q = p
    BY <1>2, <2>1 DEF Turn
  <2>2. CASE q # p
    <3>1. Invocation(q, proc[q], rows', chain', vain')
      BY InvocationStays DEF Ready, Invocations
    <3> QED
      BY <1>2, <2>2, <3>1
  <2> QED
    BY <2>1, <2>2
<1> QED
  BY <1>2, <1>3, <1>4 DEF Invocations

-----------------------------------------------------------------------------
(* The records of invocations.                                              *)

LEMMA StepOverlays ==
    ASSUME NEW p, Shape(proc[p]), NEW changes, Step(p, changes)
    PROVE  proc' = [proc EXCEPT ![p] = Overlay(proc[p], changes)]
BY StepIs DEF Step

LEMMA OverlayShape == \A r, changes : Shape(Overlay(r, changes))
BY DEF Overlay, Shape

LEMMA StepToRecord ==
    ASSUME NEW p, Shape(proc[p]), NEW r, Shape(r), Step(p, r)
    PROVE  proc' = [proc EXCEPT ![p] = r]
<1>1. DOMAIN r = DOMAIN proc[p]
  BY DEF Shape
<1>2. r = [f \in DOMAIN r |-> r[f]]
  BY DEF Shape
<1>3. [f \in DOMAIN proc[p] |-> IF f \in DOMAIN r THEN r[f] ELSE proc[p][f]] = r
  BY <1>1, <1>2
<1> QED
  BY <1>3 DEF Step

LEMMA IdleIs ==
    ASSUME NEW p, NEW rw, NEW ch, NEW vn
    PROVE  Invocation(p, Idle, rw, ch, vn) /\ Idle.pc = "idle"
<1>1. /\ Idle.pc = "idle" /\ Idle.todo = {} /\ Idle.seen = <<>> /\ Idle.links = <<>>
      /\ DOMAIN <<>> = {}
  BY DEF Idle
<1>2. Shape(Idle)
  BY DEF Shape, Idle
<1>3. SeenOk(Idle, ch) /\ LinksOk(Idle, ch)
  BY <1>1 DEF SeenOk, LinksOk
<1>4. Raises(p, Idle, rw, ch, vn)
  BY <1>1 DEF Raises, Sweeping, Resuming
<1> QED
  BY <1>1, <1>2, <1>3, <1>4 DEF Invocation

Looping == Sweeping \cup {"resume", "post", "posting"}

(* The loop goes on, or ends.                                               *)
LEMMA NextIs ==
    ASSUME Ready, NEW p \in Proc, proc[p].pc \in Looping, NEW todo, todo \subseteq proc[p].todo
    PROVE  /\ Invocation(p, next(p, todo), rows, chain, vain)
           /\ next(p, todo).pc \in {"idle", "sweep", "resume"}
<1>1. CASE todo = {}
  BY <1>1, IdleIs DEF next
<1>2. CASE todo # {}
  <2> DEFINE r == [pc |-> IF p \in Sweeps THEN "sweep" ELSE "resume", todo |-> todo, row |-> 0,
                   seen |-> proc[p].seen, links |-> proc[p].links, tries |-> 0, waited |-> 0,
                   life |-> proc[p].life]
  <2>1. next(p, todo) = r
    BY <1>2 DEF next, Idle
  <2>2. /\ r.pc = IF p \in Sweeps THEN "sweep" ELSE "resume"
        /\ r.todo = todo /\ r.seen = proc[p].seen /\ r.links = proc[p].links /\ Shape(r)
    BY DEF Shape
  <2> HIDE DEF r
  <2>3. Invocation(p, proc[p], rows, chain, vain)
    BY DEF Ready, Invocations
  <2>4. SeenOk(r, chain) /\ LinksOk(r, chain)
    BY <2>2, <2>3 DEF Invocation, SeenOk, LinksOk
  <2>5. proc[p].pc \notin {"idle", "read", "parents"}
    BY DEF Looping, Sweeping
  <2>6. Raises(p, r, rows, chain, vain)
    BY <2>2, <2>3, <2>5 DEF Invocation, Raises, Sweeping, Resuming
  <2> QED
    BY <2>1, <2>2, <2>4, <2>6 DEF Invocation
<1> QED
  BY <1>1, <1>2

-----------------------------------------------------------------------------
(* What is on its way when an invocation takes a turn.                      *)

LEMMA OpTyped ==
    ASSUME Typed, NEW i \in DOMAIN mempool
    PROVE  /\ mempool[i] \in OpSet /\ mempool[i].kind \in {"cancel", "post"}
           /\ mempool[i].by \in Proc \cup {Nobody}
           /\ i \in 1..Len(mempool)
<1>1. mempool \in Seq(OpSet)
  BY DEF Typed
<1>2. mempool[i] \in OpSet /\ i \in 1..Len(mempool)
  BY <1>1
<1> QED
  BY <1>2 DEF OpSet

LEMMA OpsStay ==
    ASSUME Inv, Grows, UNCHANGED mempool, NEW p \in Proc, ~waiting(p), NEW r, Turn(p, r)
    PROVE  Operations'
<1>1. \A q \in Proc \ {p} : proc'[q] = proc[q]
  BY TurnKeeps DEF Inv
<1>2. ASSUME NEW i \in DOMAIN mempool
      PROVE  /\ Operation(mempool[i], rows', chain', vain')
             /\ mempool[i].by # Nobody => Awaited(mempool[i], proc'[mempool[i].by])
  <2>1. Operation(mempool[i], rows', chain', vain')
    BY OperationStays DEF Inv, Operations
  <2>2. ASSUME mempool[i].by # Nobody
        PROVE  Awaited(mempool[i], proc'[mempool[i].by])
    <3>1. Awaited(mempool[i], proc[mempool[i].by])
      BY <2>2 DEF Inv, Operations
    <3>2. mempool[i].by # p
      BY <3>1 DEF Awaited, waiting
    <3>3. mempool[i].by \in Proc
      BY <2>2, OpTyped DEF Inv, Ready
    <3> QED
      BY <1>1, <3>1, <3>2, <3>3
  <2> QED
    BY <2>1, <2>2
<1> QED
  BY <1>2 DEF Inv, Operations

LEMMA OpsSent ==
    ASSUME Inv, Grows, NEW p \in Proc, ~waiting(p), NEW r, Turn(p, r),
           NEW o \in OpSet, mempool' = Append(mempool, o), o.by = p,
           Operation(o, rows', chain', vain'), Awaited(o, r)
    PROVE  Operations'
<1>1. proc'[p] = r /\ \A q \in Proc \ {p} : proc'[q] = proc[q]
  BY TurnKeeps DEF Inv
<1>2. /\ mempool \in Seq(OpSet) /\ Len(mempool) \in Nat
      /\ DOMAIN mempool = 1..Len(mempool) /\ DOMAIN mempool' = 1..Len(mempool) + 1
      /\ \A i \in 1..Len(mempool) : mempool'[i] = mempool[i]
      /\ mempool'[Len(mempool) + 1] = o
  BY DEF Inv, Ready, Typed
<1>3. ASSUME NEW i \in DOMAIN mempool
      PROVE  /\ Operation(mempool[i], rows', chain', vain')
             /\ mempool[i].by # p
             /\ mempool[i].by # Nobody => Awaited(mempool[i], proc'[mempool[i].by])
  <2>1. Operation(mempool[i], rows', chain', vain')
    BY OperationStays DEF Inv, Operations
  <2>2. p # Nobody
    BY ConstantsOk DEF Proc
  <2>3. mempool[i].by # Nobody => Awaited(mempool[i], proc[mempool[i].by])
    BY DEF Inv, Operations
  <2>4. mempool[i].by # p
    BY <2>2, <2>3 DEF Awaited, waiting
  <2>5. mempool[i].by \in Proc \cup {Nobody}
    BY OpTyped DEF Inv, Ready
  <2> QED
    BY <1>1, <2>1, <2>3, <2>4, <2>5
<1>4. ASSUME NEW i \in 1..Len(mempool) + 1
      PROVE  \/ i \in DOMAIN mempool /\ mempool'[i] = mempool[i] /\ i # Len(mempool) + 1
             \/ i = Len(mempool) + 1 /\ mempool'[i] = o
  BY <1>2
<1>5. \A i \in DOMAIN mempool' :
          /\ Operation(mempool'[i], rows', chain', vain')
          /\ mempool'[i].by # Nobody => Awaited(mempool'[i], proc'[mempool'[i].by])
  BY <1>1, <1>2, <1>3, <1>4
<1>6. \A i, j \in DOMAIN mempool : i # j => mempool[i].by # mempool[j].by \/ mempool[i].by = Nobody
  BY DEF Inv, Operations
<1>7. ASSUME NEW i \in DOMAIN mempool', NEW j \in DOMAIN mempool', i # j
      PROVE  mempool'[i].by # mempool'[j].by \/ mempool'[i].by = Nobody
  <2>1. CASE i \in DOMAIN mempool /\ j \in DOMAIN mempool
    BY <1>2, <1>6, <1>7, <2>1
  <2>2. CASE i = Len(mempool) + 1 /\ j \in DOMAIN mempool
    BY <1>2, <1>3, <2>2
  <2>3. CASE i \in DOMAIN mempool /\ j = Len(mempool) + 1
    BY <1>2, <1>3, <2>3
  <2> QED
    BY <1>2, <1>4, <1>7, <2>1, <2>2, <2>3
<1> QED
  BY <1>5, <1>7 DEF Operations

LEMMA OpsLeft ==
    ASSUME Inv, Grows, NEW p \in Proc, NEW r, Turn(p, r),
           mempool' = [i \in DOMAIN mempool |->
                          IF mempool[i].by = p THEN [mempool[i] EXCEPT !.by = Nobody] ELSE mempool[i]]
    PROVE  Operations' /\ mempool' \in Seq(OpSet)
<1>1. \A q \in Proc \ {p} : proc'[q] = proc[q]
  BY TurnKeeps DEF Inv
<1>2. ASSUME NEW i \in DOMAIN mempool
      PROVE  /\ mempool'[i] \in OpSet
             /\ mempool'[i].kind = mempool[i].kind /\ mempool'[i].job = mempool[i].job
             /\ mempool'[i].row = mempool[i].row
             /\ mempool'[i].by = IF mempool[i].by = p THEN Nobody ELSE mempool[i].by
             /\ mempool[i].by # p => mempool'[i] = mempool[i]
  <2>1. mempool[i] \in OpSet
    BY OpTyped DEF Inv, Ready
  <2>2. mempool'[i] = IF mempool[i].by = p THEN [mempool[i] EXCEPT !.by = Nobody] ELSE mempool[i]
    OBVIOUS
  <2> QED
    BY <2>1, <2>2 DEF OpSet
<1>3. DOMAIN mempool' = DOMAIN mempool
  OBVIOUS
<1>4. mempool' \in Seq(OpSet)
  <2>1. mempool \in Seq(OpSet) /\ DOMAIN mempool = 1..Len(mempool) /\ Len(mempool) \in Nat
    BY DEF Inv, Ready, Typed
  <2>2. mempool' \in [1..Len(mempool) -> OpSet]
    BY <1>2, <2>1
  <2> QED
    BY <2>1, <2>2
<1>5. ASSUME NEW i \in DOMAIN mempool
      PROVE  /\ Operation(mempool'[i], rows', chain', vain')
             /\ mempool'[i].by # Nobody => Awaited(mempool'[i], proc'[mempool'[i].by])
  <2>1. Operation(mempool[i], rows', chain', vain')
    BY OperationStays DEF Inv, Operations
  <2>2. Operation(mempool'[i], rows', chain', vain')
    BY <1>2, <2>1 DEF Operation
  <2>3. ASSUME mempool'[i].by # Nobody
        PROVE  Awaited(mempool'[i], proc'[mempool'[i].by])
    <3>1. mempool[i].by # p /\ mempool'[i] = mempool[i]
      BY <1>2, <2>3
    <3>2. Awaited(mempool[i], proc[mempool[i].by])
      BY <2>3, <3>1 DEF Inv, Operations
    <3>3. mempool[i].by \in Proc
      BY <2>3, <3>1, OpTyped DEF Inv, Ready
    <3> QED
      BY <1>1, <3>1, <3>2, <3>3
  <2> QED
    BY <2>2, <2>3
<1>6. ASSUME NEW i \in DOMAIN mempool, NEW j \in DOMAIN mempool, i # j
      PROVE  mempool'[i].by # mempool'[j].by \/ mempool'[i].by = Nobody
  <2>1. mempool[i].by # mempool[j].by \/ mempool[i].by = Nobody
    BY <1>6 DEF Inv, Operations
  <2> QED
    BY <1>2, <2>1
<1> QED
  BY <1>3, <1>4, <1>5, <1>6 DEF Operations

(* One operation lands, or comes to nothing, and its sender is told.        *)
LEMMA OpsLanded ==
    ASSUME Inv, Grows, NEW i \in DOMAIN mempool, mempool' = RemoveAt(mempool, i),
           \/ mempool[i].by = Nobody /\ UNCHANGED proc
           \/ mempool[i].by \in Proc /\ \E r : Turn(mempool[i].by, r)
    PROVE  Operations' /\ mempool' \in Seq(OpSet)
<1> DEFINE n == Len(mempool)
<1>1. mempool \in Seq(OpSet) /\ n \in Nat /\ DOMAIN mempool = 1..n /\ i \in 1..n
  BY DEF Inv, Ready, Typed
<1>2. /\ mempool' \in Seq(OpSet) /\ Len(mempool') = n - 1
      /\ \A k \in 1..n - 1 : mempool'[k] = IF k < i THEN mempool[k] ELSE mempool[k + 1]
  BY <1>1, RemoveAtIs
<1>3. DOMAIN mempool' = 1..n - 1
  BY <1>2
<1> DEFINE old(k) == IF k < i THEN k ELSE k + 1
<1>4. \A k \in 1..n - 1 : old(k) \in 1..n /\ old(k) # i /\ mempool'[k] = mempool[old(k)]
  BY <1>1, <1>2
<1>5. \A k, l \in 1..n - 1 : k # l => old(k) # old(l)
  BY <1>1
<1> HIDE DEF n, old
<1>6. ASSUME NEW k \in DOMAIN mempool, k # i
      PROVE  /\ Operation(mempool[k], rows', chain', vain')
             /\ mempool[k].by # Nobody => Awaited(mempool[k], proc'[mempool[k].by])
  <2>1. Operation(mempool[k], rows', chain', vain')
    BY OperationStays DEF Inv, Operations
  <2>2. ASSUME mempool[k].by # Nobody
        PROVE  Awaited(mempool[k], proc'[mempool[k].by])
    <3>1. Awaited(mempool[k], proc[mempool[k].by]) /\ mempool[k].by # mempool[i].by
      BY <1>6, <2>2 DEF Inv, Operations
    <3>2. mempool[k].by \in Proc
      BY <2>2, OpTyped DEF Inv, Ready
    <3>3. proc'[mempool[k].by] = proc[mempool[k].by]
      BY <3>1, <3>2, TurnKeeps DEF Inv
    <3> QED
      BY <3>1, <3>3
  <2> QED
    BY <2>1, <2>2
<1>7. ASSUME NEW k \in DOMAIN mempool'
      PROVE  /\ Operation(mempool'[k], rows', chain', vain')
             /\ mempool'[k].by # Nobody => Awaited(mempool'[k], proc'[mempool'[k].by])
  BY <1>1, <1>3, <1>4, <1>6
<1>8. ASSUME NEW k \in DOMAIN mempool', NEW l \in DOMAIN mempool', k # l
      PROVE  mempool'[k].by # mempool'[l].by \/ mempool'[k].by = Nobody
  <2>1. old(k) \in DOMAIN mempool /\ old(l) \in DOMAIN mempool /\ old(k) # old(l)
    BY <1>1, <1>3, <1>4, <1>5, <1>8
  <2>2. mempool[old(k)].by # mempool[old(l)].by \/ mempool[old(k)].by = Nobody
    BY <2>1 DEF Inv, Operations
  <2> QED
    BY <1>3, <1>4, <2>2
<1> QED
  BY <1>2, <1>7, <1>8 DEF Operations

-----------------------------------------------------------------------------
(* The steps of an invocation that send nothing and get no answer.          *)

LEMMA Same ==
    ASSUME Ready, UNCHANGED <<rows, chain, vain>>
    PROVE  Grows /\ Tables'
BY DEF Ready, Tables, Grows

(* A turn that leaves the tables and what is on its way alone.              *)
LEMMA QuietTurn ==
    ASSUME Inv, UNCHANGED <<rows, chain, mempool, vain>>, NEW p \in Proc, ~waiting(p),
           NEW r, proc' = [proc EXCEPT ![p] = r], Invocation(p, r, rows, chain, vain)
    PROVE  Inv'
<1>1. Grows /\ Tables'
  BY Same DEF Inv
<1>2. Turn(p, r)
  BY DEF Turn
<1>3. Invocations'
  BY <1>1, <1>2, TurnKeeps DEF Inv
<1>4. Operations'
  BY <1>1, <1>2, OpsStay
<1>5. Typed'
  BY DEF Inv, Ready, Typed
<1> QED
  BY <1>1, <1>3, <1>4, <1>5 DEF Inv, Ready

LEMMA GoOnKeeps ==
    ASSUME Inv, UNCHANGED <<rows, chain, mempool, vain>>, NEW p \in Proc, ~waiting(p),
           proc[p].pc \in Looping, NEW todo, todo \subseteq proc[p].todo, Step(p, next(p, todo))
    PROVE  Inv'
<1>1. Invocation(p, next(p, todo), rows, chain, vain) /\ Invocation(p, proc[p], rows, chain, vain)
  BY NextIs DEF Inv, Ready, Invocations
<1>2. proc' = [proc EXCEPT ![p] = next(p, todo)]
  BY <1>1, StepToRecord DEF Invocation
<1> QED
  BY <1>1, <1>2, QuietTurn

LEMMA SkipKeeps ==
    ASSUME Inv, NEW p \in Proc, Skip(p) \/ LeaveAlone(p)
    PROVE  Inv'
<1>1. /\ UNCHANGED <<rows, chain, mempool, vain>> /\ ~waiting(p) /\ proc[p].pc \in Looping
      /\ \E n \in proc[p].todo : Step(p, leave(p, n))
  BY DEF Skip, LeaveAlone, At, waiting, Looping, Sweeping, history
<1>2. PICK n \in proc[p].todo : Step(p, next(p, proc[p].todo \ {n}))
  BY <1>1 DEF leave
<1> QED
  BY <1>1, <1>2, GoOnKeeps

LEMMA StartSweepKeeps ==
    ASSUME Inv, NEW p \in Proc, StartSweep(p)
    PROVE  Inv'
<1> DEFINE changes == [pc |-> "sweep", todo |-> {n \in DOMAIN rows : rows[n].jobId # 0}]
           r == Overlay(proc[p], changes)
<1>1. /\ p \in Sweeps /\ UNCHANGED <<rows, chain, mempool, vain>> /\ Step(p, changes) /\ ~waiting(p)
  BY DEF StartSweep, At, waiting, history
<1>2. Invocation(p, proc[p], rows, chain, vain)
  BY DEF Inv, Ready, Invocations
<1>3. proc' = [proc EXCEPT ![p] = r]
  BY <1>1, <1>2, StepOverlays DEF Invocation
<1>4. r.pc = "sweep" /\ r.todo = {n \in DOMAIN rows : rows[n].jobId # 0}
      /\ r.seen = proc[p].seen /\ r.links = proc[p].links
  BY DEF Overlay
<1>5. Shape(r)
  BY OverlayShape
<1> HIDE DEF r
<1>6. Invocation(p, r, rows, chain, vain)
  BY <1>1, <1>2, <1>4, <1>5 DEF Invocation, SeenOk, LinksOk, Raises, Sweeping, Resuming
<1> QED
  BY <1>1, <1>3, <1>6, QuietTurn

LEMMA StartResumeKeeps ==
    ASSUME Inv, NEW p \in Proc, StartResume(p)
    PROVE  Inv'
<1>1. /\ p \in Resumes /\ UNCHANGED <<rows, chain, mempool, vain>> /\ ~waiting(p)
      /\ \E batch \in kSubset(Min({BATCH, Cardinality(orphans)}), orphans) :
            Step(p, [pc |-> "read", todo |-> batch])
  BY DEF StartResume, At, waiting, history
<1>2. PICK batch \in kSubset(Min({BATCH, Cardinality(orphans)}), orphans) :
          Step(p, [pc |-> "read", todo |-> batch])
  BY <1>1
<1> DEFINE changes == [pc |-> "read", todo |-> batch]
           r == Overlay(proc[p], changes)
<1>3. Invocation(p, proc[p], rows, chain, vain)
  BY DEF Inv, Ready, Invocations
<1>4. proc' = [proc EXCEPT ![p] = r]
  BY <1>2, <1>3, StepOverlays DEF Invocation
<1>5. r.pc = "read" /\ r.todo = batch /\ r.seen = proc[p].seen /\ r.links = proc[p].links
  BY DEF Overlay
<1>6. Shape(r)
  BY OverlayShape
<1> HIDE DEF r
<1>7. /\ p \notin Sweeps /\ batch \subseteq DOMAIN rows
      /\ \A n \in batch : rows[n].parent \in DOMAIN rows
  BY <1>1, ConstantsOk DEF kSubset, orphans, isOrphanedRaise, Inv, Ready, Tables
<1>8. Invocation(p, r, rows, chain, vain)
  BY <1>3, <1>5, <1>6, <1>7 DEF Invocation, SeenOk, LinksOk, Raises, Sweeping, Resuming
<1> QED
  BY <1>1, <1>4, <1>8, QuietTurn

LEMMA ReadChainKeeps ==
    ASSUME Inv, NEW p \in Proc, ReadChain(p)
    PROVE  Inv'
<1> DEFINE changes == [pc |-> "parents", seen |-> chain]
           r == Overlay(proc[p], changes)
<1>1. UNCHANGED <<rows, chain, mempool, vain>> /\ ~waiting(p) /\ Step(p, changes) /\ proc[p].pc = "read"
  BY DEF ReadChain, At, waiting, history
<1>2. Invocation(p, proc[p], rows, chain, vain)
  BY DEF Inv, Ready, Invocations
<1>3. proc' = [proc EXCEPT ![p] = r]
  BY <1>1, <1>2, StepOverlays DEF Invocation
<1>4. r.pc = "parents" /\ r.todo = proc[p].todo /\ r.seen = chain /\ r.links = proc[p].links
  BY DEF Overlay
<1>5. Shape(r)
  BY OverlayShape
<1> HIDE DEF r
<1>6. Invocation(p, r, rows, chain, vain)
  BY <1>1, <1>2, <1>4, <1>5 DEF Invocation, SeenOk, LinksOk, Raises, Sweeping, Resuming
<1> QED
  BY <1>1, <1>3, <1>6, QuietTurn

LEMMA ReadLinksKeeps ==
    ASSUME Inv, NEW p \in Proc, ReadLinks(p)
    PROVE  Inv'
<1> DEFINE links == [n \in parents(p) |-> rows[n].jobId]
           changes == [pc |-> "resume", links |-> links]
           r == Overlay(proc[p], changes)
<1>1. UNCHANGED <<rows, chain, mempool, vain>> /\ ~waiting(p) /\ Step(p, changes) /\ proc[p].pc = "parents"
  BY DEF ReadLinks, At, waiting, history
<1>2. Invocation(p, proc[p], rows, chain, vain)
  BY DEF Inv, Ready, Invocations
<1>3. proc' = [proc EXCEPT ![p] = r]
  BY <1>1, <1>2, StepOverlays DEF Invocation
<1>4. r.pc = "resume" /\ r.todo = proc[p].todo /\ r.seen = proc[p].seen /\ r.links = links
  BY DEF Overlay
<1>5. Shape(r)
  BY OverlayShape
<1> HIDE DEF r
<1>6. \A n \in proc[p].todo : rows[n].parent \in DOMAIN links
  BY DEF parents
<1>7. LinksOk(r, chain)
  <2>1. \A n \in parents(p) : n \in DOMAIN rows
    <3>1. p \notin Sweeps
      BY <1>1, <1>2 DEF Invocation, Raises, Resuming
    <3> QED
      BY <1>2, <3>1 DEF Invocation, Raises, parents
  <2>2. DOMAIN links = parents(p) /\ \A n \in parents(p) : links[n] = rows[n].jobId
    OBVIOUS
  <2> QED
    BY <1>4, <2>1, <2>2 DEF LinksOk, Inv, Ready, Tables
<1>8. Invocation(p, r, rows, chain, vain)
  BY <1>1, <1>2, <1>4, <1>5, <1>6, <1>7 DEF Invocation, SeenOk, Raises, Sweeping, Resuming
<1> QED
  BY <1>1, <1>3, <1>8, QuietTurn


-----------------------------------------------------------------------------
(* The steps that write a row, or send an operation.                        *)

(* A turn that changes the rows and leaves the rest alone.                  *)
LEMMA RowTurn ==
    ASSUME Inv, Grows, Tables', rows' \in Seq(RowSet), UNCHANGED <<chain, mempool, vain>>,
           NEW p \in Proc, ~waiting(p), NEW r, proc' = [proc EXCEPT ![p] = r],
           Invocation(p, r, rows', chain', vain')
    PROVE  Inv'
<1>1. Turn(p, r)
  BY DEF Turn
<1>2. Invocations'
  BY <1>1, TurnKeeps DEF Inv
<1>3. Operations'
  BY <1>1, OpsStay
<1>4. Typed'
  BY DEF Inv, Ready, Typed
<1> QED
  BY <1>2, <1>3, <1>4 DEF Inv, Ready

(* A row is linked to a job that is its own.                                *)
LEMMA Relinks ==
    ASSUME Ready, NEW id \in DOMAIN chain, NEW n, chain[id].spec = n,
           rows' = [rows EXCEPT ![n].jobId = id], UNCHANGED <<chain, vain>>
    PROVE  Grows /\ Tables' /\ rows' \in Seq(RowSet)
<1>1. /\ rows \in Seq(RowSet) /\ chain \in Seq(JobSet) /\ Len(rows) \in Nat /\ Len(chain) \in Nat
      /\ DOMAIN rows = 1..Len(rows) /\ DOMAIN chain = 1..Len(chain)
  BY DEF Ready, Typed
<1>2. id \in Nat /\ id # 0 /\ n \in DOMAIN rows
  BY <1>1 DEF Ready, Tables, Backed
<1>3. DOMAIN rows' = DOMAIN rows
  OBVIOUS
<1>4. ASSUME NEW m \in DOMAIN rows
      PROVE  /\ rows[m] \in RowSet /\ rows'[m] \in RowSet
             /\ rows'[m].parent = rows[m].parent
             /\ rows'[m].jobId = IF m = n THEN id ELSE rows[m].jobId
  <2>1. rows[m] \in RowSet
    BY <1>1
  <2>2. rows'[m] = IF m = n THEN [rows[m] EXCEPT !.jobId = id] ELSE rows[m]
    BY <1>2
  <2> QED
    BY <1>2, <2>1, <2>2 DEF RowSet
<1>5. rows' \in Seq(RowSet)
  <2>1. rows' \in [1..Len(rows) -> RowSet]
    BY <1>1, <1>3, <1>4
  <2> QED
    BY <1>1, <2>1
<1>6. Grows
  BY <1>2, <1>3, <1>4 DEF Grows
<1>7. \A m \in DOMAIN rows' : rows'[m].jobId # 0 =>
          rows'[m].jobId \in DOMAIN chain' /\ chain'[rows'[m].jobId].spec = m
  BY <1>3, <1>4 DEF Ready, Tables
<1>8. \A m \in DOMAIN rows' : rows'[m].parent # 0 => rows'[m].parent \in DOMAIN rows'
  BY <1>3, <1>4 DEF Ready, Tables
<1>9. \A e \in DOMAIN chain' : Backed(chain'[e].spec, rows', chain', vain')
  BY <1>6, BackedStays DEF Ready, Tables
<1> QED
  BY <1>5, <1>6, <1>7, <1>8, <1>9 DEF Tables

LEMMA LinkKeeps ==
    ASSUME Inv, NEW p \in Proc, Link(p)
    PROVE  Inv'
<1>1. /\ UNCHANGED <<chain, mempool, vain>> /\ ~waiting(p) /\ proc[p].pc \in Looping
      /\ Step(p, next(p, proc[p].todo))
  BY DEF Link, At, waiting, Looping, Sweeping, history, goOn
<1>2. CASE UNCHANGED rows
  BY <1>1, <1>2, GoOnKeeps
<1>3. CASE \E id \in DOMAIN chain :
               chain[id].spec = proc[p].row /\ rows' = [rows EXCEPT ![proc[p].row].jobId = id]
  <2>1. Ready
    BY DEF Inv
  <2>2. PICK id \in DOMAIN chain :
            chain[id].spec = proc[p].row /\ rows' = [rows EXCEPT ![proc[p].row].jobId = id]
    BY <1>3
  <2>3. Grows /\ Tables' /\ rows' \in Seq(RowSet)
    BY <1>1, <2>1, <2>2, Relinks
  <2>4. Invocation(p, proc[p], rows, chain, vain) /\ Invocation(p, next(p, proc[p].todo), rows, chain, vain)
    BY <1>1, <2>1, NextIs DEF Ready, Invocations
  <2>5. proc' = [proc EXCEPT ![p] = next(p, proc[p].todo)]
    BY <1>1, <2>4, StepToRecord DEF Invocation
  <2>6. Invocation(p, next(p, proc[p].todo), rows', chain', vain')
    BY <2>3, <2>4, InvocationStays
  <2> QED
    BY <1>1, <2>3, <2>5, <2>6, RowTurn
<1> QED
  BY <1>2, <1>3 DEF Link

LEMMA BackfillKeeps ==
    ASSUME Inv, NEW p \in Proc, Backfill(p)
    PROVE  Inv'
<1>1. /\ UNCHANGED <<chain, mempool, vain>> /\ ~waiting(p) /\ proc[p].pc \in Looping
  BY DEF Backfill, At, waiting, Looping, Sweeping, history
<1>2. PICK n \in proc[p].todo : \E id \in seenIds(p, n) :
          rows' = [rows EXCEPT ![n].jobId = id] /\ Step(p, next(p, proc[p].todo \ {n}))
  BY DEF Backfill, leave
<1>3. PICK id \in seenIds(p, n) :
          rows' = [rows EXCEPT ![n].jobId = id] /\ Step(p, next(p, proc[p].todo \ {n}))
  BY <1>2
<1>4. Ready
  BY DEF Inv
<1>5. Invocation(p, proc[p], rows, chain, vain)
  BY <1>4 DEF Ready, Invocations
<1>6. id \in DOMAIN chain /\ chain[id].spec = n
  BY <1>5 DEF seenIds, Invocation, SeenOk
<1>7. Grows /\ Tables' /\ rows' \in Seq(RowSet)
  BY <1>1, <1>3, <1>4, <1>6, Relinks
<1> DEFINE r == next(p, proc[p].todo \ {n})
<1>8. Invocation(p, r, rows, chain, vain)
  BY <1>1, <1>4, NextIs
<1>9. proc' = [proc EXCEPT ![p] = r]
  BY <1>3, <1>5, <1>8, StepToRecord DEF Invocation
<1>10. Invocation(p, r, rows', chain', vain')
  BY <1>7, <1>8, InvocationStays
<1> HIDE DEF r
<1> QED
  BY <1>1, <1>7, <1>9, <1>10, RowTurn

LEMMA WriteIntentKeeps ==
    ASSUME Inv, NEW p \in Proc, WriteIntent(p)
    PROVE  Inv'
<1>1. UNCHANGED <<chain, mempool, vain>> /\ ~waiting(p) /\ proc[p].pc = "sweep"
  BY DEF WriteIntent, At, waiting, history
<1>2. PICK n \in proc[p].todo :
          /\ rows' = Append(rows, Intent(n))
          /\ Step(p, [pc |-> "cancel", row |-> Len(rows) + 1, todo |-> proc[p].todo \ {n}])
  BY DEF WriteIntent
<1> DEFINE changes == [pc |-> "cancel", row |-> Len(rows) + 1, todo |-> proc[p].todo \ {n}]
           r == Overlay(proc[p], changes)
<1>3. Ready
  BY DEF Inv
<1>4. Invocation(p, proc[p], rows, chain, vain)
  BY <1>3 DEF Ready, Invocations
<1>5. /\ rows \in Seq(RowSet) /\ Len(rows) \in Nat /\ DOMAIN rows = 1..Len(rows)
  BY <1>3 DEF Ready, Typed
<1>6. p \in Sweeps /\ n \in DOMAIN rows /\ n \in Nat /\ n # 0 /\ rows[n].jobId # 0
  BY <1>1, <1>4, <1>5 DEF Invocation, Raises, Sweeping
<1>7. Intent(n) \in RowSet /\ Intent(n).parent = n /\ Intent(n).jobId = 0
  BY <1>6 DEF Intent, RowSet
<1>8. /\ rows' \in Seq(RowSet) /\ DOMAIN rows' = 1..Len(rows) + 1
      /\ rows'[Len(rows) + 1] = Intent(n)
      /\ \A m \in DOMAIN rows : m \in DOMAIN rows' /\ rows'[m] = rows[m]
      /\ \A m \in DOMAIN rows' : m \in DOMAIN rows \/ m = Len(rows) + 1
  BY <1>2, <1>5, <1>7
<1>9. Grows
  BY <1>1, <1>8 DEF Grows
<1>10. Tables'
  <2>1. \A m \in DOMAIN rows' : rows'[m].jobId # 0 =>
            rows'[m].jobId \in DOMAIN chain' /\ chain'[rows'[m].jobId].spec = m
    BY <1>1, <1>3, <1>7, <1>8 DEF Ready, Tables
  <2>2. \A m \in DOMAIN rows' : rows'[m].parent # 0 => rows'[m].parent \in DOMAIN rows'
    BY <1>3, <1>6, <1>7, <1>8 DEF Ready, Tables
  <2>3. \A e \in DOMAIN chain' : Backed(chain'[e].spec, rows', chain', vain')
    BY <1>1, <1>3, <1>9, BackedStays DEF Ready, Tables
  <2> QED
    BY <2>1, <2>2, <2>3 DEF Tables
<1>11. proc' = [proc EXCEPT ![p] = r]
  BY <1>2, <1>4, StepOverlays DEF Invocation
<1>12. /\ r.pc = "cancel" /\ r.todo = proc[p].todo \ {n} /\ r.row = Len(rows) + 1
       /\ r.seen = proc[p].seen /\ r.links = proc[p].links
  BY DEF Overlay
<1>13. Shape(r)
  BY OverlayShape
<1> HIDE DEF r
<1>14. Invocation(p, proc[p], rows', chain', vain')
  BY <1>4, <1>9, InvocationStays
<1>15. r.row \in DOMAIN rows' /\ Linked(rows'[r.row].parent, rows')
  BY <1>5, <1>6, <1>7, <1>8, <1>12 DEF Linked
<1>16. Raises(p, r, rows', chain', vain')
  BY <1>6, <1>12, <1>14, <1>15 DEF Invocation, Raises, Sweeping, Resuming
<1>17. Invocation(p, r, rows', chain', vain')
  BY <1>12, <1>13, <1>14, <1>16 DEF Invocation, SeenOk, LinksOk
<1> QED
  BY <1>1, <1>8, <1>9, <1>10, <1>11, <1>17, RowTurn


LEMMA SendKeeps ==
    ASSUME Inv, UNCHANGED <<rows, chain, vain>>, NEW p \in Proc, ~waiting(p),
           NEW r, proc' = [proc EXCEPT ![p] = r], Invocation(p, r, rows, chain, vain),
           NEW o \in OpSet, mempool' = Append(mempool, o), o.by = p,
           Operation(o, rows, chain, vain), Awaited(o, r)
    PROVE  Inv'
<1>1. Grows /\ Tables'
  BY Same DEF Inv
<1>2. Turn(p, r)
  BY DEF Turn
<1>3. Invocations'
  BY <1>1, <1>2, TurnKeeps DEF Inv
<1>4. Operation(o, rows', chain', vain')
  OBVIOUS
<1>5. Operations'
  BY <1>1, <1>2, <1>4, OpsSent
<1>6. mempool' \in Seq(OpSet)
  BY DEF Inv, Ready, Typed
<1>7. Typed'
  BY <1>6 DEF Inv, Ready, Typed
<1> QED
  BY <1>1, <1>3, <1>5, <1>7 DEF Inv, Ready

LEMMA SendCancelKeeps ==
    ASSUME Inv, NEW p \in Proc, SendCancel(p)
    PROVE  Inv'
<1> DEFINE n == proc[p].row
           id == rows[rows[n].parent].jobId
           o == [kind |-> "cancel", job |-> id, row |-> n, by |-> p]
           changes == [pc |-> "cancelling", waited |-> 0]
           r == Overlay(proc[p], changes)
<1>1. /\ UNCHANGED <<rows, chain, vain>> /\ ~waiting(p) /\ proc[p].pc = "cancel"
      /\ \/ Step(p, changes) /\ mempool' = Append(mempool, o)
         \/ Step(p, next(p, proc[p].todo)) /\ UNCHANGED mempool
  BY DEF SendCancel, Send, At, waiting, history, goOn
<1>2. CASE Step(p, next(p, proc[p].todo)) /\ UNCHANGED mempool
  BY <1>1, <1>2, GoOnKeeps DEF Looping, Sweeping
<1>3. CASE Step(p, changes) /\ mempool' = Append(mempool, o)
  <2>1. Invocation(p, proc[p], rows, chain, vain)
    BY DEF Inv, Ready, Invocations
  <2>2. n \in DOMAIN rows /\ rows[n].parent \in DOMAIN rows /\ id # 0
    BY <1>1, <2>1 DEF Invocation, Raises, Linked
  <2>3. id \in DOMAIN chain /\ chain[id].spec = rows[n].parent
    BY <2>2 DEF Inv, Ready, Tables
  <2>4. n \in Nat /\ id \in Nat
    <3>1. rows \in Seq(RowSet) /\ chain \in Seq(JobSet)
      BY DEF Inv, Ready, Typed
    <3> QED
      BY <2>2, <2>3, <3>1
  <2>5. proc' = [proc EXCEPT ![p] = r]
    BY <1>3, <2>1, StepOverlays DEF Invocation
  <2>6. /\ r.pc = "cancelling" /\ r.todo = proc[p].todo /\ r.row = n /\ n = proc[p].row
        /\ r.seen = proc[p].seen /\ r.links = proc[p].links
    BY DEF Overlay
  <2>7. Shape(r)
    BY OverlayShape
  <2>8. o \in OpSet /\ o.by = p /\ o.kind = "cancel" /\ o.row = n /\ o.job = id
    BY <2>4 DEF OpSet
  <2> HIDE DEF r, o, n, id
  <2>9. Raises(p, r, rows, chain, vain)
    BY <1>1, <2>1, <2>6 DEF Invocation, Raises, Sweeping, Resuming
  <2>10. Invocation(p, r, rows, chain, vain)
    BY <2>1, <2>6, <2>7, <2>9 DEF Invocation, SeenOk, LinksOk
  <2>11. Operation(o, rows, chain, vain) /\ Awaited(o, r)
    BY <2>2, <2>3, <2>6, <2>8 DEF Operation, Awaited
  <2> QED
    BY <1>1, <1>3, <2>5, <2>8, <2>10, <2>11, SendKeeps
<1> QED
  BY <1>1, <1>2, <1>3

LEMMA SendPostKeeps ==
    ASSUME Inv, NEW p \in Proc, SendPost(p)
    PROVE  Inv'
<1> DEFINE n == proc[p].row
           o == [kind |-> "post", job |-> 0, row |-> n, by |-> p]
           changes == [pc |-> "posting", waited |-> 0]
           r == Overlay(proc[p], changes)
<1>1. /\ UNCHANGED <<rows, chain, vain>> /\ ~waiting(p) /\ proc[p].pc = "post"
      /\ Step(p, changes) /\ mempool' = Append(mempool, o)
  BY DEF SendPost, Send, At, waiting, history
<1>2. Invocation(p, proc[p], rows, chain, vain)
  BY DEF Inv, Ready, Invocations
<1>3. Backed(n, rows, chain, vain)
  BY <1>1, <1>2 DEF Invocation, Raises
<1>4. n \in Nat
  <2>1. rows \in Seq(RowSet)
    BY DEF Inv, Ready, Typed
  <2> QED
    BY <1>3, <2>1 DEF Backed
<1>5. proc' = [proc EXCEPT ![p] = r]
  BY <1>1, <1>2, StepOverlays DEF Invocation
<1>6. /\ r.pc = "posting" /\ r.todo = proc[p].todo /\ r.row = n
      /\ r.seen = proc[p].seen /\ r.links = proc[p].links
  BY DEF Overlay
<1>7. Shape(r)
  BY OverlayShape
<1>8. o \in OpSet /\ o.by = p /\ o.kind = "post" /\ o.row = n
  BY <1>4 DEF OpSet
<1> HIDE DEF r, o, n
<1>9. Raises(p, r, rows, chain, vain)
  BY <1>1, <1>2, <1>3, <1>6 DEF Invocation, Raises, Sweeping, Resuming
<1>10. Invocation(p, r, rows, chain, vain)
  BY <1>2, <1>6, <1>7, <1>9 DEF Invocation, SeenOk, LinksOk
<1>11. Operation(o, rows, chain, vain) /\ Awaited(o, r)
  BY <1>3, <1>6, <1>8 DEF Operation, Awaited
<1> QED
  BY <1>1, <1>5, <1>8, <1>10, <1>11, SendKeeps

(* An orphan is posted where the read shows what it replaces refunded.      *)
LEMMA RepostKeeps ==
    ASSUME Inv, NEW p \in Proc, Repost(p)
    PROVE  Inv'
<1>1. UNCHANGED <<rows, chain, mempool, vain>> /\ ~waiting(p) /\ proc[p].pc = "resume"
  BY DEF Repost, At, waiting, history
<1>2. PICK n \in proc[p].todo :
          /\ isRaiseResumable(parentStatus(p, n))
          /\ Step(p, [pc |-> "post", row |-> n, todo |-> proc[p].todo \ {n}])
  BY DEF Repost
<1> DEFINE changes == [pc |-> "post", row |-> n, todo |-> proc[p].todo \ {n}]
           r == Overlay(proc[p], changes)
           id == proc[p].links[rows[n].parent]
<1>3. Invocation(p, proc[p], rows, chain, vain)
  BY DEF Inv, Ready, Invocations
<1>4. n \in DOMAIN rows /\ rows[n].parent \in DOMAIN proc[p].links /\ p \notin Sweeps
  BY <1>1, <1>3 DEF Invocation, Raises, Resuming
<1>5. id \in DOMAIN proc[p].seen /\ proc[p].seen[id].status \in Final
  BY <1>2 DEF isRaiseResumable, parentStatus, Final
<1>6. id \in DOMAIN chain /\ chain[id].status \in Final
  BY <1>3, <1>5 DEF Invocation, SeenOk
<1>7. id # 0
  <2>1. chain \in Seq(JobSet)
    BY DEF Inv, Ready, Typed
  <2> QED
    BY <1>6, <2>1
<1>8. chain[id].spec = rows[n].parent
  BY <1>3, <1>4, <1>7 DEF Invocation, LinksOk
<1>9. Backed(n, rows, chain, vain)
  BY <1>4, <1>6, <1>8 DEF Backed, GaveBack
<1>10. proc' = [proc EXCEPT ![p] = r]
  BY <1>2, <1>3, StepOverlays DEF Invocation
<1>11. /\ r.pc = "post" /\ r.todo = proc[p].todo \ {n} /\ r.row = n
       /\ r.seen = proc[p].seen /\ r.links = proc[p].links
  BY DEF Overlay
<1>12. Shape(r)
  BY OverlayShape
<1> HIDE DEF r, id
<1>13. Raises(p, r, rows, chain, vain)
  BY <1>1, <1>3, <1>4, <1>9, <1>11 DEF Invocation, Raises, Sweeping, Resuming
<1>14. Invocation(p, r, rows, chain, vain)
  BY <1>3, <1>11, <1>12, <1>13 DEF Invocation, SeenOk, LinksOk
<1> QED
  BY <1>1, <1>10, <1>14, QuietTurn


-----------------------------------------------------------------------------
(* What becomes of an operation.                                            *)

(* An invocation goes on with the answer: it posts behind its own cancel,   *)
(* or tries again what it was at.                                           *)
LEMMA AnswerTurn ==
    ASSUME Inv, Grows, NEW p \in Proc, waiting(p), NEW ok \in BOOLEAN,
           IF ok THEN Confirmed(p) ELSE Failed(p),
           proc[p].pc = "cancelling" /\ ok => Backed(proc[p].row, rows', chain', vain')
    PROVE  \E r : Turn(p, r)
<1>1. Invocation(p, proc[p], rows, chain, vain) /\ Ready
  BY DEF Inv, Ready, Invocations
<1>2. Invocation(p, proc[p], rows', chain', vain')
  BY <1>1, InvocationStays
<1>3. ASSUME Step(p, goOn(p))
      PROVE  \E r : Turn(p, r)
  <2> DEFINE r == next(p, proc[p].todo)
  <2>1. Invocation(p, r, rows, chain, vain)
    BY <1>1, NextIs DEF waiting, Looping, Sweeping
  <2>2. Invocation(p, r, rows', chain', vain')
    BY <2>1, InvocationStays
  <2>3. proc' = [proc EXCEPT ![p] = r]
    BY <1>1, <1>3, <2>1, StepToRecord DEF goOn, Invocation
  <2> QED
    BY <2>2, <2>3 DEF Turn
<1>4. ASSUME NEW changes, Step(p, changes),
             DOMAIN changes \subseteq {"pc", "tries", "waited"}, "pc" \in DOMAIN changes,
             \/ changes.pc = "link" /\ p \in Sweeps
             \/ changes.pc = "cancel" /\ proc[p].pc = "cancelling"
             \/ changes.pc = "post" /\ Backed(proc[p].row, rows', chain', vain')
      PROVE  \E r : Turn(p, r)
  <2> DEFINE r == Overlay(proc[p], changes)
  <2>1. proc' = [proc EXCEPT ![p] = r]
    BY <1>1, <1>4, StepOverlays DEF Invocation
  <2>2. /\ r.pc = changes.pc /\ r.todo = proc[p].todo /\ r.row = proc[p].row
        /\ r.seen = proc[p].seen /\ r.links = proc[p].links
    BY <1>4 DEF Overlay
  <2>3. Shape(r)
    BY OverlayShape
  <2> HIDE DEF r
  <2>4. proc[p].pc \notin {"idle", "read", "parents"}
    BY DEF waiting
  <2>5. Raises(p, r, rows', chain', vain')
    BY <1>2, <1>4, <2>2, <2>4 DEF Invocation, Raises, Sweeping, Resuming
  <2>6. Invocation(p, r, rows', chain', vain')
    BY <1>2, <2>2, <2>3, <2>5 DEF Invocation, SeenOk, LinksOk
  <2> QED
    BY <2>1, <2>6 DEF Turn
<1>5. proc[p].pc = "posting" => Backed(proc[p].row, rows', chain', vain')
  BY <1>2 DEF Invocation, Raises
<1>6. ASSUME NEW pc, Retry(p, pc),
             \/ pc = "cancel" /\ proc[p].pc = "cancelling"
             \/ pc = "post" /\ proc[p].pc = "posting"
      PROVE  \E r : Turn(p, r)
  <2> DEFINE changes == [pc |-> pc, tries |-> proc[p].tries + 1, waited |-> 0]
  <2>1. Step(p, changes) /\ DOMAIN changes = {"pc", "tries", "waited"} /\ changes.pc = pc
    BY <1>6 DEF Retry
  <2> HIDE DEF changes
  <2> QED
    BY <1>4, <1>5, <1>6, <2>1
<1>7. CASE ~ok
  BY <1>3, <1>6, <1>7 DEF Failed, At
<1>8. CASE ok /\ proc[p].pc = "cancelling"
  <2> DEFINE changes == [pc |-> "post", tries |-> 0, waited |-> 0]
  <2>1. Step(p, changes)
    BY <1>8 DEF Confirmed, At
  <2>2. DOMAIN changes = {"pc", "tries", "waited"} /\ changes.pc = "post"
    OBVIOUS
  <2> HIDE DEF changes
  <2> QED
    BY <1>4, <1>8, <2>1, <2>2
<1>9. CASE ok /\ proc[p].pc = "posting" /\ p \in Sweeps
  <2> DEFINE changes == [pc |-> "link", waited |-> 0]
  <2>1. Step(p, changes)
    BY <1>9 DEF Confirmed, At
  <2>2. DOMAIN changes = {"pc", "waited"} /\ changes.pc = "link"
    OBVIOUS
  <2> HIDE DEF changes
  <2> QED
    BY <1>4, <1>9, <2>1, <2>2
<1>10. CASE ok /\ proc[p].pc = "posting" /\ p \notin Sweeps
  BY <1>3, <1>10 DEF Confirmed, At
<1> QED
  BY <1>7, <1>8, <1>9, <1>10 DEF waiting

(* The sender of an operation, if any still waits, waits for that one.      *)
LEMMA SenderWaits ==
    ASSUME Inv, NEW i \in DOMAIN mempool, mempool[i].by # Nobody
    PROVE  /\ mempool[i].by \in Proc /\ waiting(mempool[i].by)
           /\ proc[mempool[i].by].row = mempool[i].row
           /\ proc[mempool[i].by].pc = "cancelling" => mempool[i].kind = "cancel"
           /\ proc[mempool[i].by].pc = "posting" => mempool[i].kind = "post"
<1>1. mempool[i].by \in Proc /\ mempool[i].kind \in {"cancel", "post"}
  BY OpTyped DEF Inv, Ready
<1>2. Awaited(mempool[i], proc[mempool[i].by])
  BY DEF Inv, Operations
<1> QED
  BY <1>1, <1>2 DEF Awaited, waiting

LEMMA Resolved ==
    ASSUME Inv, Grows, Tables', UNCHANGED rows, chain' \in Seq(JobSet),
           NEW i \in DOMAIN mempool, mempool' = RemoveAt(mempool, i),
           NEW ok \in BOOLEAN, Tell(mempool[i].by, ok),
           mempool[i].kind = "cancel" /\ ok /\ mempool[i].by # Nobody
               => Backed(mempool[i].row, rows', chain', vain')
    PROVE  Inv'
<1> DEFINE p == mempool[i].by
<1>1. CASE p = Nobody
  <2>1. UNCHANGED proc
    BY <1>1 DEF Tell
  <2>2. Operations' /\ mempool' \in Seq(OpSet)
    BY <1>1, <2>1, OpsLanded
  <2>3. Invocations'
    <3>1. \A q \in Proc : Invocation(q, proc[q], rows', chain', vain')
      BY InvocationStays DEF Inv, Ready, Invocations
    <3> QED
      BY <2>1, <3>1 DEF Inv, Ready, Invocations
  <2>4. Typed'
    BY <2>2 DEF Inv, Ready, Typed
  <2> QED
    BY <2>2, <2>3, <2>4 DEF Inv, Ready
<1>2. CASE p # Nobody
  <2>1. /\ p \in Proc /\ waiting(p) /\ proc[p].row = mempool[i].row
        /\ proc[p].pc = "cancelling" => mempool[i].kind = "cancel"
    BY <1>2, SenderWaits
  <2>2. \E r : Turn(p, r)
    BY <1>2, <2>1, AnswerTurn DEF Tell
  <2>3. Operations' /\ mempool' \in Seq(OpSet)
    BY <2>1, <2>2, OpsLanded
  <2>4. Invocations'
    BY <2>1, <2>2, TurnKeeps DEF Inv
  <2>5. Typed'
    BY <2>3 DEF Inv, Ready, Typed
  <2> QED
    BY <2>3, <2>4, <2>5 DEF Inv, Ready
<1> QED
  BY <1>1, <1>2

LEMMA DropKeeps ==
    ASSUME Inv, NEW i \in DOMAIN mempool, Drop(i)
    PROVE  Inv'
<1>1. /\ UNCHANGED <<rows, chain, vain>> /\ mempool' = RemoveAt(mempool, i)
      /\ \/ Tell(mempool[i].by, FALSE)
         \/ mempool[i].kind = "post" /\ Tell(mempool[i].by, TRUE)
  BY DEF Drop, history
<1>2. Grows /\ Tables'
  BY <1>1, Same DEF Inv
<1>3. chain' \in Seq(JobSet)
  BY <1>1 DEF Inv, Ready, Typed
<1>4. CASE Tell(mempool[i].by, FALSE)
  BY <1>1, <1>2, <1>3, <1>4, Resolved
<1>5. CASE mempool[i].kind = "post" /\ Tell(mempool[i].by, TRUE)
  BY <1>1, <1>2, <1>3, <1>5, Resolved
<1> QED
  BY <1>1, <1>4, <1>5

(* A job changes its status, and not back from a refund.                    *)
LEMMA StatusMoves ==
    ASSUME Ready, NEW id \in DOMAIN chain, chain[id].status \notin Final, NEW s \in Statuses,
           chain' = [chain EXCEPT ![id].status = s], UNCHANGED rows, vain \subseteq vain'
    PROVE  /\ Grows /\ Tables' /\ chain' \in Seq(JobSet)
           /\ DOMAIN chain' = DOMAIN chain /\ chain'[id].status = s
           /\ chain'[id].spec = chain[id].spec
<1>1. /\ chain \in Seq(JobSet) /\ Len(chain) \in Nat /\ DOMAIN chain = 1..Len(chain)
      /\ DOMAIN chain' = DOMAIN chain
  BY DEF Ready, Typed
<1>2. ASSUME NEW e \in DOMAIN chain
      PROVE  /\ chain'[e] \in JobSet /\ chain'[e].spec = chain[e].spec
             /\ chain'[e].status = IF e = id THEN s ELSE chain[e].status
  <2>1. chain[e] \in JobSet
    BY <1>1
  <2>2. chain'[e] = IF e = id THEN [chain[e] EXCEPT !.status = s] ELSE chain[e]
    BY <1>1
  <2> QED
    BY <2>1, <2>2 DEF JobSet
<1>3. chain' \in Seq(JobSet)
  <2>1. chain' \in [1..Len(chain) -> JobSet]
    BY <1>1, <1>2
  <2> QED
    BY <1>1, <2>1
<1>4. Grows
  BY <1>1, <1>2 DEF Grows
<1>5. Tables'
  <2>1. \A n \in DOMAIN rows' : rows'[n].jobId # 0 =>
            rows'[n].jobId \in DOMAIN chain' /\ chain'[rows'[n].jobId].spec = n
    BY <1>1, <1>2 DEF Ready, Tables
  <2>2. \A e \in DOMAIN chain : Backed(chain[e].spec, rows', chain', vain')
    BY <1>4, BackedStays DEF Ready, Tables
  <2>3. \A e \in DOMAIN chain' : Backed(chain'[e].spec, rows', chain', vain')
    BY <1>1, <1>2, <2>2
  <2>4. \A n \in DOMAIN rows' : rows'[n].parent # 0 => rows'[n].parent \in DOMAIN rows'
    BY DEF Ready, Tables
  <2> QED
    BY <2>1, <2>3, <2>4 DEF Tables
<1> QED
  BY <1>1, <1>2, <1>3, <1>4, <1>5


LEMMA LandCancelKeeps ==
    ASSUME Inv, NEW i \in DOMAIN mempool, LandCancel(i)
    PROVE  Inv'
<1> DEFINE o == mempool[i]
<1>1. /\ o.kind = "cancel" /\ mempool' = RemoveAt(mempool, i) /\ UNCHANGED rows /\ Tell(o.by, TRUE)
      /\ IF chain[o.job].status = "Open"
         THEN chain' = [chain EXCEPT ![o.job].status = "Cancelled"] /\ vain' = vain
         ELSE chain' = chain /\ vain' = IF o.by = Nobody THEN vain ELSE vain \cup {o.row}
  BY DEF LandCancel
<1>2. o.row \in DOMAIN rows /\ o.job \in DOMAIN chain /\ chain[o.job].spec = rows[o.row].parent
  BY <1>1 DEF Inv, Operations, Operation
<1>3. Ready
  BY DEF Inv
<1>4. CASE chain[o.job].status = "Open"
  <2>1. "Open" \notin Final /\ "Cancelled" \in Final /\ "Cancelled" \in Statuses
    BY DEF Final, Statuses
  <2>2. vain \subseteq vain' /\ chain' = [chain EXCEPT ![o.job].status = "Cancelled"]
    BY <1>1, <1>4
  <2>3. /\ Grows /\ Tables' /\ chain' \in Seq(JobSet)
        /\ o.job \in DOMAIN chain' /\ chain'[o.job].status = "Cancelled"
        /\ chain'[o.job].spec = rows[o.row].parent
    BY <1>1, <1>2, <1>3, <1>4, <2>1, <2>2, StatusMoves
  <2>4. Backed(o.row, rows', chain', vain')
    BY <1>1, <1>2, <2>1, <2>3 DEF Backed, GaveBack
  <2> QED
    BY <1>1, <2>3, <2>4, Resolved
<1>5. CASE chain[o.job].status # "Open"
  <2>1. chain' = chain /\ vain \subseteq vain' /\ (o.by # Nobody => o.row \in vain')
    BY <1>1, <1>5
  <2>2. Grows
    BY <1>1, <2>1 DEF Grows
  <2>3. Tables'
    <3>1. \A e \in DOMAIN chain : Backed(chain[e].spec, rows', chain', vain')
      BY <1>3, <2>2, BackedStays DEF Ready, Tables
    <3> QED
      BY <1>1, <1>3, <2>1, <3>1 DEF Ready, Tables
  <2>4. o.by # Nobody => Backed(o.row, rows', chain', vain')
    BY <1>1, <1>2, <2>1 DEF Backed
  <2>5. chain' \in Seq(JobSet)
    BY <1>3, <2>1 DEF Ready, Typed
  <2> QED
    BY <1>1, <2>2, <2>3, <2>4, <2>5, Resolved
<1> QED
  BY <1>4, <1>5

LEMMA LandPostKeeps ==
    ASSUME Inv, NEW i \in DOMAIN mempool, LandPost(i)
    PROVE  Inv'
<1> DEFINE o == mempool[i]
           job == [spec |-> o.row, status |-> "Open"]
<1>1. /\ o.kind = "post" /\ mempool' = RemoveAt(mempool, i) /\ UNCHANGED <<rows, vain>>
      /\ Tell(o.by, TRUE) /\ chain' = Append(chain, job)
  BY DEF LandPost, history
<1>2. Ready
  BY DEF Inv
<1>3. Backed(o.row, rows, chain, vain)
  BY <1>1 DEF Inv, Operations, Operation
<1>4. /\ chain \in Seq(JobSet) /\ Len(chain) \in Nat /\ DOMAIN chain = 1..Len(chain)
      /\ job \in JobSet /\ job.spec = o.row
  <2>1. o.row \in Nat
    BY <1>2, OpTyped DEF Ready, OpSet
  <2> QED
    BY <1>2, <2>1 DEF Ready, Typed, JobSet, Statuses
<1> HIDE DEF job
<1>5. /\ chain' \in Seq(JobSet) /\ DOMAIN chain' = 1..Len(chain) + 1
      /\ chain'[Len(chain) + 1] = job
      /\ \A e \in DOMAIN chain : e \in DOMAIN chain' /\ chain'[e] = chain[e]
      /\ \A e \in DOMAIN chain' : e \in DOMAIN chain \/ e = Len(chain) + 1
  BY <1>1, <1>4
<1>6. Grows
  BY <1>1, <1>5 DEF Grows
<1>7. Tables'
  <2>1. \A n \in DOMAIN rows' : rows'[n].jobId # 0 =>
            rows'[n].jobId \in DOMAIN chain' /\ chain'[rows'[n].jobId].spec = n
    BY <1>1, <1>2, <1>5 DEF Ready, Tables
  <2>2. \A e \in DOMAIN chain : Backed(chain[e].spec, rows', chain', vain')
    BY <1>2, <1>6, BackedStays DEF Ready, Tables
  <2>3. Backed(o.row, rows', chain', vain')
    BY <1>3, <1>6, BackedStays
  <2>4. \A e \in DOMAIN chain' : Backed(chain'[e].spec, rows', chain', vain')
    BY <1>4, <1>5, <2>2, <2>3
  <2>5. \A n \in DOMAIN rows' : rows'[n].parent # 0 => rows'[n].parent \in DOMAIN rows'
    BY <1>1, <1>2 DEF Ready, Tables
  <2> QED
    BY <2>1, <2>4, <2>5 DEF Tables
<1> HIDE DEF o
<1>8. mempool[i].kind # "cancel"
  BY <1>1 DEF o
<1>9. mempool' = RemoveAt(mempool, i) /\ UNCHANGED rows /\ Tell(mempool[i].by, TRUE)
  BY <1>1 DEF o
<1> QED
  BY <1>5, <1>6, <1>7, <1>8, <1>9, Resolved

LEMMA MarketKeeps ==
    ASSUME Inv, NEW id \in DOMAIN chain, Market(id)
    PROVE  Inv'
<1>1. UNCHANGED <<rows, mempool, proc, vain>>
  BY DEF Market, history
<1>2. PICK s \in Moves : chain[id].status = before(s) /\ chain' = [chain EXCEPT ![id].status = s]
  BY DEF Market
<1>3. Ready /\ s \in Statuses
  BY DEF Inv, Statuses
<1>4. chain[id].status \notin Final
  BY <1>2 DEF before, Final
<1>5. Grows /\ Tables' /\ chain' \in Seq(JobSet)
  BY <1>1, <1>2, <1>3, <1>4, StatusMoves
<1>6. Typed'
  BY <1>1, <1>3, <1>5 DEF Ready, Typed
<1>7. \A q \in Proc : Invocation(q, proc[q], rows', chain', vain')
  BY <1>3, <1>5, InvocationStays DEF Ready, Invocations
<1>8. \A k \in DOMAIN mempool : Operation(mempool[k], rows', chain', vain')
  BY <1>5, OperationStays DEF Inv, Operations
<1> QED
  BY <1>1, <1>5, <1>6, <1>7, <1>8 DEF Inv, Ready, Invocations, Operations

-----------------------------------------------------------------------------
(* What ends an invocation's wait, or its life.                             *)

LEMMA LetsGo ==
    ASSUME Inv, NEW p \in Proc, NEW r, UNCHANGED <<rows, chain, vain>>,
           proc' = [proc EXCEPT ![p] = r], Invocation(p, r, rows, chain, vain),
           mempool' = [i \in DOMAIN mempool |->
                          IF mempool[i].by = p THEN [mempool[i] EXCEPT !.by = Nobody] ELSE mempool[i]]
    PROVE  Inv'
<1>1. Grows /\ Tables'
  BY Same DEF Inv
<1>2. Turn(p, r)
  BY DEF Turn
<1>3. Invocations'
  BY <1>1, <1>2, TurnKeeps DEF Inv
<1>4. Operations' /\ mempool' \in Seq(OpSet)
  BY <1>1, <1>2, OpsLeft
<1>5. Typed'
  BY <1>4 DEF Inv, Ready, Typed
<1> QED
  BY <1>1, <1>3, <1>4, <1>5 DEF Inv, Ready

LEMMA GiveUpKeeps ==
    ASSUME Inv, NEW p \in Proc, GiveUp(p)
    PROVE  Inv'
<1> DEFINE r == next(p, proc[p].todo)
<1>1. /\ UNCHANGED <<rows, chain, vain>> /\ Step(p, r) /\ proc[p].pc \in Looping
      /\ mempool' = [i \in DOMAIN mempool |->
                          IF mempool[i].by = p THEN [mempool[i] EXCEPT !.by = Nobody] ELSE mempool[i]]
  BY DEF GiveUp, Disown, waiting, Looping, Sweeping, history, goOn
<1>2. Ready
  BY DEF Inv
<1>3. Invocation(p, proc[p], rows, chain, vain) /\ Invocation(p, r, rows, chain, vain)
  BY <1>1, <1>2, NextIs DEF Ready, Invocations
<1>4. proc' = [proc EXCEPT ![p] = r]
  BY <1>1, <1>3, StepToRecord DEF Invocation
<1> HIDE DEF r
<1> QED
  BY <1>1, <1>3, <1>4, LetsGo

LEMMA ReceiptErrorKeeps ==
    ASSUME Inv, NEW p \in Proc, ReceiptError(p)
    PROVE  Inv'
<1>1. /\ UNCHANGED <<rows, chain, vain>> /\ waiting(p) /\ Failed(p)
      /\ mempool' = [i \in DOMAIN mempool |->
                          IF mempool[i].by = p THEN [mempool[i] EXCEPT !.by = Nobody] ELSE mempool[i]]
  BY DEF ReceiptError, Disown, history
<1>2. Grows
  BY <1>1, Same DEF Inv
<1>3. PICK r : Turn(p, r)
  BY <1>1, <1>2, AnswerTurn
<1>4. proc' = [proc EXCEPT ![p] = r] /\ Invocation(p, r, rows, chain, vain)
  BY <1>1, <1>3 DEF Turn
<1> QED
  BY <1>1, <1>4, LetsGo

LEMMA CrashKeeps ==
    ASSUME Inv, NEW p \in Proc, Crash(p)
    PROVE  Inv'
<1>1. /\ UNCHANGED <<rows, chain, vain>> /\ proc' = [proc EXCEPT ![p] = Idle]
      /\ mempool' = [i \in DOMAIN mempool |->
                          IF mempool[i].by = p THEN [mempool[i] EXCEPT !.by = Nobody] ELSE mempool[i]]
  BY DEF Crash, Disown, history
<1>2. Invocation(p, Idle, rows, chain, vain)
  BY IdleIs
<1> QED
  BY <1>1, <1>2, LetsGo


(* Time changes what an invocation has left of it, and nothing else of it.  *)
Aged(r, a, b) == [r EXCEPT !.life = a, !.waited = b]

LEMMA AgedIs ==
    ASSUME NEW r, Shape(r), NEW a, NEW b
    PROVE  /\ Shape(Aged(r, a, b)) /\ Aged(r, a, b).pc = r.pc /\ Aged(r, a, b).todo = r.todo
           /\ Aged(r, a, b).row = r.row /\ Aged(r, a, b).seen = r.seen
           /\ Aged(r, a, b).links = r.links /\ Aged(r, a, b).life = a
<1> DEFINE s == Aged(r, a, b)
           t == [pc |-> r.pc, todo |-> r.todo, row |-> r.row, seen |-> r.seen, links |-> r.links,
                 tries |-> r.tries, waited |-> b, life |-> a]
           u == [pc |-> r.pc, todo |-> r.todo, row |-> r.row, seen |-> r.seen, links |-> r.links,
                 tries |-> r.tries, waited |-> r.waited, life |-> r.life]
           m == [pc |-> r.pc, todo |-> r.todo, row |-> r.row, seen |-> r.seen, links |-> r.links,
                 tries |-> r.tries, waited |-> r.waited, life |-> a]
<1>1. [u EXCEPT !.life = a, !.waited = b] = t
  <2>1. [u EXCEPT !.life = a] = m
    OBVIOUS
  <2>2. [m EXCEPT !.waited = b] = t
    OBVIOUS
  <2> HIDE DEF u, m, t
  <2> QED
    BY <2>1, <2>2
<1>2. s = t
  <2>1. r = u
    BY DEF Shape
  <2> HIDE DEF u, t
  <2> QED
    BY <1>1, <2>1 DEF Aged
<1>3. /\ t.pc = r.pc /\ t.todo = r.todo /\ t.row = r.row /\ t.seen = r.seen /\ t.links = r.links
      /\ t.life = a /\ Shape(t)
  BY DEF Shape
<1> QED
  BY <1>2, <1>3

LEMMA AgeKeeps ==
    ASSUME NEW p, NEW r, NEW s, Shape(s), s.pc = r.pc, s.todo = r.todo, s.row = r.row,
           s.seen = r.seen, s.links = r.links,
           NEW rw, NEW ch, NEW vn, Invocation(p, r, rw, ch, vn)
    PROVE  Invocation(p, s, rw, ch, vn)
<1>1. SeenOk(s, ch) /\ LinksOk(s, ch)
  BY DEF Invocation, SeenOk, LinksOk
<1>2. Raises(p, s, rw, ch, vn)
  BY DEF Invocation, Raises
<1> QED
  BY <1>1, <1>2 DEF Invocation

LEMMA TickKeeps ==
    ASSUME Inv, Tick
    PROVE  Inv'
<1>1. /\ UNCHANGED <<chain, mempool, vain>> /\ rows' = [n \in DOMAIN rows |-> older(rows[n])]
      /\ proc' = [p \in Proc |-> IF proc[p].pc = "idle" THEN proc[p]
                                 ELSE [proc[p] EXCEPT !.life = @ + 1,
                                          !.waited = IF waiting(p) THEN @ + 1 ELSE @]]
  BY DEF Tick, At, history
<1>2. Ready
  BY DEF Inv
<1>3. /\ rows \in Seq(RowSet) /\ Len(rows) \in Nat /\ DOMAIN rows = 1..Len(rows)
      /\ DOMAIN rows' = DOMAIN rows
      /\ \A n \in DOMAIN rows : rows'[n] = older(rows[n])
  <2>1. rows \in Seq(RowSet)
    BY <1>2 DEF Ready, Typed
  <2>2. DOMAIN rows' = DOMAIN rows /\ \A n \in DOMAIN rows : rows'[n] = older(rows[n])
    BY <1>1
  <2> QED
    BY <2>1, <2>2
<1>4. ASSUME NEW n \in DOMAIN rows
      PROVE  /\ rows'[n] \in RowSet
             /\ rows'[n].parent = rows[n].parent /\ rows'[n].jobId = rows[n].jobId
  <2>1. rows[n] \in RowSet /\ rows'[n] = older(rows[n])
    BY <1>3
  <2> QED
    BY <2>1 DEF older, RowSet
<1>5. rows' \in Seq(RowSet)
  <2>1. rows' = [n \in 1..Len(rows) |-> older(rows[n])]
    BY <1>1, <1>3
  <2>2. \A n \in 1..Len(rows) : older(rows[n]) \in RowSet
    BY <1>3, <1>4
  <2>3. rows' \in [1..Len(rows) -> RowSet]
    BY <2>1, <2>2
  <2> QED
    BY <1>3, <2>3
<1>6. Grows
  BY <1>1, <1>3, <1>4 DEF Grows
<1>7. Tables'
  <2>1. \A n \in DOMAIN rows' : rows'[n].jobId # 0 =>
            rows'[n].jobId \in DOMAIN chain' /\ chain'[rows'[n].jobId].spec = n
    BY <1>1, <1>2, <1>3, <1>4 DEF Ready, Tables
  <2>2. \A e \in DOMAIN chain' : Backed(chain'[e].spec, rows', chain', vain')
    BY <1>1, <1>2, <1>6, BackedStays DEF Ready, Tables
  <2>3. \A n \in DOMAIN rows' : rows'[n].parent # 0 => rows'[n].parent \in DOMAIN rows'
    BY <1>2, <1>3, <1>4 DEF Ready, Tables
  <2> QED
    BY <2>1, <2>2, <2>3 DEF Tables
<1>8. ASSUME NEW p \in Proc
      PROVE  /\ Invocation(p, proc'[p], rows', chain', vain')
             /\ proc'[p].pc = proc[p].pc /\ proc'[p].row = proc[p].row
  <2>1. Invocation(p, proc[p], rows, chain, vain)
    BY <1>2 DEF Ready, Invocations
  <2>2. Invocation(p, proc[p], rows', chain', vain')
    BY <1>6, <2>1, InvocationStays
  <2>3. CASE proc[p].pc = "idle"
    BY <1>1, <2>2, <2>3
  <2>4. CASE proc[p].pc # "idle"
    <3> DEFINE a == proc[p].life + 1
               b == IF waiting(p) THEN proc[p].waited + 1 ELSE proc[p].waited
    <3>1. proc'[p] = [proc[p] EXCEPT !.life = a, !.waited = b]
      BY <1>1, <2>4
    <3> HIDE DEF a, b
    <3>2. Shape(proc[p])
      BY <2>1 DEF Invocation
    <3> DEFINE s == Aged(proc[p], a, b)
    <3>3. /\ Shape(s) /\ s.pc = proc[p].pc /\ s.todo = proc[p].todo /\ s.row = proc[p].row
          /\ s.seen = proc[p].seen /\ s.links = proc[p].links
      BY <3>2, AgedIs
    <3>4. proc'[p] = s
      BY <3>1 DEF Aged
    <3> HIDE DEF s
    <3> QED
      BY <2>2, <3>3, <3>4, AgeKeeps
  <2> QED
    BY <2>3, <2>4
<1>9. Invocations'
  <2>1. proc' = [p \in Proc |-> proc'[p]]
    BY <1>1
  <2> QED
    BY <1>8, <2>1 DEF Invocations
<1>10. Operations'
  <2>1. ASSUME NEW k \in DOMAIN mempool
        PROVE  /\ Operation(mempool[k], rows', chain', vain')
               /\ mempool[k].by # Nobody => Awaited(mempool[k], proc'[mempool[k].by])
    <3>1. Operation(mempool[k], rows', chain', vain')
      BY <1>6, OperationStays DEF Inv, Operations
    <3>2. mempool[k].by # Nobody => mempool[k].by \in Proc
      BY <1>2, OpTyped DEF Ready
    <3>3. mempool[k].by # Nobody => Awaited(mempool[k], proc[mempool[k].by])
      BY DEF Inv, Operations
    <3>4. mempool[k].by # Nobody => Awaited(mempool[k], proc'[mempool[k].by])
      BY <1>8, <3>2, <3>3 DEF Awaited
    <3> QED
      BY <3>1, <3>4
  <2>2. \A i, j \in DOMAIN mempool : i # j => mempool[i].by # mempool[j].by \/ mempool[i].by = Nobody
    BY DEF Inv, Operations
  <2> QED
    BY <1>1, <2>1, <2>2 DEF Operations
<1>11. Typed'
  BY <1>1, <1>2, <1>5 DEF Ready, Typed
<1> QED
  BY <1>7, <1>9, <1>10, <1>11 DEF Inv, Ready

-----------------------------------------------------------------------------
LEMMA StartsBacked == Init => Inv
<1> SUFFICES ASSUME Init PROVE Inv
  OBVIOUS
<1>1. /\ rows = [n \in 1..Listed |-> Original(n)]
      /\ chain = [n \in 1..Listed |-> [spec |-> n, status |-> "Open"]]
      /\ mempool = <<>> /\ proc = [p \in Proc |-> Idle]
  BY DEF Init
<1>2. Listed \in Nat
  BY ConstantsOk
<1>3. DOMAIN rows = 1..Listed /\ DOMAIN chain = 1..Listed
  BY <1>1
<1>4. ASSUME NEW n \in 1..Listed
      PROVE  /\ rows[n] \in RowSet /\ rows[n].parent = 0 /\ rows[n].jobId = n
             /\ chain[n] \in JobSet /\ chain[n].spec = n
  <2>1. n \in Nat
    BY <1>2
  <2> QED
    BY <1>1, <2>1 DEF Original, RowSet, JobSet, Statuses
<1>5. Typed
  <2>1. rows \in [1..Listed -> RowSet] /\ chain \in [1..Listed -> JobSet]
    BY <1>1, <1>4
  <2>2. rows \in Seq(RowSet) /\ chain \in Seq(JobSet)
    BY <1>2, <2>1
  <2> QED
    BY <1>1, <2>2 DEF Typed
<1>6. Tables
  BY <1>3, <1>4 DEF Tables, Backed
<1>7. Invocations
  BY <1>1, IdleIs DEF Invocations
<1>8. Operations
  BY <1>1 DEF Operations
<1> QED
  BY <1>5, <1>6, <1>7, <1>8 DEF Inv, Ready

LEMMA InvocationKeeps ==
    ASSUME Inv, NEW p \in Proc,
           StartSweep(p) \/ StartResume(p) \/ Advance(p) \/ Skip(p) \/ GiveUp(p) \/ ReceiptError(p) \/ Crash(p)
    PROVE  Inv'
<1>1. CASE StartSweep(p)
  BY <1>1, StartSweepKeeps
<1>2. CASE StartResume(p)
  BY <1>2, StartResumeKeeps
<1>3. CASE WriteIntent(p)
  BY <1>3, WriteIntentKeeps
<1>4. CASE SendCancel(p)
  BY <1>4, SendCancelKeeps
<1>5. CASE SendPost(p)
  BY <1>5, SendPostKeeps
<1>6. CASE Link(p)
  BY <1>6, LinkKeeps
<1>7. CASE ReadChain(p)
  BY <1>7, ReadChainKeeps
<1>8. CASE ReadLinks(p)
  BY <1>8, ReadLinksKeeps
<1>9. CASE Backfill(p)
  BY <1>9, BackfillKeeps
<1>10. CASE Skip(p) \/ LeaveAlone(p)
  BY <1>10, SkipKeeps
<1>11. CASE Repost(p)
  BY <1>11, RepostKeeps
<1>12. CASE GiveUp(p)
  BY <1>12, GiveUpKeeps
<1>13. CASE Crash(p)
  BY <1>13, CrashKeeps
<1>14. CASE ReceiptError(p)
  BY <1>14, ReceiptErrorKeeps
<1> QED
  BY <1>1, <1>2, <1>3, <1>4, <1>5, <1>6, <1>7, <1>8, <1>9, <1>10, <1>11, <1>12, <1>13, <1>14
  DEF Advance

LEMMA StaysBacked == Inv /\ [Next]_vars => Inv'
<1> SUFFICES ASSUME Inv, [Next]_vars PROVE Inv'
  OBVIOUS
<1>1. CASE \E p \in Proc :
               StartSweep(p) \/ StartResume(p) \/ Advance(p) \/ Skip(p) \/ GiveUp(p) \/ ReceiptError(p) \/ Crash(p)
  BY <1>1, InvocationKeeps
<1>2. CASE \E id \in DOMAIN chain : Market(id)
  BY <1>2, MarketKeeps
<1>3. CASE \E i \in DOMAIN mempool : Drop(i)
  BY <1>3, DropKeeps
<1>4. CASE Land
  BY <1>4, LandCancelKeeps, LandPostKeeps DEF Land
<1>5. CASE Tick
  BY <1>5, TickKeeps
<1>6. CASE UNCHANGED vars
  <2>1. UNCHANGED <<rows, chain, mempool, proc, vain>>
    BY <1>6 DEF vars, history
  <2>2. UNCHANGED Typed /\ UNCHANGED Tables /\ UNCHANGED Invocations /\ UNCHANGED Operations
    BY <2>1 DEF Typed, Tables, Invocations, Operations
  <2> QED
    BY <2>2 DEF Inv, Ready
<1> QED
  BY <1>1, <1>2, <1>3, <1>4, <1>5, <1>6 DEF Next

(* PostsOnlyAfterRefund, whatever the number of jobs, of passes and of      *)
(* deaths, and whatever the leases and waits: raiseJobPrice and             *)
(* resumeOrphanedRaises escrow a replacement only once a posting of what it *)
(* replaces has given its escrow back, but for a cancel that reverted as it *)
(* was mined.                                                               *)
THEOREM ReplacementsFollowRefunds == Spec => []PostsOnlyAfterRefund
<1>1. Inv => PostsOnlyAfterRefund
  BY DEF Inv, Ready, Tables, Backed, GaveBack, Final, PostsOnlyAfterRefund, gaveBack
<1> QED
  BY <1>1, StartsBacked, StaysBacked, PTL DEF Spec

-----------------------------------------------------------------------------
(* One live posting of a piece of work, unless it was doubled.             *)

Posted(n, ch) == \E id \in DOMAIN ch : ch[id].spec = n

(* The rows that go back to one root are a line, with one row at its end,   *)
(* unless one of them was raised twice.                                     *)
Roots(f, rw) == f = [m \in DOMAIN rw |-> IF rw[m].parent = 0 THEN m ELSE f[rw[m].parent]]
Childless(n, rw) == \A m \in DOMAIN rw : rw[m].parent # n
Branched(f, rw, r) ==
    \E n, m \in DOMAIN rw :
        n # m /\ rw[n].parent = rw[m].parent /\ rw[n].parent # 0 /\ f[n] = r
OneEnd(f, rw, r) ==
    \A m, n \in DOMAIN rw :
        f[m] = r /\ f[n] = r /\ Childless(m, rw) /\ Childless(n, rw) => m = n
Lines ==
    /\ \E f : Roots(f, rows)
    /\ \A f : Roots(f, rows) => \A r : Branched(f, rows, r) \/ OneEnd(f, rows, r)
ParentsPosted == \A m \in DOMAIN rows : rows[m].parent # 0 => Posted(rows[m].parent, chain)
Descent == Lines /\ ParentsPosted

SameParents ==
    DOMAIN rows' = DOMAIN rows /\ \A n \in DOMAIN rows : rows'[n].parent = rows[n].parent
ChainGrows ==
    \A id \in DOMAIN chain : id \in DOMAIN chain' /\ chain'[id].spec = chain[id].spec

LEMMA LinesStay == Lines /\ SameParents => Lines'
<1> SUFFICES ASSUME Lines, SameParents PROVE Lines'
  OBVIOUS
<1>1. \A f : Roots(f, rows') <=> Roots(f, rows)
  <2> SUFFICES ASSUME NEW f PROVE Roots(f, rows') <=> Roots(f, rows)
    OBVIOUS
  <2>1. [m \in DOMAIN rows' |-> IF rows'[m].parent = 0 THEN m ELSE f[rows'[m].parent]]
        = [m \in DOMAIN rows |-> IF rows[m].parent = 0 THEN m ELSE f[rows[m].parent]]
    BY DEF SameParents
  <2> QED
    BY <2>1 DEF Roots
<1>2. \A f, r : OneEnd(f, rows, r) => OneEnd(f, rows', r)
  BY DEF OneEnd, Childless, SameParents
<1>3. \A f, r : Branched(f, rows, r) => Branched(f, rows', r)
  BY DEF Branched, SameParents
<1> QED
  BY <1>1, <1>2, <1>3 DEF Lines

(* A row that replaces the last of its line becomes the last; one that      *)
(* replaces another makes the line branch.                                  *)
LEMMA LinesGrow ==
    ASSUME Lines, Ready, NEW n \in DOMAIN rows, NEW row, row.parent = n,
           rows' = Append(rows, row), row \in RowSet
    PROVE  Lines'
<1> DEFINE new == Len(rows) + 1
<1>1. /\ rows \in Seq(RowSet) /\ Len(rows) \in Nat /\ DOMAIN rows = 1..Len(rows)
  BY DEF Ready, Typed
<1>2. /\ DOMAIN rows' = 1..new /\ rows'[new] = row /\ new \notin DOMAIN rows
      /\ \A m \in DOMAIN rows : m \in DOMAIN rows' /\ rows'[m] = rows[m]
      /\ \A m \in DOMAIN rows' : m \in DOMAIN rows \/ m = new
      /\ new \in DOMAIN rows'
  BY <1>1
<1>3. n # 0 /\ n # new
  BY <1>1
<1>4. \A m \in DOMAIN rows : rows[m].parent # 0 => rows[m].parent \in DOMAIN rows
  BY DEF Ready, Tables
<1> HIDE DEF new
<1>5. ASSUME NEW f, Roots(f, rows)
      PROVE  \E g : Roots(g, rows')
  <2> DEFINE g == [m \in DOMAIN rows' |-> IF m = new THEN f[n] ELSE f[m]]
             h == [m \in DOMAIN rows' |-> IF rows'[m].parent = 0 THEN m ELSE g[rows'[m].parent]]
  <2>1. \A m \in DOMAIN rows : f[m] = IF rows[m].parent = 0 THEN m ELSE f[rows[m].parent]
    BY <1>5 DEF Roots
  <2>2. ASSUME NEW m \in DOMAIN rows'
        PROVE  h[m] = g[m]
    <3>1. CASE m = new
      BY <1>2, <1>3, <3>1
    <3>2. CASE m \in DOMAIN rows
      <4>1. g[m] = f[m] /\ rows'[m].parent = rows[m].parent
        BY <1>2, <3>2
      <4>2. rows[m].parent # 0 => g[rows[m].parent] = f[rows[m].parent]
        BY <1>2, <1>4, <3>2
      <4> QED
        BY <2>1, <3>2, <4>1, <4>2
    <3> QED
      BY <1>2, <3>1, <3>2
  <2>3. h = g
    BY <2>2
  <2> QED
    BY <2>3 DEF Roots
<1>6. ASSUME NEW g, Roots(g, rows'), NEW r
      PROVE  Branched(g, rows', r) \/ OneEnd(g, rows', r)
  <2> DEFINE f == [m \in DOMAIN rows |-> g[m]]
             h == [m \in DOMAIN rows |-> IF rows[m].parent = 0 THEN m ELSE f[rows[m].parent]]
  <2>1. \A m \in DOMAIN rows' : g[m] = IF rows'[m].parent = 0 THEN m ELSE g[rows'[m].parent]
    BY <1>6 DEF Roots
  <2>2. \A m \in DOMAIN rows : h[m] = f[m]
    BY <1>2, <1>4, <2>1
  <2>3. Roots(f, rows)
    BY <2>2 DEF Roots
  <2>4. \A m \in DOMAIN rows : f[m] = g[m]
    OBVIOUS
  <2>5. Branched(f, rows, r) \/ OneEnd(f, rows, r)
    BY <2>3 DEF Lines
  <2> HIDE DEF f
  <2>6. g[new] = g[n]
    BY <1>2, <1>3, <2>1
  <2>7. CASE Branched(f, rows, r)
    BY <1>2, <2>4, <2>7 DEF Branched
  <2>8. CASE g[n] = r /\ ~Childless(n, rows)
    <3>1. PICK m \in DOMAIN rows : rows[m].parent = n
      BY <2>8 DEF Childless
    <3>2. m \in DOMAIN rows' /\ rows'[m].parent = n /\ m # new
      BY <1>2, <3>1
    <3> QED
      BY <1>2, <1>3, <2>6, <2>8, <3>2 DEF Branched
  <2>9. CASE OneEnd(f, rows, r) /\ (g[n] = r => Childless(n, rows))
    <3>1. \A m \in DOMAIN rows : Childless(m, rows') => Childless(m, rows) /\ m # n
      BY <1>2 DEF Childless
    <3>2. ASSUME NEW m \in DOMAIN rows, g[m] = r, g[new] = r, Childless(m, rows')
          PROVE  FALSE
      BY <2>4, <2>6, <2>9, <3>1, <3>2 DEF OneEnd
    <3>3. ASSUME NEW a \in DOMAIN rows', NEW b \in DOMAIN rows', g[a] = r, g[b] = r,
                 Childless(a, rows'), Childless(b, rows')
          PROVE  a = b
      <4>1. CASE a = new \/ b = new
        BY <1>2, <3>2, <3>3, <4>1
      <4>2. CASE a \in DOMAIN rows /\ b \in DOMAIN rows
        BY <2>4, <2>9, <3>1, <3>3, <4>2 DEF OneEnd
      <4> QED
        BY <1>2, <4>1, <4>2
    <3> QED
      BY <3>3 DEF OneEnd
  <2> QED
    BY <2>5, <2>7, <2>8, <2>9
<1> QED
  BY <1>5, <1>6 DEF Lines

(* The jobs of the contract keep the spec they were posted for.             *)
LEMMA ChainOnlyGrows == Inv /\ [Next]_vars => ChainGrows
<1> SUFFICES ASSUME Inv, [Next]_vars PROVE ChainGrows
  OBVIOUS
<1>1. chain \in Seq(JobSet)
  BY DEF Inv, Ready, Typed
<1>2. CASE UNCHANGED chain
  BY <1>2 DEF ChainGrows
<1>3. ASSUME NEW id \in DOMAIN chain, NEW s, chain' = [chain EXCEPT ![id].status = s]
      PROVE  ChainGrows
  <2>1. \A e \in DOMAIN chain : chain[e] \in JobSet
    BY <1>1
  <2> QED
    BY <1>3, <2>1 DEF ChainGrows, JobSet
<1>4. ASSUME NEW id \in DOMAIN chain, Market(id)
      PROVE  ChainGrows
  BY <1>3, <1>4 DEF Market
<1>5. ASSUME NEW i \in DOMAIN mempool, LandCancel(i)
      PROVE  ChainGrows
  <2>1. mempool[i].kind = "cancel" /\ mempool[i].job \in DOMAIN chain
    BY <1>5 DEF LandCancel, Inv, Operations, Operation
  <2> QED
    BY <1>2, <1>3, <1>5, <2>1 DEF LandCancel
<1>6. ASSUME NEW i \in DOMAIN mempool, LandPost(i)
      PROVE  ChainGrows
  <2>1. chain' = Append(chain, [spec |-> mempool[i].row, status |-> "Open"])
    BY <1>6 DEF LandPost
  <2>2. Len(chain) \in Nat /\ DOMAIN chain = 1..Len(chain)
    BY <1>1
  <2>3. \A e \in DOMAIN chain : e \in DOMAIN chain' /\ chain'[e] = chain[e]
    BY <1>1, <2>1, <2>2
  <2> QED
    BY <2>3 DEF ChainGrows
<1>7. CASE Next
  <2>1. ASSUME NEW p \in Proc,
               StartSweep(p) \/ StartResume(p) \/ Advance(p) \/ Skip(p)
               \/ GiveUp(p) \/ ReceiptError(p) \/ Crash(p)
        PROVE  UNCHANGED chain
    BY <2>1 DEF StartSweep, StartResume, Advance, Skip, GiveUp, ReceiptError, Crash, WriteIntent,
                SendCancel, SendPost, Send, Link, ReadChain, ReadLinks, Backfill, LeaveAlone, Repost
  <2>2. ASSUME NEW i \in DOMAIN mempool, Drop(i)
        PROVE  UNCHANGED chain
    BY <2>2 DEF Drop
  <2>3. CASE Tick
    BY <1>2, <2>3 DEF Tick
  <2> QED
    BY <1>2, <1>4, <1>5, <1>6, <1>7, <2>1, <2>2, <2>3 DEF Next, Land
<1> QED
  BY <1>2, <1>7 DEF vars

(* What a row replaces is settled when it is written.                       *)
LEMMA OnlyIntentsAdd ==
    ASSUME Inv, [Next]_vars, \A p \in Proc : ~WriteIntent(p)
    PROVE  SameParents
<1>1. rows \in Seq(RowSet)
  BY DEF Inv, Ready, Typed
<1>2. \A n \in DOMAIN rows : rows[n] \in RowSet
  BY <1>1
<1>3. CASE UNCHANGED rows
  BY <1>3 DEF SameParents
<1>4. ASSUME NEW n, NEW id, rows' = [rows EXCEPT ![n].jobId = id]
      PROVE  SameParents
  BY <1>2, <1>4 DEF SameParents, RowSet
<1>5. ASSUME NEW p \in Proc, Link(p)
      PROVE  SameParents
  BY <1>3, <1>4, <1>5 DEF Link
<1>6. ASSUME NEW p \in Proc, Backfill(p)
      PROVE  SameParents
  BY <1>4, <1>6 DEF Backfill
<1>7. ASSUME Tick
      PROVE  SameParents
  <2>1. rows' = [n \in DOMAIN rows |-> older(rows[n])]
    BY <1>7 DEF Tick
  <2>2. \A n \in DOMAIN rows : older(rows[n]).parent = rows[n].parent
    BY <1>2 DEF older, RowSet
  <2> QED
    BY <2>1, <2>2 DEF SameParents
<1>8. CASE Next
  <2>1. ASSUME NEW p \in Proc,
               StartSweep(p) \/ StartResume(p) \/ Advance(p) \/ Skip(p)
               \/ GiveUp(p) \/ ReceiptError(p) \/ Crash(p)
        PROVE  UNCHANGED rows \/ Link(p) \/ Backfill(p)
    BY <2>1 DEF StartSweep, StartResume, Advance, Skip, GiveUp, ReceiptError, Crash,
                SendCancel, SendPost, Send, ReadChain, ReadLinks, LeaveAlone, Repost
  <2>2. ASSUME NEW i \in DOMAIN mempool, Drop(i) \/ LandCancel(i) \/ LandPost(i)
        PROVE  UNCHANGED rows
    BY <2>2 DEF Drop, LandCancel, LandPost
  <2>3. ASSUME NEW id \in DOMAIN chain, Market(id)
        PROVE  UNCHANGED rows
    BY <2>3 DEF Market
  <2> QED
    BY <1>3, <1>5, <1>6, <1>7, <1>8, <2>1, <2>2, <2>3 DEF Next, Land
<1> QED
  BY <1>3, <1>8 DEF vars

LEMMA StartsInLine == Init => Descent
<1> SUFFICES ASSUME Init PROVE Descent
  OBVIOUS
<1>1. /\ DOMAIN rows = 1..Listed /\ \A n \in DOMAIN rows : rows[n].parent = 0
  BY ConstantsOk DEF Init, Original
<1>2. ParentsPosted
  BY <1>1 DEF ParentsPosted
<1> DEFINE f == [m \in DOMAIN rows |-> m]
<1>3. Roots(f, rows)
  <2>1. f = [m \in DOMAIN rows |-> IF rows[m].parent = 0 THEN m ELSE f[rows[m].parent]]
    BY <1>1
  <2> QED
    BY <2>1 DEF Roots
<1>4. ASSUME NEW g, Roots(g, rows), NEW r
      PROVE  OneEnd(g, rows, r)
  <2>1. \A m \in DOMAIN rows : g[m] = m
    BY <1>1, <1>4 DEF Roots
  <2> QED
    BY <2>1 DEF OneEnd
<1> HIDE DEF f
<1> QED
  BY <1>2, <1>3, <1>4 DEF Descent, Lines

LEMMA StaysInLine == Inv /\ Descent /\ [Next]_vars => Descent'
<1> SUFFICES ASSUME Inv, Descent, [Next]_vars PROVE Descent'
  OBVIOUS
<1>1. ChainGrows
  BY ChainOnlyGrows
<1>2. \A n : Posted(n, chain) => Posted(n, chain')
  BY <1>1 DEF ChainGrows, Posted
<1>3. CASE SameParents
  <2>1. ParentsPosted'
    BY <1>2, <1>3 DEF Descent, ParentsPosted, SameParents
  <2> QED
    BY <1>3, <2>1, LinesStay DEF Descent
<1>4. ASSUME NEW p \in Proc, WriteIntent(p)
      PROVE  Descent'
  <2>1. PICK n \in proc[p].todo : rows' = Append(rows, Intent(n))
    BY <1>4 DEF WriteIntent
  <2>2. Invocation(p, proc[p], rows, chain, vain) /\ proc[p].pc = "sweep"
    BY <1>4 DEF Inv, Ready, Invocations, WriteIntent, At
  <2>3. n \in DOMAIN rows /\ rows[n].jobId # 0
    BY <2>2 DEF Invocation, Raises, Sweeping
  <2>4. rows \in Seq(RowSet) /\ Len(rows) \in Nat /\ DOMAIN rows = 1..Len(rows) /\ Ready
    BY DEF Inv, Ready, Typed
  <2>5. Posted(n, chain)
    BY <2>3 DEF Inv, Ready, Tables, Posted
  <2>6. Intent(n) \in RowSet /\ Intent(n).parent = n
    BY <2>3, <2>4 DEF Intent, RowSet
  <2>7. Lines'
    BY <2>1, <2>3, <2>4, <2>6, LinesGrow DEF Descent
  <2>8. \A m \in DOMAIN rows' : \/ m \in DOMAIN rows /\ rows'[m] = rows[m]
                              \/ rows'[m] = Intent(n)
    BY <2>1, <2>4, <2>6
  <2>9. ParentsPosted'
    BY <1>2, <2>5, <2>6, <2>8 DEF Descent, ParentsPosted
  <2> QED
    BY <2>7, <2>9 DEF Descent
<1> QED
  BY <1>3, <1>4, OnlyIntentsAdd

(* root is the function that the lines are drawn by.                        *)
LEMMA RootIs ==
    ASSUME NEW g, Roots(g, rows)
    PROVE  \E f : Roots(f, rows) /\ \A n : root(n) = f[n]
<1> DEFINE up == CHOOSE f : f = [m \in DOMAIN rows |-> IF rows[m].parent = 0 THEN m ELSE f[rows[m].parent]]
<1>1. up = [m \in DOMAIN rows |-> IF rows[m].parent = 0 THEN m ELSE up[rows[m].parent]]
  BY DEF Roots
<1>2. \A n : root(n) = up[n]
  BY DEF root
<1> HIDE DEF up
<1> QED
  BY <1>1, <1>2 DEF Roots

(* Two live postings of a work that was not doubled: what replaces either   *)
(* is not posted, so it is the end of the line, and a line has one end.     *)
LEMMA OneStands == Inv /\ Descent => NeverBothStanding
<1> SUFFICES ASSUME Inv, Descent PROVE NeverBothStanding
  OBVIOUS
<1>1. /\ Tables /\ Lines /\ ParentsPosted /\ rows \in Seq(RowSet)
  BY DEF Inv, Ready, Descent, Typed
<1>2. 0 \notin DOMAIN rows
  BY <1>1
<1>3. PICK g : Roots(g, rows)
  BY <1>1 DEF Lines
<1>4. PICK f : Roots(f, rows) /\ \A n : root(n) = f[n]
  BY <1>3, RootIs
<1>5. \A m \in DOMAIN rows : f[m] = IF rows[m].parent = 0 THEN m ELSE f[rows[m].parent]
  BY <1>4 DEF Roots
<1> SUFFICES ASSUME NEW a \in DOMAIN chain, NEW b \in DOMAIN chain, a # b,
                    chain[a].status \in Live, chain[b].status \in Live,
                    f[chain[b].spec] = f[chain[a].spec],
                    ~Branched(f, rows, f[chain[a].spec]),
                    \A c, d \in DOMAIN chain : c # d /\ chain[c].spec = chain[d].spec
                                                 => f[chain[c].spec] # f[chain[a].spec],
                    \A n \in vain : f[n] # f[chain[a].spec]
             PROVE  FALSE
  BY <1>4 DEF NeverBothStanding, raisedTwice, postedTwice, cancelledInVain, Branched
<1> DEFINE x == chain[a].spec
           y == chain[b].spec
<1>6. x \in DOMAIN rows /\ y \in DOMAIN rows /\ x # y /\ f[x] = f[y]
  BY <1>1 DEF Tables, Backed
<1>7. ASSUME NEW id \in {a, b}, NEW m \in DOMAIN rows, rows[m].parent = chain[id].spec
      PROVE  ~Posted(m, chain)
  <2> SUFFICES ASSUME NEW e \in DOMAIN chain, chain[e].spec = m PROVE FALSE
    BY DEF Posted
  <2>1. Backed(m, rows, chain, vain) /\ rows[m].parent # 0
    BY <1>1, <1>2, <1>6, <1>7 DEF Tables
  <2>2. ~GaveBack(chain[id].spec, chain)
    BY <1>6, <1>7 DEF GaveBack, Live, Final
  <2>3. m \in vain
    BY <1>7, <2>1, <2>2 DEF Backed
  <2>4. f[m] = f[x]
    BY <1>5, <1>6, <1>7, <2>1
  <2> QED
    BY <2>3, <2>4
<1>8. \A m \in DOMAIN rows : ~Posted(m, chain) => Childless(m, rows)
  BY <1>1, <1>2 DEF ParentsPosted, Childless
<1>9. \A m \in DOMAIN rows : rows[m].parent \in {x, y} =>
         /\ ~Posted(m, chain) /\ Childless(m, rows) /\ f[m] = f[x]
  BY <1>2, <1>5, <1>6, <1>7, <1>8
<1>10. OneEnd(f, rows, f[x]) /\ Posted(x, chain) /\ Posted(y, chain)
  BY <1>1, <1>4 DEF Lines, Posted
<1> HIDE DEF x, y
<1>11. CASE Childless(x, rows) /\ Childless(y, rows)
  BY <1>6, <1>10, <1>11 DEF OneEnd
<1>12. ASSUME NEW m \in DOMAIN rows, rows[m].parent = x, Childless(y, rows)
       PROVE  FALSE
  BY <1>6, <1>9, <1>10, <1>12 DEF OneEnd
<1>13. ASSUME NEW m \in DOMAIN rows, rows[m].parent = y, Childless(x, rows)
       PROVE  FALSE
  BY <1>6, <1>9, <1>10, <1>13 DEF OneEnd
<1>14. ASSUME NEW m \in DOMAIN rows, rows[m].parent = x, NEW n \in DOMAIN rows, rows[n].parent = y
       PROVE  FALSE
  BY <1>6, <1>9, <1>10, <1>14 DEF OneEnd
<1> QED
  BY <1>11, <1>12, <1>13, <1>14 DEF Childless

(* NeverBothStanding, whatever the numbers, the leases and the ages, and    *)
(* whatever fails: two live postings of one piece of work are there only    *)
(* where a posting was raised twice, a row posted twice or a cancel mined   *)
(* in vain; raiseJobPrice and resumeOrphanedRaises have no other way to it. *)
THEOREM OneStandsUnlessDoubled == Spec => []NeverBothStanding
<1>1. Init => Inv /\ Descent
  BY StartsBacked, StartsInLine
<1>2. Inv /\ Descent /\ [Next]_vars => (Inv /\ Descent)'
  BY StaysBacked, StaysInLine
<1>3. Inv /\ Descent => NeverBothStanding
  BY OneStands
<1> QED
  BY <1>1, <1>2, <1>3, PTL DEF Spec
=============================================================================
