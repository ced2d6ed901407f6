------------------------ MODULE SpendEnvelope_proofs ------------------------
(***************************************************************************)
(* What a paid tool call takes from the day's budget, and the ceilings of  *)
(* the day, for any number of spends of any amount, any envelopes, any     *)
(* length of the day, and any deaths, lost writes, denied receipts and     *)
(* payments nobody heard of.                                               *)
(***************************************************************************)
EXTENDS SpendEnvelope, SumLemmas

Typed ==
    /\ now \in Nat /\ envelope \in Envelopes
    /\ pc \in [Spends -> Stages]
    /\ amount \in [Spends -> Nat] /\ paid \in [Spends -> Nat] /\ reserved \in [Spends -> Nat]
    /\ own \in [Spends -> Envelopes \cup {NoEnvelope}]
    /\ event \in [Spends -> Int] /\ gradedAt \in [Spends -> Int]
    /\ before \in [Spends -> SUBSET Spends] /\ alongside \in [Spends -> SUBSET Spends]

(* How far the entries of a spend are filled in: when it was graded, when   *)
(* its row was written, what it paid.                                       *)
Path(r) ==
    /\ pc[r] \in {"idle", "grade"} => gradedAt[r] = NEVER
    /\ pc[r] \notin {"idle", "grade"} => gradedAt[r] >= 0 /\ gradedAt[r] <= now
    /\ event[r] # NEVER => pc[r] \in {"recorded", "ended"} /\ event[r] >= gradedAt[r]
    /\ paid[r] \in {0, amount[r]}
    /\ pc[r] \in {"record", "paid"} => paid[r] = amount[r]
    /\ pc[r] \notin {"record", "paid", "ended"} => paid[r] = 0
    /\ r \in disowned => pc[r] \in {"disowned", "ended"}
    /\ pc[r] = "disowned" => r \in disowned

(* What a tool call may pay is held by its reservation until it is over,    *)
(* and by the reservation or the row from then on.                          *)
Covered(r) ==
    /\ pc[r] \notin {"stake", "record"} /\ r \notin blind /\ r \notin unchecked
    /\ r \notin disowned =>
          /\ pc[r] \in {"pay", "selected", "paid", "unheard"} => reserved[r] >= amount[r]
          /\ pc[r] = "recorded" => event[r] # NEVER
          /\ pc[r] = "ended" /\ paid[r] > 0 => reserved[r] >= paid[r] \/ event[r] # NEVER

(* A spend saw those that were allowed before it: one that is under way has *)
(* been so since.                                                           *)
Saw(s) ==
    /\ before[s] \subseteq Graded \ {s}
    /\ \A r \in before[s] : live(r) => r \in alongside[s]

Inv ==
    /\ Typed
    /\ \A r \in Spends : Path(r) /\ Saw(r)
    /\ \A r \in ToolCalls : Covered(r)

(* The sum of what was paid grows while the requests run, so the argument   *)
(* bounds the sum of what each may pay from the moment it is graded, which  *)
(* a step can only lower: the cap or the chosen price until it is over, and *)
(* what it paid from then on.                                               *)
may(r) == IF pc[r] = "ended" THEN paid[r] ELSE amount[r]
May == [r \in Spends |-> may(r)]
Counted(s) == dayOf(s) \ missedBy(s)
Fits(s) ==
    gradedAt[s] # NEVER /\ s \notin blind /\ s \notin unchecked => SumOf(May, Counted(s)) <= own[s].daily
Budget == \A s \in Spends : Fits(s)

-----------------------------------------------------------------------------
(* What a step that grades nothing does: the spends in D come to nothing,   *)
(* the others pay no more than they might have, and only a request that is  *)
(* under way writes its row.                                                *)
Goes(D) ==
    /\ \A r \in D : gradedAt'[r] = NEVER
    /\ \A r \in Spends \ D : /\ gradedAt'[r] = gradedAt[r]
                             /\ before'[r] = before[r] \ D /\ alongside'[r] = alongside[r] \ D
    /\ \A r \in D : before'[r] = {}
    /\ disowned \subseteq disowned' /\ blind \ D \subseteq blind' /\ unchecked \ D \subseteq unchecked'
    /\ \A r \in Graded \ D : /\ own'[r] = own[r] /\ may(r)' <= may(r) /\ (live(r)' => live(r))
                             /\ event[r] = NEVER /\ ~live(r) => event'[r] = NEVER

(* What one spend's step leaves alone.                                      *)
Unmoved(r) ==
    /\ pc'[r] = pc[r] /\ amount'[r] = amount[r] /\ paid'[r] = paid[r] /\ own'[r] = own[r]
    /\ event'[r] = event[r] /\ reserved'[r] = reserved[r] /\ gradedAt'[r] = gradedAt[r]
Leaves(r) == Unmoved(r) /\ now' = now /\ (r \in disowned' <=> r \in disowned)
             /\ (r \in blind' => r \in blind) /\ (r \in unchecked' => r \in unchecked)

LEMMA OfAnother ==
    ASSUME Inv, NEW r \in Spends, Leaves(r)
    PROVE  /\ Path(r)' /\ (r \in ToolCalls => Covered(r)')
           /\ may(r)' = may(r) /\ (live(r)' <=> live(r))
BY DEF Inv, Path, Covered, Leaves, Unmoved, may, live

LEMMA MayIsNat ==
    ASSUME Typed
    PROVE  May \in [Spends -> Nat] /\ \A r \in Spends : May[r] = may(r) /\ May[r] \in Nat
BY DEF Typed, May, may

(* The effect of the step of one spend, from what it does to that spend.    *)
LEMMA OneGoes ==
    ASSUME Inv, NEW x \in Spends, \A r \in Spends \ {x} : Leaves(r),
           UNCHANGED <<before, alongside, blind, unchecked>>, disowned \subseteq disowned',
           gradedAt'[x] = gradedAt[x],
           x \in Graded => /\ own'[x] = own[x] /\ may(x)' <= may(x) /\ (live(x)' => live(x))
                           /\ event[x] = NEVER /\ ~live(x) => event'[x] = NEVER
    PROVE  Goes({})
<1>1. ASSUME NEW r \in Graded, r # x
      PROVE  /\ own'[r] = own[r] /\ may(r)' <= may(r) /\ (live(r)' => live(r))
             /\ event[r] = NEVER => event'[r] = NEVER
  <2>1. r \in Spends /\ Leaves(r)
    BY <1>1 DEF Graded
  <2>2. may(r) \in Nat /\ may(r)' = may(r)
    BY <2>1, OfAnother DEF Inv, Typed, may
  <2>3. QED
    BY <2>1, <2>2, OfAnother DEF Leaves, Unmoved
<1>2. \A r \in Spends : gradedAt'[r] = gradedAt[r]
  BY DEF Leaves, Unmoved
<1>3. QED
  BY <1>1, <1>2 DEF Goes

LEMMA OneDrops ==
    ASSUME Inv, NEW x \in Spends, Dropped(x), UNCHANGED <<now, event, paid, disowned>>,
           reserved' \in {reserved, [reserved EXCEPT ![x] = 0]}
    PROVE  Goes({x}) /\ \A r \in Spends \ {x} : Leaves(r)
<1>1. /\ pc' = [pc EXCEPT ![x] = "idle"] /\ amount' = [amount EXCEPT ![x] = 0]
      /\ own' = [own EXCEPT ![x] = NoEnvelope] /\ gradedAt' = [gradedAt EXCEPT ![x] = NEVER]
      /\ before' = [r \in Spends |-> IF r = x THEN {} ELSE before[r] \ {x}]
      /\ alongside' = [r \in Spends |-> IF r = x THEN {} ELSE alongside[r] \ {x}]
      /\ blind' = blind \ {x} /\ unchecked' = unchecked \ {x}
  BY DEF Dropped, Goto
<1>2. ASSUME NEW r \in Spends \ {x}
      PROVE  Leaves(r)
  BY <1>1 DEF Inv, Typed, Leaves, Unmoved
<1>3. ASSUME NEW r \in Graded \ {x}
      PROVE  /\ own'[r] = own[r] /\ may(r)' <= may(r) /\ (live(r)' => live(r))
             /\ event[r] = NEVER => event'[r] = NEVER
  <2>1. r \in Spends /\ Leaves(r)
    BY <1>2, <1>3 DEF Graded
  <2>2. may(r) \in Nat /\ may(r)' = may(r)
    BY <2>1, OfAnother DEF Inv, Typed, may
  <2>3. QED
    BY <2>1, <2>2, OfAnother DEF Leaves, Unmoved
<1>4. /\ gradedAt'[x] = NEVER /\ before'[x] = {}
      /\ \A r \in Spends \ {x} : /\ gradedAt'[r] = gradedAt[r]
                                 /\ before'[r] = before[r] \ {x} /\ alongside'[r] = alongside[r] \ {x}
  BY <1>1 DEF Inv, Typed
<1>5. QED
  BY <1>1, <1>2, <1>3, <1>4 DEF Goes

(* A step that grades nothing keeps what each spend saw.                    *)
LEMMA StillSaw ==
    ASSUME Inv, NEW D \in SUBSET Spends, Goes(D)
    PROVE  \A s \in Spends : Saw(s)'
<1> SUFFICES ASSUME NEW s \in Spends
             PROVE  Saw(s)'
  OBVIOUS
<1>1. CASE s \in D
  BY <1>1 DEF Goes, Saw
<1>2. CASE s \notin D
  <2>1. before'[s] = before[s] \ D /\ alongside'[s] = alongside[s] \ D /\ Saw(s)
    BY <1>2 DEF Goes, Inv
  <2>2. ASSUME NEW r \in before'[s]
        PROVE  r \in Graded' \ {s} /\ (live(r)' => r \in alongside'[s])
    <3>1. r \in Graded \ D /\ r # s /\ r \in before[s]
      BY <2>1, <2>2 DEF Saw
    <3>2. gradedAt'[r] = gradedAt[r] /\ (live(r)' => live(r))
      BY <3>1 DEF Goes, Graded
    <3>3. QED
      BY <2>1, <3>1, <3>2 DEF Saw, Graded
  <2>3. QED
    BY <2>2 DEF Saw
<1>3. QED
  BY <1>1, <1>2

(* And lowers what the day of each may pay, as far as it was counted.       *)
LEMMA StillFits ==
    ASSUME Inv, Inv', Budget, NEW D \in SUBSET Spends, Goes(D)
    PROVE  Budget'
<1> SUFFICES ASSUME NEW s \in Spends, gradedAt'[s] # NEVER, s \notin blind', s \notin unchecked'
             PROVE  SumOf(May', Counted(s)') <= own'[s].daily
  BY DEF Budget, Fits
<1>1. s \notin D /\ gradedAt'[s] = gradedAt[s] /\ s \in Graded /\ s \notin blind /\ s \notin unchecked
  BY DEF Goes, Graded
<1>2. own'[s] = own[s] /\ before'[s] = before[s] \ D /\ alongside'[s] = alongside[s] \ D
  BY <1>1 DEF Goes
<1>3. before[s] \subseteq Graded /\ \A r \in before[s] : live(r) => r \in alongside[s]
  BY DEF Inv, Saw
<1>4. Counted(s)' \subseteq Counted(s)
  <2>1. ASSUME NEW r \in before'[s], r \in missedBy(s)
        PROVE  r \in missedBy(s)'
    <3>1. r \in Graded \ D /\ r \in before[s]
      BY <1>2, <1>3, <2>1
    <3>2. disowned \subseteq disowned' /\ (r \in alongside'[s] <=> r \in alongside[s])
          /\ (event[r] = NEVER /\ ~live(r) => event'[r] = NEVER)
      BY <1>2, <3>1 DEF Goes
    <3>3. CASE {r, s} \subseteq ToolCalls
      BY <2>1, <3>2, <3>3 DEF missedBy
    <3>4. CASE ~({r, s} \subseteq ToolCalls)
      BY <1>3, <2>1, <3>1, <3>2, <3>4 DEF missedBy
    <3>5. QED
      BY <3>3, <3>4
  <2>2. s \notin missedBy(s) /\ dayOf(s)' \subseteq dayOf(s)
    BY <1>2 DEF missedBy, dayOf, Inv, Saw
  <2>3. QED
    BY <2>1, <2>2 DEF Counted, dayOf
<1>5. \A r \in Counted(s)' : r \in Spends /\ may(r)' <= may(r)
  <2>1. \A r \in Counted(s)' : r \in before'[s] \/ r = s
    BY DEF Counted, dayOf
  <2>2. QED
    BY <1>1, <1>2, <1>3, <2>1 DEF Goes, Graded
<1>6. PICK F, G, A, B : F = May /\ G = May' /\ A = Counted(s) /\ B = Counted(s)'
  OBVIOUS
<1>7. A \subseteq Spends /\ B \subseteq A
  BY <1>3, <1>4, <1>6 DEF Counted, dayOf, Graded
<1>8. (\A r \in A : F[r] \in Nat) /\ \A r \in B : F[r] \in Int /\ G[r] \in Int /\ G[r] <= F[r]
  <2>1. \A r \in Spends : F[r] = may(r) /\ F[r] \in Nat
    BY <1>6, MayIsNat DEF Inv
  <2>2. \A r \in Spends : G[r] = may(r)' /\ G[r] \in Nat
    BY <1>6 DEF Inv, Typed, May, may
  <2>3. QED
    BY <1>5, <1>6, <1>7, <2>1, <2>2
<1>9. IsFiniteSet(A) /\ IsFiniteSet(B)
  BY <1>7, FiniteAssumption, FS_Subset
<1>10. SumOf(G, B) <= SumOf(F, B) /\ SumOf(F, B) <= SumOf(F, A)
  BY <1>7, <1>8, <1>9, SumMonotonic, SumWithin
<1>11. SumOf(G, B) \in Int /\ SumOf(F, B) \in Int /\ SumOf(F, A) \in Int
  BY <1>7, <1>8, <1>9, SumInt
<1>12. own[s].daily \in Nat /\ SumOf(F, A) <= own[s].daily
  BY <1>1, <1>6, SpendAssumption DEF Inv, Typed, NoEnvelope, Budget, Fits, Graded
<1>13. QED
  BY <1>2, <1>6, <1>10, <1>11, <1>12

-----------------------------------------------------------------------------
(* Grading sees every spend of the day it does not miss: what they may pay  *)
(* is within the sums it reads.                                             *)
LEMMA SumsAreInt ==
    ASSUME Inv
    PROVE  sumWindow \in Int /\ sumReserved \in Int
<1>1. IsFiniteSet({r \in Spends : inWindow(r)}) /\ IsFiniteSet({r \in ToolCalls : holds(r)})
  BY FiniteAssumption, FS_Subset DEF Spends
<1>2. sumWindow \in Int
  <2>1. sumWindow = SumOf(amount, {r \in Spends : inWindow(r)})
    BY DEF SumOf, SumOver, sumWindow
  <2>2. \A r \in {r \in Spends : inWindow(r)} : amount[r] \in Int
    BY DEF Inv, Typed
  <2>3. QED
    BY <1>1, <2>1, <2>2, SumInt
<1>3. sumReserved \in Int
  <2>1. sumReserved = SumOf(reserved, {r \in ToolCalls : holds(r)})
    BY DEF SumOf, SumOver, sumReserved
  <2>2. \A r \in {r \in ToolCalls : holds(r)} : reserved[r] \in Int
    BY DEF Inv, Typed, Spends
  <2>3. QED
    BY <1>1, <2>1, <2>2, SumInt
<1>4. QED
  BY <1>2, <1>3

(* A row that was written for a spend of the day is of the day.             *)
LEMMA RowsAreSeen ==
    ASSUME Inv, NEW r \in Spends, now - gradedAt[r] < DAY, event[r] # NEVER
    PROVE  inWindow(r) /\ may(r) <= amount[r]
BY SpendAssumption DEF Inv, Typed, Path, inWindow, may, NEVER

(* And what a tool call may pay, another one sees by one of the two.        *)
LEMMA ReservationsAreSeen ==
    ASSUME Inv, NEW r \in ToolCalls, r \in Graded, now - gradedAt[r] < DAY, r \notin disowned
    PROVE  may(r) = 0 \/ inWindow(r) \/ (holds(r) /\ may(r) <= reserved[r])
<1>1. r \in Spends /\ Path(r) /\ Covered(r)
  BY DEF Inv, Spends
<1>2. CASE event[r] # NEVER
  BY <1>1, <1>2, RowsAreSeen
<1>3. CASE event[r] = NEVER
  <2>1. pc[r] \in {"pay", "selected", "paid", "unheard", "ended"}
    BY <1>1, <1>3 DEF Path, Covered, Graded, Inv, Typed, Stages
  <2>2. amount[r] \in Nat /\ reserved[r] \in Nat /\ paid[r] \in Nat
    BY <1>1 DEF Inv, Typed
  <2>3. CASE pc[r] = "ended"
    <3>1. may(r) = paid[r] /\ (paid[r] > 0 => reserved[r] >= paid[r])
      BY <1>1, <1>3, <2>3 DEF Covered, may
    <3>2. QED
      BY <2>2, <3>1 DEF holds
  <2>4. CASE pc[r] # "ended"
    <3>1. may(r) = amount[r] /\ reserved[r] >= amount[r]
      BY <1>1, <2>1, <2>4 DEF Covered, may
    <3>2. QED
      BY <2>2, <3>1 DEF holds
  <2>5. QED
    BY <2>3, <2>4
<1>4. QED
  BY <1>2, <1>3

LEMMA SumsSeeTheDay ==
    ASSUME Inv, NEW R \in SUBSET {r \in Graded : now - gradedAt[r] < DAY}, NEW withTools \in BOOLEAN,
           \A r \in R : event[r] # NEVER \/ (withTools /\ r \in ToolCalls /\ r \notin disowned)
    PROVE  SumOf(May, R) <= sumWindow + (IF withTools THEN sumReserved ELSE 0)
<1> DEFINE W == {r \in Spends : inWindow(r)}
           H == IF withTools THEN {r \in ToolCalls : holds(r)} ELSE {}
<1>1. R \in SUBSET Spends /\ W \in SUBSET Spends /\ H \in SUBSET Spends
  BY DEF Graded, Spends
<1>2. \A r \in Spends : May[r] = may(r) /\ May[r] \in Nat /\ amount[r] \in Nat /\ reserved[r] \in Nat
  BY MayIsNat DEF Inv, Typed
<1>3. ASSUME NEW r \in R
      PROVE  may(r) <= (IF r \in W THEN amount[r] ELSE 0) + (IF r \in H THEN reserved[r] ELSE 0)
  <2>1. /\ r \in Spends /\ may(r) \in Nat /\ amount[r] \in Nat /\ reserved[r] \in Nat
        /\ r \in Graded /\ now - gradedAt[r] < DAY
    BY <1>1, <1>2, <1>3
  <2>2. CASE event[r] # NEVER
    <3>1. r \in W /\ may(r) <= amount[r]
      BY <2>1, <2>2, RowsAreSeen
    <3>2. QED
      BY <2>1, <3>1
  <2>3. CASE withTools /\ r \in ToolCalls /\ r \notin disowned
    <3>1. may(r) = 0 \/ inWindow(r) \/ (holds(r) /\ may(r) <= reserved[r])
      BY <2>1, <2>3, ReservationsAreSeen
    <3>2. may(r) <= amount[r]
      BY <2>1 DEF may, Inv, Typed, Path
    <3>3. holds(r) => r \in H
      BY <2>3
    <3>4. inWindow(r) => r \in W
      BY <2>1
    <3> HIDE DEF W, H
    <3>5. QED
      BY <2>1, <3>1, <3>2, <3>3, <3>4
  <2>4. QED
    BY <1>3, <2>2, <2>3
<1>4. SumOf(amount, W) = sumWindow /\ SumOf(reserved, H) = IF withTools THEN sumReserved ELSE 0
  <2>1. SumOf(amount, W) = sumWindow
    BY DEF SumOf, SumOver, sumWindow
  <2>2. SumOf(reserved, {r \in ToolCalls : holds(r)}) = sumReserved
    BY DEF SumOf, SumOver, sumReserved
  <2>3. SumOf(reserved, {}) = 0
    BY SumEmpty
  <2>4. QED
    BY <2>1, <2>2, <2>3
<1> HIDE DEF W, H
<1>5. SumOf(May, R) <= SumOf(amount, W) + SumOf(reserved, H)
  <2> PICK m, a, b : m = May /\ a = amount /\ b = reserved
    OBVIOUS
  <2>1. \A x \in Spends : m[x] \in Nat /\ a[x] \in Nat /\ b[x] \in Nat
    BY <1>2
  <2>2. \A x \in R : m[x] <= (IF x \in W THEN a[x] ELSE 0) + (IF x \in H THEN b[x] ELSE 0)
    BY <1>1, <1>2, <1>3
  <2>3. SumOf(m, R) <= SumOf(a, W) + SumOf(b, H)
    BY <1>1, <2>1, <2>2, FiniteAssumption, SumCovered
  <2>4. QED
    BY <2>3
<1>6. QED
  BY <1>4, <1>5

-----------------------------------------------------------------------------
(* A spend is allowed: with the sum in sight, or with none (blind), or      *)
(* without being graded at all.                                             *)
Checked(x) == sumWindow + (IF x \in ToolCalls THEN sumReserved ELSE 0) + amount[x] <= own[x].daily
Unseen(x) == x \in blind' \/ x \in unchecked'
Allows(x, label) ==
    /\ Allowed(x, label) /\ pc[x] \in {"idle", "grade"} /\ label \in {"pay", "stake"}
    /\ (Checked(x) /\ amount' = amount) \/ Unseen(x)
    /\ \A r \in Spends \ {x} : Leaves(r) /\ (r \in blind => r \in blind') /\ (r \in unchecked => r \in unchecked')
    /\ UNCHANGED <<now, own, event, paid, disowned>>

LEMMA AllowsSaw ==
    ASSUME Inv, NEW x \in Spends, NEW label, Allows(x, label)
    PROVE  /\ gradedAt[x] = NEVER /\ gradedAt'[x] = now /\ Graded' = Graded \cup {x} /\ x \notin Graded
           /\ before'[x] = {r \in Graded : now - gradedAt[r] < DAY}
           /\ alongside'[x] = {r \in Spends : live(r)}
           /\ \A r \in Spends \ {x} : before'[r] = before[r] /\ alongside'[r] = alongside[r]
           /\ \A s \in Spends : Saw(s)'
<1>1. gradedAt[x] = NEVER /\ gradedAt'[x] = now /\ now \in Nat /\ x \notin Graded
  BY DEF Inv, Typed, Path, Allows, Allowed, Graded
<1>2. \A r \in Spends \ {x} : gradedAt'[r] = gradedAt[r]
  BY DEF Allows, Leaves, Unmoved
<1>3. Graded' = Graded \cup {x}
  BY <1>1, <1>2 DEF Graded, NEVER
<1>4. /\ before'[x] = {r \in Graded : now - gradedAt[r] < DAY}
      /\ alongside'[x] = {r \in Spends : live(r)}
      /\ \A r \in Spends \ {x} : before'[r] = before[r] /\ alongside'[r] = alongside[r]
  BY DEF Inv, Typed, Allows, Allowed
<1>5. \A r \in Spends \ {x} : live(r)' <=> live(r)
  BY OfAnother DEF Allows
<1>6. ASSUME NEW s \in Spends
      PROVE  Saw(s)'
  <2>1. before'[s] \subseteq Graded /\ s \notin before'[s]
    BY <1>1, <1>4 DEF Inv, Saw
  <2>2. \A r \in before'[s] : r \in Spends \ {x} /\ (live(r) => r \in alongside'[s])
    BY <1>1, <1>4, <2>1 DEF Inv, Saw, Graded
  <2>3. QED
    BY <1>3, <1>5, <2>1, <2>2 DEF Saw
<1>7. QED
  BY <1>1, <1>3, <1>4, <1>6

(* The days of the others are what they were.                               *)
LEMMA AllowsLeaves ==
    ASSUME Inv, Inv', Budget, NEW x \in Spends, NEW label, Allows(x, label), NEW s \in Spends \ {x}
    PROVE  Fits(s)'
<1> SUFFICES ASSUME gradedAt'[s] # NEVER, s \notin blind', s \notin unchecked'
             PROVE  SumOf(May', Counted(s)') <= own'[s].daily
  BY DEF Fits
<1>1. /\ s \in Graded /\ gradedAt[s] # NEVER /\ before'[s] = before[s] /\ alongside'[s] = alongside[s]
      /\ own'[s] = own[s] /\ s \notin blind /\ s \notin unchecked /\ x \notin before[s]
      /\ before[s] \subseteq Graded /\ disowned' = disowned /\ event' = event
  BY AllowsSaw DEF Allows, Leaves, Unmoved, Graded, Inv, Saw
<1>2. Counted(s)' = Counted(s)
  BY <1>1 DEF Counted, dayOf, missedBy
<1>3. Counted(s) \subseteq Spends \ {x}
  BY <1>1 DEF Counted, dayOf, Graded
<1>4. \A r \in Counted(s) : May'[r] = May[r] /\ May[r] \in Int
  <2>1. \A r \in Spends \ {x} : may(r)' = may(r)
    BY OfAnother DEF Allows
  <2>2. \A r \in Spends : May[r] = may(r) /\ May[r] \in Nat /\ May'[r] = may(r)'
    BY MayIsNat DEF Inv, May
  <2>3. QED
    BY <1>3, <2>1, <2>2
<1>5. PICK F, G, S : F = May /\ G = May' /\ S = Counted(s)
  OBVIOUS
<1>6. IsFiniteSet(S)
  BY <1>3, <1>5, FiniteAssumption, FS_Subset
<1>7. SumOf(G, S) = SumOf(F, S)
  BY <1>4, <1>5, <1>6, SumEqual
<1>8. SumOf(May, Counted(s)) <= own[s].daily
  BY <1>1 DEF Budget, Fits
<1>9. QED
  BY <1>1, <1>2, <1>5, <1>7, <1>8

(* The new one's day fits, since the sum it passed covers it.               *)
LEMMA AllowsFits ==
    ASSUME Inv, Inv', NEW x \in Spends, NEW label, Allows(x, label)
    PROVE  Fits(x)'
<1> SUFFICES ASSUME x \notin blind', x \notin unchecked'
             PROVE  SumOf(May', Counted(x)') <= own'[x].daily
  BY DEF Fits
<1>1. Checked(x) /\ amount' = amount /\ own' = own /\ event' = event /\ disowned' = disowned
  BY DEF Allows, Unseen
<1> DEFINE R == Counted(x)' \ {x}
           tool == IF x \in ToolCalls THEN TRUE ELSE FALSE
<1>2. R \in SUBSET {r \in Graded : now - gradedAt[r] < DAY} /\ x \in Counted(x)' /\ x \notin R
      /\ Counted(x)' = R \cup {x}
  BY AllowsSaw DEF Counted, dayOf, missedBy
<1>3. R \in SUBSET Spends
  BY <1>2 DEF Graded
<1>4. tool \in BOOLEAN /\ (tool <=> x \in ToolCalls)
  OBVIOUS
<1>5. ASSUME NEW r \in R
      PROVE  event[r] # NEVER \/ (tool /\ r \in ToolCalls /\ r \notin disowned)
  <2>1. r \in before'[x] /\ r \notin missedBy(x)' /\ r \in Spends
    BY <1>3, <1>5 DEF Counted, dayOf
  <2>2. CASE {r, x} \subseteq ToolCalls
    <3>1. r \notin disowned \/ live(r)
      BY <1>1, <2>1, <2>2, AllowsSaw DEF missedBy
    <3>2. r \in disowned => ~live(r)
      BY <2>1 DEF Inv, Path, live
    <3>3. QED
      BY <1>4, <2>2, <3>1, <3>2
  <2>3. CASE ~({r, x} \subseteq ToolCalls)
    BY <1>1, <2>1, <2>3 DEF missedBy
  <2>4. QED
    BY <2>2, <2>3
<1> HIDE DEF R, tool
<1>6. SumOf(May, R) <= sumWindow + (IF tool THEN sumReserved ELSE 0)
  BY <1>2, <1>4, <1>5, SumsSeeTheDay
<1>7. \A r \in Spends : May[r] = may(r) /\ May[r] \in Nat /\ May'[r] = may(r)'
  BY MayIsNat DEF Inv, May
<1>8. (\A r \in R : May'[r] = May[r] /\ May[r] \in Int) /\ May'[x] = amount[x] /\ amount[x] \in Nat
  <2>1. \A r \in R : r \in Spends \ {x} /\ may(r)' = may(r)
    BY <1>2, <1>3, OfAnother DEF Allows
  <2>2. may(x)' = amount[x] /\ amount[x] \in Nat
    <3>1. pc'[x] = label /\ label # "ended"
      BY DEF Allows, Allowed, Goto, Inv, Typed
    <3>2. QED
      BY <1>1, <3>1 DEF may, Inv, Typed
  <2>3. QED
    BY <1>7, <2>1, <2>2
<1>9. PICK F, G, S, n : F = May /\ G = May' /\ S = Counted(x)' /\ n = amount[x]
  OBVIOUS
<1>10. IsFiniteSet(R) /\ IsFiniteSet(S) /\ x \in S /\ S \ {x} = R
  BY <1>2, <1>3, <1>9, FiniteAssumption, FS_Subset, FS_AddElement
<1>11. \A r \in S : G[r] \in Int
  BY <1>2, <1>8, <1>9
<1>12. SumOf(G, S) = G[x] + SumOf(G, R)
  BY <1>10, <1>11, SumSplit
<1>13. SumOf(G, R) = SumOf(F, R) /\ SumOf(F, R) \in Int
  <2>1. \A r \in R : G[r] = F[r] /\ F[r] \in Int
    BY <1>8, <1>9
  <2>2. QED
    BY <1>10, <2>1, SumEqual, SumInt
<1>14. own[x].daily \in Nat /\ sumWindow + (IF tool THEN sumReserved ELSE 0) + n <= own[x].daily
       /\ sumWindow \in Int /\ sumReserved \in Int
  BY <1>1, <1>4, <1>9, SumsAreInt, SpendAssumption DEF Checked, Inv, Typed, NoEnvelope
<1>15. SumOf(F, R) + n <= own[x].daily
  BY <1>6, <1>8, <1>9, <1>13, <1>14
<1>16. QED
  BY <1>1, <1>8, <1>9, <1>12, <1>13, <1>14, <1>15

-----------------------------------------------------------------------------
(* The steps.  Every one is of one of three kinds: one spend goes on or     *)
(* comes to nothing, one is allowed, or the owner or the clock moves.       *)
Moves(x) ==
    \/ \E a \in Amounts : envelopeFor(x, a)
    \/ Refuse(x) \/ Transfer(x) \/ recordSpend(x)
    \/ ReserveRefused(x) \/ Select(x) \/ NothingToPay(x)
    \/ FacilitatorSettles(x) \/ ReceiptFails(x) \/ settleReservation(x) \/ TimeOut(x)
    \/ Crash(x)
Admits(x) == checkSpend(x) \/ CheckBlind(x) \/ reserveSpend(x) \/ \E a \in Amounts : KeepUnchecked(x, a)
Settings == Tick \/ \E env \in Envelopes : setEnvelopeFor(env)

LEMMA NextIsOneOf == Next => (\E x \in Spends : Moves(x) \/ Admits(x)) \/ Settings
BY DEF Next, Moves, Admits, Settings

(* Each step keeps the entries well formed, and touches those of its own    *)
(* spend only.                                                              *)
Kept(x) ==
    /\ Typed' /\ Path(x)' /\ (x \in ToolCalls => Covered(x)')
    /\ \A r \in Spends \ {x} : Leaves(r)

LEMMA KeptInv ==
    ASSUME Inv, NEW x \in Spends, Kept(x), \A s \in Spends : Saw(s)'
    PROVE  Inv'
<1>1. \A r \in Spends : Path(r)' /\ (r \in ToolCalls => Covered(r)')
  BY OfAnother DEF Kept
<1>2. ToolCalls \subseteq Spends
  BY DEF Spends
<1>3. QED
  BY <1>1, <1>2 DEF Inv, Kept

LEMMA DropSteps ==
    ASSUME Inv, NEW x \in Spends, Refuse(x) \/ ReserveRefused(x) \/ NothingToPay(x)
    PROVE  Kept(x) /\ \E D \in SUBSET Spends : Goes(D)
<1>1. /\ Dropped(x) /\ UNCHANGED <<now, envelope, event, paid, disowned>>
      /\ reserved' \in {reserved, [reserved EXCEPT ![x] = 0]} /\ pc[x] \in {"grade", "pay", "stake"}
  BY DEF Refuse, ReserveRefused, NothingToPay, Tables
<1>2. /\ pc' = [pc EXCEPT ![x] = "idle"] /\ amount' = [amount EXCEPT ![x] = 0]
      /\ own' = [own EXCEPT ![x] = NoEnvelope] /\ gradedAt' = [gradedAt EXCEPT ![x] = NEVER]
      /\ before' = [r \in Spends |-> IF r = x THEN {} ELSE before[r] \ {x}]
      /\ alongside' = [r \in Spends |-> IF r = x THEN {} ELSE alongside[r] \ {x}]
      /\ blind' = blind \ {x} /\ unchecked' = unchecked \ {x}
  BY <1>1 DEF Dropped, Goto
<1>3. Typed'
  BY <1>1, <1>2 DEF Inv, Typed, Stages, NEVER
<1>4. Path(x)' /\ (x \in ToolCalls => Covered(x)')
  BY <1>1, <1>2 DEF Inv, Typed, Path, Covered
<1>5. Goes({x}) /\ \A r \in Spends \ {x} : Leaves(r)
  BY <1>1, OneDrops
<1>6. QED
  BY <1>3, <1>4, <1>5 DEF Kept

(* A spend that goes on: what its step does.                                *)
Onward(x, label) ==
    /\ Goto(x, label) /\ label \in Stages \ {"idle"}
    /\ UNCHANGED <<now, envelope, before, alongside, blind, unchecked, gradedAt>>
    /\ disowned' \in {disowned, disowned \cup {x}}
    /\ amount' \in [Spends -> Nat] /\ paid' \in [Spends -> Nat] /\ reserved' \in [Spends -> Nat]
    /\ event' \in [Spends -> Int] /\ own' \in [Spends -> Envelopes \cup {NoEnvelope}]
    /\ \A r \in Spends \ {x} : /\ amount'[r] = amount[r] /\ paid'[r] = paid[r] /\ own'[r] = own[r]
                               /\ event'[r] = event[r] /\ reserved'[r] = reserved[r]

LEMMA OnwardKeeps ==
    ASSUME Inv, NEW x \in Spends, NEW label, Onward(x, label)
    PROVE  Typed' /\ pc'[x] = label /\ \A r \in Spends \ {x} : Leaves(r)
BY DEF Inv, Typed, Onward, Goto, Leaves, Unmoved

LEMMA OnwardGoes ==
    ASSUME Inv, NEW x \in Spends, NEW label, Onward(x, label), Path(x)', x \in ToolCalls => Covered(x)',
           x \in Graded => /\ own'[x] = own[x] /\ may(x)' <= may(x) /\ (live(x)' => live(x))
                           /\ event[x] = NEVER /\ ~live(x) => event'[x] = NEVER
    PROVE  Kept(x) /\ \E D \in SUBSET Spends : Goes(D)
<1>1. Typed' /\ \A r \in Spends \ {x} : Leaves(r)
  BY OnwardKeeps
<1>2. Goes({})
  BY <1>1, OneGoes DEF Onward
<1>3. QED
  BY <1>1, <1>2 DEF Kept

(* The paths that do not reserve.                                           *)
LEMMA OtherMoves ==
    ASSUME Inv, NEW x \in Spends, Transfer(x) \/ recordSpend(x) \/ Crash(x) \/ \E a \in Amounts : envelopeFor(x, a)
    PROVE  Kept(x) /\ \E D \in SUBSET Spends : Goes(D)
<1>0. Typed /\ Path(x) /\ (x \in ToolCalls => Covered(x))
  BY DEF Inv
<1>1. CASE Transfer(x)
  <2>1. PICK label \in {"record", "ended"} : Goto(x, label)
    BY <1>1 DEF Transfer
  <2>2. /\ x \notin ToolCalls /\ pc[x] \in {"pay", "stake"} /\ paid' = [paid EXCEPT ![x] = amount[x]]
        /\ UNCHANGED <<now, envelope, amount, own, event, reserved, gradedAt, before, alongside, blind,
                       unchecked, disowned>>
    BY <1>1 DEF Transfer, Tables, History
  <2>3. Onward(x, label)
    BY <1>0, <2>1, <2>2 DEF Onward, Typed, Stages
  <2>4. pc'[x] = label /\ paid'[x] = amount[x]
    BY <1>0, <2>2, <2>3, OnwardKeeps DEF Typed
  <2>5. Path(x)' /\ may(x)' <= may(x) /\ live(x)
    BY <1>0, <2>2, <2>4 DEF Path, may, live, Typed, NEVER
  <2>6. QED
    BY <2>2, <2>3, <2>5, OnwardGoes
<1>2. CASE recordSpend(x)
  <2>1. /\ x \notin ToolCalls /\ pc[x] = "record" /\ Goto(x, "ended") /\ event' = [event EXCEPT ![x] = now]
        /\ UNCHANGED <<now, envelope, amount, own, reserved, gradedAt, paid, before, alongside, blind,
                       unchecked, disowned>>
    BY <1>2 DEF recordSpend, History
  <2>2. Onward(x, "ended")
    BY <1>0, <2>1 DEF Onward, Typed, Stages
  <2>3. pc'[x] = "ended" /\ event'[x] = now
    BY <1>0, <2>1, <2>2, OnwardKeeps DEF Typed
  <2>4. Path(x)' /\ may(x)' <= may(x) /\ live(x)
    BY <1>0, <2>1, <2>3 DEF Path, may, live, Typed
  <2>5. QED
    BY <2>1, <2>2, <2>4, OnwardGoes
<1>3. CASE Crash(x)
  <2>1. /\ pc[x] \in {"record", "pay"} /\ (pc[x] = "record" => x \notin ToolCalls) /\ Goto(x, "ended")
        /\ UNCHANGED <<now, envelope, amount, own, event, reserved, gradedAt, paid, before, alongside, blind,
                       unchecked, disowned>>
    BY <1>0, <1>3 DEF Crash, Covered, Tables, History
  <2>2. Onward(x, "ended")
    BY <1>0, <2>1 DEF Onward, Typed, Stages
  <2>3. pc'[x] = "ended"
    BY <1>0, <2>1, <2>2, OnwardKeeps DEF Typed
  <2>4. Path(x)' /\ may(x)' <= may(x) /\ live(x) /\ (x \in ToolCalls => Covered(x)')
    BY <1>0, <2>1, <2>3 DEF Path, Covered, may, live, Typed
  <2>5. QED
    BY <2>1, <2>2, <2>4, OnwardGoes
<1>4. ASSUME NEW a \in Amounts, envelopeFor(x, a)
      PROVE  Kept(x) /\ \E D \in SUBSET Spends : Goes(D)
  <2>1. PICK env \in Envelopes : own' = [own EXCEPT ![x] = env]
    BY <1>0, <1>4, SpendAssumption DEF envelopeFor, Typed
  <2>2. /\ pc[x] = "idle" /\ Goto(x, "grade") /\ amount' = [amount EXCEPT ![x] = a] /\ a \in Nat
        /\ UNCHANGED <<now, envelope, event, reserved, gradedAt, paid, before, alongside, blind,
                       unchecked, disowned>>
    BY <1>4, SpendAssumption DEF envelopeFor, Another, Tables, History
  <2>3. Onward(x, "grade")
    BY <1>0, <2>1, <2>2 DEF Onward, Typed, Stages
  <2>4. pc'[x] = "grade" /\ x \notin Graded
    BY <1>0, <2>2, <2>3, OnwardKeeps DEF Path, Graded
  <2>5. Path(x)' /\ (x \in ToolCalls => Covered(x)')
    BY <1>0, <2>2, <2>4 DEF Path, Covered, Typed
  <2>6. QED
    BY <2>3, <2>4, <2>5, OnwardGoes
<1>5. QED
  BY <1>1, <1>2, <1>3, <1>4

(* The path that does.                                                      *)
LEMMA ToolMoves ==
    ASSUME Inv, NEW x \in Spends,
           Select(x) \/ FacilitatorSettles(x) \/ ReceiptFails(x) \/ settleReservation(x) \/ TimeOut(x)
    PROVE  Kept(x) /\ \E D \in SUBSET Spends : Goes(D)
<1>0. Typed /\ Path(x) /\ x \in ToolCalls /\ Covered(x)
  BY DEF Inv, Select, FacilitatorSettles, ReceiptFails, settleReservation, TimeOut
<1>1. CASE Select(x)
  <2>1. PICK price \in 1..amount[x] : amount' = [amount EXCEPT ![x] = price]
    BY <1>1 DEF Select
  <2>2. /\ pc[x] = "pay" /\ Goto(x, "selected") /\ price \in Nat /\ price <= amount[x]
        /\ UNCHANGED <<now, envelope, own, event, reserved, gradedAt, paid, before, alongside, blind,
                       unchecked, disowned>>
    BY <1>0, <1>1, <2>1 DEF Select, Tables, History, Typed
  <2>3. Onward(x, "selected")
    BY <1>0, <2>1, <2>2 DEF Onward, Typed, Stages
  <2>4. pc'[x] = "selected" /\ amount'[x] = price
    BY <1>0, <2>1, <2>3, OnwardKeeps DEF Typed
  <2>5. Path(x)' /\ may(x)' <= may(x) /\ live(x) /\ Covered(x)'
    BY <1>0, <2>2, <2>4 DEF Path, Covered, may, live, Typed
  <2>6. QED
    BY <2>2, <2>3, <2>5, OnwardGoes
<1>2. CASE FacilitatorSettles(x)
  <2>1. PICK label \in {"paid", "ended"} : Goto(x, label) /\ (label = "paid" <=> pc[x] = "selected")
    BY <1>2 DEF FacilitatorSettles
  <2>2. /\ pc[x] \in {"selected", "unheard", "disowned", "recorded"} /\ paid' = [paid EXCEPT ![x] = amount[x]]
        /\ UNCHANGED <<now, envelope, amount, own, event, reserved, gradedAt, before, alongside, blind,
                       unchecked, disowned>>
    BY <1>2 DEF FacilitatorSettles, Tables, History
  <2>3. Onward(x, label)
    BY <1>0, <2>1, <2>2 DEF Onward, Typed, Stages
  <2>4. pc'[x] = label /\ paid'[x] = amount[x]
    BY <1>0, <2>2, <2>3, OnwardKeeps DEF Typed
  <2>5. Path(x)' /\ may(x)' <= may(x) /\ (live(x)' => live(x)) /\ Covered(x)'
    BY <1>0, <2>1, <2>2, <2>4 DEF Path, Covered, may, live, Typed
  <2>6. QED
    BY <2>2, <2>3, <2>5, OnwardGoes
<1>3. CASE ReceiptFails(x)
  <2>1. PICK label \in {"disowned", "ended"} : Goto(x, label) /\ (label = "ended" <=> pc[x] = "paid")
    BY <1>3 DEF ReceiptFails
  <2>2. /\ pc[x] \in {"selected", "paid"} /\ reserved' = [reserved EXCEPT ![x] = 0] /\ disowned' = disowned \cup {x}
        /\ UNCHANGED <<now, envelope, amount, own, event, gradedAt, paid, before, alongside, blind, unchecked>>
    BY <1>3 DEF ReceiptFails
  <2>3. Onward(x, label)
    BY <1>0, <2>1, <2>2 DEF Onward, Typed, Stages
  <2>4. pc'[x] = label /\ reserved'[x] = 0
    BY <1>0, <2>2, <2>3, OnwardKeeps DEF Typed
  <2>5. Path(x)' /\ may(x)' <= may(x) /\ live(x) /\ Covered(x)'
    BY <1>0, <2>1, <2>2, <2>4 DEF Path, Covered, may, live, Typed
  <2>6. QED
    BY <2>2, <2>3, <2>5, OnwardGoes
<1>4. CASE settleReservation(x)
  <2>1. PICK label \in {"recorded", "ended"} : Goto(x, label) /\ (label = "ended" <=> pc[x] = "paid")
    BY <1>4 DEF settleReservation
  <2>2. /\ pc[x] \in {"selected", "paid"} /\ reserved' = [reserved EXCEPT ![x] = 0] /\ event' = [event EXCEPT ![x] = now]
        /\ UNCHANGED <<now, envelope, amount, own, gradedAt, paid, before, alongside, blind, unchecked, disowned>>
    BY <1>4 DEF settleReservation, History
  <2>3. Onward(x, label)
    BY <1>0, <2>1, <2>2 DEF Onward, Typed, Stages
  <2>4. pc'[x] = label /\ event'[x] = now
    BY <1>0, <2>2, <2>3, OnwardKeeps DEF Typed
  <2>5. Path(x)' /\ may(x)' <= may(x) /\ live(x) /\ Covered(x)'
    BY <1>0, <2>1, <2>2, <2>4 DEF Path, Covered, may, live, Typed, NEVER
  <2>6. QED
    BY <2>2, <2>3, <2>5, OnwardGoes
<1>5. CASE TimeOut(x)
  <2>1. PICK label \in {"unheard", "ended"} : Goto(x, label) /\ (label = "ended" <=> pc[x] = "paid")
    BY <1>5 DEF TimeOut
  <2>2. /\ pc[x] \in {"selected", "paid"}
        /\ UNCHANGED <<now, envelope, amount, own, event, reserved, gradedAt, paid, before, alongside, blind,
                       unchecked, disowned>>
    BY <1>5 DEF TimeOut, Tables, History
  <2>3. Onward(x, label)
    BY <1>0, <2>1, <2>2 DEF Onward, Typed, Stages
  <2>4. pc'[x] = label
    BY <2>3, OnwardKeeps
  <2>5. Path(x)' /\ may(x)' <= may(x) /\ live(x) /\ Covered(x)'
    BY <1>0, <2>1, <2>2, <2>4 DEF Path, Covered, may, live, Typed
  <2>6. QED
    BY <2>2, <2>3, <2>5, OnwardGoes
<1>6. QED
  BY <1>1, <1>2, <1>3, <1>4, <1>5

LEMMA AdmitSteps ==
    ASSUME Inv, NEW x \in Spends, Admits(x)
    PROVE  Kept(x) /\ \E label \in Stages : Allows(x, label)
<1>0. Typed /\ Path(x) /\ (x \in ToolCalls => Covered(x)) /\ amount[x] \in Nat
  BY DEF Inv, Typed
<1>1. PICK label \in {"pay", "stake"} : Allowed(x, label) /\ (label = "stake" => x \notin ToolCalls)
  BY SpendAssumption DEF Admits, checkSpend, CheckBlind, reserveSpend, KeepUnchecked, Spends
<1>2. /\ pc' = [pc EXCEPT ![x] = label] /\ gradedAt' = [gradedAt EXCEPT ![x] = now]
      /\ before' = [before EXCEPT ![x] = {r \in Graded : now - gradedAt[r] < DAY}]
      /\ alongside' = [alongside EXCEPT ![x] = {r \in Spends : live(r)}]
  BY <1>1 DEF Allowed, Goto
<1>3. /\ pc[x] \in {"idle", "grade"} /\ UNCHANGED <<now, envelope, own, event, paid, disowned>>
      /\ blind' \in {blind, blind \cup {x}} /\ unchecked' \in {unchecked, unchecked \cup {x}}
      /\ (x \in ToolCalls => blind' = blind /\ unchecked' = unchecked /\ amount' = amount
                              /\ reserved' = [reserved EXCEPT ![x] = amount[x]])
      /\ reserved' = reserved \/ reserved' = [reserved EXCEPT ![x] = amount[x]]
      /\ amount' = amount \/ \E a \in Nat : amount' = [amount EXCEPT ![x] = a]
  BY SpendAssumption DEF Admits, checkSpend, CheckBlind, reserveSpend, KeepUnchecked, Another, Tables, Spends
<1>4. Typed'
  <2>1. amount' \in [Spends -> Nat] /\ reserved' \in [Spends -> Nat]
    BY <1>0, <1>3 DEF Typed
  <2>2. PICK B \in SUBSET Spends, A \in SUBSET Spends : before' = [before EXCEPT ![x] = B]
                                                       /\ alongside' = [alongside EXCEPT ![x] = A]
    BY <1>2 DEF Graded
  <2>3. before' \in [Spends -> SUBSET Spends] /\ alongside' \in [Spends -> SUBSET Spends]
    BY <1>0, <2>2 DEF Typed
  <2>4. pc' \in [Spends -> Stages] /\ gradedAt' \in [Spends -> Int]
    BY <1>0, <1>1, <1>2 DEF Typed, Stages
  <2>5. QED
    BY <1>0, <1>3, <2>1, <2>3, <2>4 DEF Typed
<1>5. \A r \in Spends \ {x} : Leaves(r) /\ (r \in blind => r \in blind') /\ (r \in unchecked => r \in unchecked')
  <2> SUFFICES ASSUME NEW r \in Spends \ {x}
               PROVE  Leaves(r) /\ (r \in blind => r \in blind') /\ (r \in unchecked => r \in unchecked')
    OBVIOUS
  <2>1. /\ pc'[r] = pc[r] /\ gradedAt'[r] = gradedAt[r] /\ paid'[r] = paid[r] /\ own'[r] = own[r]
        /\ event'[r] = event[r]
    BY <1>0, <1>2, <1>3 DEF Typed
  <2>2. amount'[r] = amount[r]
    BY <1>0, <1>3 DEF Typed
  <2>3. reserved'[r] = reserved[r]
    BY <1>0, <1>3 DEF Typed
  <2>4. (r \in blind' <=> r \in blind) /\ (r \in unchecked' <=> r \in unchecked)
    BY <1>3
  <2>5. QED
    BY <1>3, <2>1, <2>2, <2>3, <2>4 DEF Leaves, Unmoved
<1>6. /\ pc'[x] = label /\ gradedAt'[x] = now /\ event[x] = NEVER /\ paid[x] = 0
      /\ x \notin disowned /\ (x \in ToolCalls => reserved'[x] = amount'[x] /\ label = "pay")
  BY <1>0, <1>1, <1>2, <1>3 DEF Typed, Path
<1>7. Path(x)'
  BY <1>0, <1>1, <1>3, <1>6 DEF Path, Typed
<1>8. x \in ToolCalls => Covered(x)'
  BY <1>0, <1>3, <1>4, <1>6 DEF Covered, Typed
<1>9. (Checked(x) /\ amount' = amount) \/ Unseen(x)
  <2>1. CASE checkSpend(x)
    BY <2>1, SumsAreInt DEF checkSpend, gradeSpend, Checked
  <2>2. CASE reserveSpend(x)
    BY <2>2 DEF reserveSpend, gradeSpend, Checked
  <2>3. CASE CheckBlind(x)
    BY <2>3 DEF CheckBlind, Unseen
  <2>4. CASE \E a \in Amounts : KeepUnchecked(x, a)
    BY <2>4 DEF KeepUnchecked, Unseen
  <2>5. QED
    BY <2>1, <2>2, <2>3, <2>4 DEF Admits
<1>10. QED
  BY <1>1, <1>3, <1>4, <1>5, <1>7, <1>8, <1>9 DEF Kept, Allows, Stages

LEMMA SettingSteps ==
    ASSUME Inv, Settings \/ UNCHANGED vars
    PROVE  Inv' /\ Goes({})
<1>1. /\ now' \in Nat /\ now <= now' /\ envelope' \in Envelopes
      /\ UNCHANGED <<pc, amount, own, event, reserved, gradedAt, paid, before, alongside, blind, unchecked, disowned>>
  BY DEF Inv, Typed, Settings, Tick, setEnvelopeFor, Tables, History, vars
<1>2. Inv'
  <2>1. Typed'
    BY <1>1 DEF Inv, Typed
  <2>2. ASSUME NEW r \in Spends
        PROVE  Path(r)' /\ Saw(r)'
    <3>1. Path(r)'
      BY <1>1, <2>2 DEF Inv, Typed, Path
    <3>2. Saw(r)'
      BY <1>1, <2>2 DEF Inv, Saw, Graded, live
    <3>3. QED
      BY <3>1, <3>2
  <2>3. \A r \in ToolCalls : Covered(r)'
    BY <1>1 DEF Inv, Covered
  <2>4. QED
    BY <2>1, <2>2, <2>3 DEF Inv
<1>3. Goes({})
  <2>1. \A r \in Spends : may(r)' = may(r) /\ may(r) \in Nat /\ (live(r)' <=> live(r))
    BY <1>1 DEF may, live, Inv, Typed
  <2>2. QED
    BY <1>1, <2>1 DEF Goes, Graded
<1>4. QED
  BY <1>2, <1>3

LEMMA StepKeeps ==
    ASSUME Inv, [Next]_vars
    PROVE  Inv' /\ (Budget => Budget')
<1>1. ASSUME NEW x \in Spends, Moves(x)
      PROVE  Inv' /\ (Budget => Budget')
  <2>1. Kept(x) /\ \E D \in SUBSET Spends : Goes(D)
    BY <1>1, DropSteps, OtherMoves, ToolMoves DEF Moves
  <2>2. Inv'
    BY <2>1, StillSaw, KeptInv
  <2>3. QED
    BY <2>1, <2>2, StillFits
<1>2. ASSUME NEW x \in Spends, Admits(x)
      PROVE  Inv' /\ (Budget => Budget')
  <2>1. Kept(x)
    BY <1>2, AdmitSteps
  <2>2. PICK label \in Stages : Allows(x, label)
    BY <1>2, AdmitSteps
  <2>3. Inv'
    <3>1. \A s \in Spends : Saw(s)'
      BY <2>2, AllowsSaw
    <3>2. QED
      BY <2>1, <3>1, KeptInv
  <2>4. ASSUME Budget, NEW s \in Spends
        PROVE  Fits(s)'
    BY <2>2, <2>3, <2>4, AllowsLeaves, AllowsFits
  <2>5. QED
    BY <2>3, <2>4 DEF Budget
<1>3. CASE Settings \/ UNCHANGED vars
  <2>1. Inv' /\ Goes({})
    BY <1>3, SettingSteps
  <2>2. {} \in SUBSET Spends
    OBVIOUS
  <2>3. QED
    BY <2>1, <2>2, StillFits
<1>4. QED
  BY <1>1, <1>2, <1>3, NextIsOneOf

LEMMA InvHolds == Spec => []Inv /\ []Budget
<1>1. Init => Inv /\ Budget
  <2> SUFFICES ASSUME Init  PROVE  Inv /\ Budget
    OBVIOUS
  <2>1. ToolCalls \subseteq Spends
    BY DEF Spends
  <2>2. Typed
    BY DEF Init, Typed, Stages, NEVER
  <2>3. \A r \in Spends : Path(r) /\ Saw(r) /\ gradedAt[r] = NEVER
    BY DEF Init, Path, Saw, NEVER
  <2>4. \A r \in ToolCalls : Covered(r)
    BY <2>1 DEF Init, Covered
  <2>5. QED
    BY <2>2, <2>3, <2>4 DEF Inv, Budget, Fits
<1>2. Inv /\ Budget /\ [Next]_vars => (Inv /\ Budget)'
  BY StepKeeps
<1>3. QED
  BY <1>1, <1>2, PTL DEF Spec

-----------------------------------------------------------------------------
(* What a tool call paid is counted for the day of its grading, at every    *)
(* moment and in full, by the reservation until the row is written and by   *)
(* the row from then on, which stays in the window at least as long: unless *)
(* the receipt denied the payment, which is the only case of a signed       *)
(* payment that nothing counts.                                             *)
THEOREM ToolSpendIsCounted == Spec => []PaidIsCounted
<1>1. Inv => PaidIsCounted
  <2> SUFFICES ASSUME Inv, NEW s \in ToolCalls \ disowned, paid[s] > 0, now - gradedAt[s] < DAY
               PROVE  (inWindow(s) /\ amount[s] = paid[s]) \/ (holds(s) /\ reserved[s] >= paid[s])
    BY DEF PaidIsCounted
  <2>1. s \in Spends /\ Typed /\ Path(s) /\ Covered(s)
    BY DEF Inv, Spends
  <2>2. pc[s] \in {"paid", "ended"} /\ paid[s] = amount[s]
    BY <2>1 DEF Path, Covered
  <2>3. CASE reserved[s] >= paid[s]
    BY <2>1, <2>3 DEF Typed, holds
  <2>4. CASE event[s] # NEVER
    BY <2>1, <2>2, <2>4, RowsAreSeen
  <2>5. pc[s] = "paid" => reserved[s] >= paid[s]
    BY <2>1, <2>2 DEF Covered
  <2>6. pc[s] = "ended" => reserved[s] >= paid[s] \/ event[s] # NEVER
    BY <2>1 DEF Covered
  <2>7. QED
    BY <2>2, <2>3, <2>4, <2>5, <2>6
<1>2. QED
  BY <1>1, InvHolds, PTL

(* What was paid is no more than what might have been.                      *)
LEMMA PaidWithinMay ==
    ASSUME Inv, Budget, NEW s \in Spends, gradedAt[s] # NEVER, s \notin blind, s \notin unchecked
    PROVE  spentUpTo(s) <= own[s].daily
<1> PICK p, m, S : p = paid /\ m = May /\ S = Counted(s)
  OBVIOUS
<1>1. IsFiniteSet(S) /\ S \subseteq Spends
  BY FiniteAssumption, FS_Subset DEF Counted, dayOf, Inv, Typed
<1>2. \A x \in S : p[x] \in Int /\ m[x] \in Int /\ p[x] <= m[x]
  <2>1. ASSUME NEW x \in S
        PROVE  p[x] \in Int /\ m[x] \in Int /\ p[x] <= m[x]
    <3>1. x \in Spends /\ m[x] = may(x) /\ m[x] \in Nat
      BY <1>1, MayIsNat DEF Inv
    <3>2. p[x] \in Nat /\ p[x] \in {0, amount[x]} /\ amount[x] \in Nat
      BY <3>1 DEF Inv, Typed, Path
    <3>3. QED
      BY <3>1, <3>2 DEF may
  <2>2. QED
    BY <2>1
<1>3. SumOf(p, S) <= SumOf(m, S) /\ SumOf(p, S) \in Int /\ SumOf(m, S) \in Int
  BY <1>1, <1>2, SumMonotonic, SumInt
<1>4. spentUpTo(s) = SumOf(p, S)
  BY DEF SumOver, SumOf, spentUpTo, Counted
<1>5. SumOf(m, S) <= own[s].daily /\ own[s].daily \in Nat
  BY SpendAssumption DEF Budget, Fits, Inv, Typed, NoEnvelope
<1>6. QED
  BY <1>3, <1>4, <1>5

LEMMA PaidIsGraded == ASSUME Inv, NEW s \in Spends, paid[s] > 0 PROVE gradedAt[s] # NEVER
BY DEF Inv, Typed, Path, NEVER

(* A tool call never pays past the envelope it read, together with the tool *)
(* calls of its day and the rows written before it was graded: reserving    *)
(* under a lock bounds what the calls may still pay, and nothing later      *)
(* raises it.  Payments that a receipt had denied are outside the bound.    *)
THEOREM ToolsKeepToTheEnvelope == Spec => []ToolsStayInEnvelope
<1>1. Inv /\ Budget => ToolsStayInEnvelope
  <2> SUFFICES ASSUME Inv, Budget, NEW s \in ToolCalls, paid[s] > 0
               PROVE  spentUpTo(s) <= own[s].daily
    BY DEF ToolsStayInEnvelope
  <2>1. s \in Spends /\ s \notin blind /\ s \notin unchecked
    BY DEF Inv, Covered, Spends
  <2>2. QED
    BY <2>1, PaidIsGraded, PaidWithinMay
<1>2. QED
  BY <1>1, InvHolds, PTL

(* A transfer or bond that was graded with the ledger in sight keeps within *)
(* the ceiling together with every spend of its day that had its row by     *)
(* then, whoever let that one through.                                      *)
THEOREM RecordedSpendsKeepToTheCeiling == Spec => []CeilingHolds
<1>1. Inv /\ Budget => CeilingHolds
  <2> SUFFICES ASSUME Inv, Budget, NEW s \in (Transfers \cup Bonds) \ (blind \cup unchecked), paid[s] > 0
               PROVE  spentUpTo(s) <= own[s].daily
    BY DEF CeilingHolds
  <2>1. s \in Spends /\ s \notin blind /\ s \notin unchecked
    BY DEF Spends
  <2>2. QED
    BY <2>1, PaidIsGraded, PaidWithinMay
<1>2. QED
  BY <1>1, InvHolds, PTL
=============================================================================
