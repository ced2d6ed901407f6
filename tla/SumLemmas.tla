------------------------------ MODULE SumLemmas ------------------------------
(***************************************************************************)
(* Sums over finite sets: what MapThenSumSet adds up, whatever the order   *)
(* it takes the elements in.  The induction is over a finite set and the   *)
(* sets inside it, and is stated of a set `Good' of sets, for the provers  *)
(* do not instantiate an operator.                                         *)
(***************************************************************************)
EXTENDS Integers, FiniteSetsExt, FiniteSetTheorems, WellFoundedInduction, TLAPS

SumOf(f, S) == MapThenSumSet(LAMBDA x : f[x], S)

-----------------------------------------------------------------------------
(* Induction.                                                               *)

(* Among some subsets of a finite set one has no other inside it. *)
LEMMA MinimalSubset ==
    ASSUME NEW S, IsFiniteSet(S), NEW Family, Family \subseteq SUBSET S, Family # {}
    PROVE  \E T \in Family : \A U \in Family : ~(U \subseteq T /\ U # T)
<1>1. IsWellFoundedOn(StrictSubsetOrdering(S), FiniteSubsetsOf(S))
  BY FS_StrictSubsetOrderingWellFounded
<1>2. Family \subseteq FiniteSubsetsOf(S)
  BY FS_Subset DEF FiniteSubsetsOf
<1>3. PICK T \in Family : \A U \in Family : ~(<<U, T>> \in StrictSubsetOrdering(S))
  BY <1>1, <1>2, WFMin
<1>4. QED
  BY <1>3 DEF StrictSubsetOrdering

(* What holds of a set when it holds of all the sets strictly inside it     *)
(* holds of every finite set.                                               *)
LEMMA StrongSetInduction ==
    ASSUME NEW S, IsFiniteSet(S), NEW Good,
           \A T \in SUBSET S : (\A U \in SUBSET T : U # T => U \in Good) => T \in Good
    PROVE  SUBSET S \subseteq Good
<1> DEFINE Bad == {T \in SUBSET S : T \notin Good}
<1>1. SUFFICES ASSUME Bad # {}
               PROVE  FALSE
  OBVIOUS
<1>2. Bad \subseteq SUBSET S
  OBVIOUS
<1>3. PICK T \in Bad : \A U \in Bad : ~(U \subseteq T /\ U # T)
  <2> HIDE DEF Bad
  <2>1. QED
    BY <1>1, <1>2, MinimalSubset
<1>4. \A U \in SUBSET T : U # T => U \in Good
  BY <1>3
<1>5. QED
  BY <1>4

(* The element a sum takes first. *)
Some(s) == CHOOSE x \in s : TRUE

(* It is enough to take the first element away. *)
LEMMA SetInduction ==
    ASSUME NEW S, IsFiniteSet(S), NEW Good, {} \in Good,
           \A T \in SUBSET S : T # {} /\ T \ {Some(T)} \in Good => T \in Good
    PROVE  SUBSET S \subseteq Good
<1>1. ASSUME NEW T \in SUBSET S, \A U \in SUBSET T : U # T => U \in Good
      PROVE  T \in Good
  <2>1. CASE T = {}
    BY <2>1
  <2>2. CASE T # {}
    <3>1. Some(T) \in T
      BY <2>2 DEF Some
    <3>2. T \ {Some(T)} \in Good
      BY <1>1, <3>1
    <3>3. QED
      BY <2>2, <3>2
  <2>3. QED
    BY <2>1, <2>2
<1>2. QED
  BY <1>1, StrongSetInduction

(* The same of the natural numbers. *)
LEMMA NatInductionOnSet ==
    ASSUME NEW Good, 0 \in Good, \A n \in Nat : n \in Good => n + 1 \in Good
    PROVE  Nat \subseteq Good
<1>1. SUFFICES ASSUME NEW n \in Nat, n \notin Good
               PROVE  FALSE
  OBVIOUS
<1> DEFINE Bad == {k \in 0..n : k \notin Good}
           Family == {0..k : k \in Bad}
           upto == 0..n
<1>2. IsFiniteSet(upto)
  <2>1. 0 \in Int /\ n \in Int
    OBVIOUS
  <2>2. QED
    BY <2>1, FS_Interval
<1>3. Family \subseteq SUBSET upto
  OBVIOUS
<1>4. Family # {}
  <2>1. n \in Bad
    BY <1>1
  <2>2. QED
    BY <2>1
<1> HIDE DEF Family, upto
<1>5. PICK T \in Family : \A U \in Family : ~(U \subseteq T /\ U # T)
  BY <1>2, <1>3, <1>4, MinimalSubset
<1>6. PICK k \in Bad : T = 0..k
  BY DEF Family
<1>7. k \in Nat /\ k # 0 /\ k - 1 \in Bad
  BY <1>6
<1>8. 0..(k - 1) \in Family /\ 0..(k - 1) \subseteq T /\ 0..(k - 1) # T
  <2>1. k \in 0..k /\ k \notin 0..(k - 1)
    BY <1>7
  <2>2. QED
    BY <1>6, <1>7, <2>1 DEF Family
<1>9. QED
  BY <1>5, <1>8

-----------------------------------------------------------------------------
(* The recursion behind a sum has a solution, and only one.                 *)

Adds(sum, f, Sets) ==
    sum = [T \in Sets |-> IF T = {} THEN 0 ELSE f[Some(T)] + sum[T \ {Some(T)}]]

LEMMA SumsExist ==
    ASSUME NEW S, IsFiniteSet(S), NEW f
    PROVE  \E sum : Adds(sum, f, SUBSET S)
<1> DEFINE upTo(n) == {T \in SUBSET S : Cardinality(T) <= n}
           Good == {n \in Nat : \E sum : Adds(sum, f, upTo(n))}
<1>1. ASSUME NEW T \in SUBSET S
      PROVE  /\ Cardinality(T) \in Nat
             /\ Cardinality(T) = 0 <=> T = {}
             /\ T # {} => /\ T \ {Some(T)} \in SUBSET S
                          /\ Cardinality(T \ {Some(T)}) = Cardinality(T) - 1
  <2>1. IsFiniteSet(T)
    BY FS_Subset
  <2>2. T # {} => Some(T) \in T
    BY DEF Some
  <2>3. QED
    BY <2>1, <2>2, FS_CardinalityType, FS_EmptySet, FS_RemoveElement
<1>2. 0 \in Good
  <2> DEFINE sum == [T \in upTo(0) |-> 0]
  <2>1. ASSUME NEW T \in upTo(0)
        PROVE  T = {}
    <3>1. T \in SUBSET S /\ Cardinality(T) <= 0
      OBVIOUS
    <3>2. Cardinality(T) \in Nat
      BY <1>1, <3>1
    <3>3. Cardinality(T) = 0
      BY <3>1, <3>2
    <3>4. QED
      BY <1>1, <3>1, <3>3, Zenon
  <2>2. Adds(sum, f, upTo(0))
    BY <2>1 DEF Adds
  <2>3. QED
    BY <2>2
<1>3. ASSUME NEW n \in Nat, n \in Good
      PROVE  n + 1 \in Good
  <2>1. PICK sum : Adds(sum, f, upTo(n))
    BY <1>3
  <2> DEFINE next(T) == IF T = {} THEN 0 ELSE f[Some(T)] + sum[T \ {Some(T)}]
             more == [T \in upTo(n + 1) |-> next(T)]
  <2>2. ASSUME NEW T \in upTo(n)
        PROVE  sum[T] = next(T) /\ T \in upTo(n + 1)
    <3>1. T \in SUBSET S /\ Cardinality(T) <= n /\ Cardinality(T) \in Nat
      BY <1>1
    <3>2. sum[T] = next(T)
      <4> HIDE DEF upTo
      <4>1. QED
        BY <2>1 DEF Adds
    <3>3. QED
      BY <3>1, <3>2
  <2>3. \A T \in upTo(n + 1) : T # {} =>
            T \ {Some(T)} \in upTo(n) /\ T \ {Some(T)} \in upTo(n + 1)
    BY <1>1
  <2> HIDE DEF upTo
  <2>4. \A T \in upTo(n + 1) : T # {} => more[T \ {Some(T)}] = sum[T \ {Some(T)}]
    BY <2>2, <2>3
  <2>5. Adds(more, f, upTo(n + 1))
    BY <2>4 DEF Adds
  <2>6. QED
    BY <2>5
<1>4. Nat \subseteq Good
  <2> HIDE DEF Good
  <2>1. QED
    BY <1>2, <1>3, NatInductionOnSet
<1>5. Cardinality(S) \in Good
  BY <1>4, FS_CardinalityType
<1>6. upTo(Cardinality(S)) = SUBSET S
  BY FS_Subset
<1>7. QED
  BY <1>5, <1>6

(* Two sums of functions that agree on a set agree on it. *)
LEMMA SumsAgree ==
    ASSUME NEW S, IsFiniteSet(S), NEW f, NEW g, \A x \in S : f[x] = g[x],
           NEW sum, NEW total, NEW A, NEW B, SUBSET S \subseteq A, SUBSET S \subseteq B,
           Adds(sum, f, A), Adds(total, g, B)
    PROVE  sum[S] = total[S]
<1> DEFINE Good == {T \in SUBSET S : sum[T] = total[T]}
<1>1. \A T \in SUBSET S : /\ sum[T] = IF T = {} THEN 0 ELSE f[Some(T)] + sum[T \ {Some(T)}]
                          /\ total[T] = IF T = {} THEN 0 ELSE g[Some(T)] + total[T \ {Some(T)}]
  BY DEF Adds
<1>2. {} \in Good
  BY <1>1
<1>3. ASSUME NEW T \in SUBSET S, T # {}, T \ {Some(T)} \in Good
      PROVE  T \in Good
  <2>1. Some(T) \in S
    BY <1>3 DEF Some
  <2>2. QED
    BY <1>1, <1>3, <2>1
<1>4. SUBSET S \subseteq Good
  <2> HIDE DEF Good
  <2>1. QED
    BY <1>2, <1>3, SetInduction
<1>5. QED
  BY <1>4

(* So a sum is its first element's term and the sum of the others. *)
LEMMA SumUnfolds ==
    ASSUME NEW f, NEW S, IsFiniteSet(S)
    PROVE  SumOf(f, S) = IF S = {} THEN 0 ELSE f[Some(S)] + SumOf(f, S \ {Some(S)})
<1> DEFINE sumOn(T) == CHOOSE sum : Adds(sum, f, SUBSET T)
<1>1. \A T : SumOf(f, T) = sumOn(T)[T]
  BY DEF SumOf, MapThenSumSet, MapThenFoldSet, Adds, Some
<1>2. ASSUME NEW T, IsFiniteSet(T)
      PROVE  Adds(sumOn(T), f, SUBSET T)
  BY <1>2, SumsExist
<1> HIDE DEF sumOn
<1>3. CASE S = {}
  BY <1>1, <1>2, <1>3 DEF Adds
<1>4. CASE S # {}
  <2> DEFINE R == S \ {Some(S)}
  <2>1. IsFiniteSet(R) /\ R \in SUBSET S
    BY FS_RemoveElement
  <2>2. sumOn(S)[S] = f[Some(S)] + sumOn(S)[R]
    BY <1>2, <1>4 DEF Adds
  <2>3. sumOn(S)[R] = sumOn(R)[R]
    <3>1. Adds(sumOn(S), f, SUBSET S) /\ Adds(sumOn(R), f, SUBSET R)
      BY <1>2, <2>1
    <3>2. SUBSET R \subseteq SUBSET S /\ SUBSET R \subseteq SUBSET R
      OBVIOUS
    <3> HIDE DEF R
    <3>3. QED
      BY <2>1, <3>1, <3>2, SumsAgree
  <2>4. QED
    BY <1>1, <1>4, <2>2, <2>3
<1>5. QED
  BY <1>3, <1>4

-----------------------------------------------------------------------------
(* What the sums of a specification are asked for.                          *)

LEMMA SumEmpty == ASSUME NEW f PROVE SumOf(f, {}) = 0
BY SumUnfolds, FS_EmptySet

LEMMA SumInt ==
    ASSUME NEW S, IsFiniteSet(S), NEW f, \A x \in S : f[x] \in Int
    PROVE  SumOf(f, S) \in Int
<1> DEFINE Good == {T \in SUBSET S : SumOf(f, T) \in Int}
<1>1. {} \in Good
  BY SumEmpty
<1>2. ASSUME NEW T \in SUBSET S, T # {}, T \ {Some(T)} \in Good
      PROVE  T \in Good
  <2>1. IsFiniteSet(T) /\ Some(T) \in S
    BY <1>2, FS_Subset DEF Some
  <2>2. SumOf(f, T) = f[Some(T)] + SumOf(f, T \ {Some(T)})
    BY <1>2, <2>1, SumUnfolds
  <2>3. QED
    BY <1>2, <2>1, <2>2
<1>3. SUBSET S \subseteq Good
  <2> HIDE DEF Good
  <2>1. QED
    BY <1>1, <1>2, SetInduction
<1>4. QED
  BY <1>3

(* A sum depends only on the terms. *)
LEMMA SumEqual ==
    ASSUME NEW S, IsFiniteSet(S), NEW f, NEW g, \A x \in S : f[x] = g[x]
    PROVE  SumOf(f, S) = SumOf(g, S)
<1> DEFINE Good == {T \in SUBSET S : SumOf(f, T) = SumOf(g, T)}
<1>1. {} \in Good
  BY SumEmpty
<1>2. ASSUME NEW T \in SUBSET S, T # {}, T \ {Some(T)} \in Good
      PROVE  T \in Good
  <2>1. IsFiniteSet(T) /\ Some(T) \in S
    BY <1>2, FS_Subset DEF Some
  <2>2. /\ SumOf(f, T) = f[Some(T)] + SumOf(f, T \ {Some(T)})
        /\ SumOf(g, T) = g[Some(T)] + SumOf(g, T \ {Some(T)})
    BY <1>2, <2>1, SumUnfolds
  <2>3. QED
    BY <1>2, <2>1, <2>2
<1>3. SUBSET S \subseteq Good
  <2> HIDE DEF Good
  <2>1. QED
    BY <1>1, <1>2, SetInduction
<1>4. QED
  BY <1>3

(* The order does not matter: any element may be the first. *)
LEMMA SumSplit ==
    ASSUME NEW S, IsFiniteSet(S), NEW f, \A x \in S : f[x] \in Int, NEW y \in S
    PROVE  SumOf(f, S) = f[y] + SumOf(f, S \ {y})
<1> DEFINE Good == {T \in SUBSET S : \A x \in T : SumOf(f, T) = f[x] + SumOf(f, T \ {x})}
<1>1. ASSUME NEW T \in SUBSET S, \A U \in SUBSET T : U # T => U \in Good
      PROVE  T \in Good
  <2>1. ASSUME NEW U \in SUBSET S
        PROVE  IsFiniteSet(U) /\ SumOf(f, U) \in Int
    <3>1. IsFiniteSet(U)
      BY <2>1, FS_Subset
    <3>2. \A x \in U : f[x] \in Int
      OBVIOUS
    <3>3. QED
      BY <3>1, <3>2, SumInt
  <2>2. SUFFICES ASSUME NEW x \in T
                 PROVE  SumOf(f, T) = f[x] + SumOf(f, T \ {x})
    OBVIOUS
  <2> DEFINE c == Some(T)
             R == (T \ {c}) \ {x}
  <2>3. c \in T /\ SumOf(f, T) = f[c] + SumOf(f, T \ {c})
    <3>1. T # {} /\ IsFiniteSet(T)
      BY <2>1
    <3>2. QED
      BY <3>1, SumUnfolds DEF Some
  <2> HIDE DEF c
  <2>4. CASE x = c
    BY <2>3, <2>4
  <2>5. CASE x # c
    <3>1. T \ {c} \in Good /\ T \ {x} \in Good
      BY <1>1, <2>3
    <3>2. SumOf(f, T \ {c}) = f[x] + SumOf(f, (T \ {c}) \ {x})
      BY <2>5, <3>1
    <3>3. SumOf(f, T \ {x}) = f[c] + SumOf(f, (T \ {x}) \ {c})
      BY <2>3, <2>5, <3>1
    <3>4. (T \ {x}) \ {c} = R
      OBVIOUS
    <3>5. f[x] \in Int /\ f[c] \in Int /\ SumOf(f, R) \in Int
      BY <2>1, <2>3
    <3>6. SumOf(f, T) = f[c] + (f[x] + SumOf(f, R))
      BY <2>3, <3>2
    <3>7. SumOf(f, T \ {x}) = f[c] + SumOf(f, R)
      BY <3>3, <3>4
    <3> HIDE DEF R
    <3>8. QED
      BY <3>5, <3>6, <3>7
  <2>6. QED
    BY <2>4, <2>5
<1>2. SUBSET S \subseteq Good
  <2> HIDE DEF Good
  <2>1. QED
    BY <1>1, StrongSetInduction
<1>3. QED
  BY <1>2

(* A change of one term changes the sum by as much. *)
LEMMA SumChange ==
    ASSUME NEW S, IsFiniteSet(S), NEW f, NEW g, NEW y \in S,
           \A x \in S : f[x] \in Int /\ g[x] \in Int, \A x \in S \ {y} : g[x] = f[x]
    PROVE  SumOf(g, S) = (SumOf(f, S) - f[y]) + g[y]
<1>1. IsFiniteSet(S \ {y})
  BY FS_RemoveElement
<1>2. SumOf(f, S) = f[y] + SumOf(f, S \ {y}) /\ SumOf(g, S) = g[y] + SumOf(g, S \ {y})
  BY SumSplit
<1>3. SumOf(g, S \ {y}) = SumOf(f, S \ {y})
  BY <1>1, SumEqual
<1>4. SumOf(f, S \ {y}) \in Int
  BY <1>1, SumInt
<1>5. QED
  BY <1>2, <1>3, <1>4

(* The sums of the terms of two functions add up. *)
LEMMA SumAdd ==
    ASSUME NEW S, IsFiniteSet(S), NEW f, NEW g, NEW h,
           \A x \in S : f[x] \in Int /\ g[x] \in Int /\ h[x] = f[x] + g[x]
    PROVE  SumOf(h, S) = SumOf(f, S) + SumOf(g, S)
<1> DEFINE Good == {T \in SUBSET S : SumOf(h, T) = SumOf(f, T) + SumOf(g, T)}
<1>1. {} \in Good
  BY SumEmpty
<1>2. ASSUME NEW T \in SUBSET S, T # {}, T \ {Some(T)} \in Good
      PROVE  T \in Good
  <2> DEFINE c == Some(T)
             R == T \ {c}
  <2>1. IsFiniteSet(T) /\ IsFiniteSet(R) /\ c \in S
    BY <1>2, FS_Subset DEF Some
  <2>2. /\ SumOf(f, T) = f[c] + SumOf(f, R)
        /\ SumOf(g, T) = g[c] + SumOf(g, R)
        /\ SumOf(h, T) = h[c] + SumOf(h, R)
    BY <1>2, <2>1, SumUnfolds
  <2>3. SumOf(f, R) \in Int /\ SumOf(g, R) \in Int
    BY <2>1, SumInt
  <2>4. SumOf(h, R) = SumOf(f, R) + SumOf(g, R)
    BY <1>2
  <2> HIDE DEF c, R
  <2>5. QED
    BY <2>1, <2>2, <2>3, <2>4
<1>3. SUBSET S \subseteq Good
  <2> HIDE DEF Good
  <2>1. QED
    BY <1>1, <1>2, SetInduction
<1>4. QED
  BY <1>3

(* Term by term no larger, no larger. *)
LEMMA SumMonotonic ==
    ASSUME NEW S, IsFiniteSet(S), NEW f, NEW g,
           \A x \in S : f[x] \in Int /\ g[x] \in Int /\ f[x] <= g[x]
    PROVE  SumOf(f, S) <= SumOf(g, S)
<1> DEFINE Good == {T \in SUBSET S : SumOf(f, T) <= SumOf(g, T)}
<1>1. {} \in Good
  BY SumEmpty
<1>2. ASSUME NEW T \in SUBSET S, T # {}, T \ {Some(T)} \in Good
      PROVE  T \in Good
  <2> DEFINE c == Some(T)
             R == T \ {c}
  <2>1. IsFiniteSet(T) /\ IsFiniteSet(R) /\ c \in S
    BY <1>2, FS_Subset DEF Some
  <2>2. /\ SumOf(f, T) = f[c] + SumOf(f, R)
        /\ SumOf(g, T) = g[c] + SumOf(g, R)
    BY <1>2, <2>1, SumUnfolds
  <2>3. SumOf(f, R) \in Int /\ SumOf(g, R) \in Int
    BY <2>1, SumInt
  <2>4. SumOf(f, R) <= SumOf(g, R)
    BY <1>2
  <2> HIDE DEF c, R
  <2>5. SumOf(f, T) <= SumOf(g, T)
    BY <2>1, <2>2, <2>3, <2>4
  <2>6. QED
    BY <2>5
<1>3. SUBSET S \subseteq Good
  <2> HIDE DEF Good
  <2>1. QED
    BY <1>1, <1>2, SetInduction
<1>4. QED
  BY <1>3

LEMMA SumZero ==
    ASSUME NEW S, IsFiniteSet(S), NEW f, \A x \in S : f[x] = 0
    PROVE  SumOf(f, S) = 0
<1>1. SumOf(f, S) \in Int
  BY SumInt
<1>2. SumOf(f, S) = SumOf(f, S) + SumOf(f, S)
  BY SumAdd
<1>3. ASSUME NEW n \in Int, n = n + n
      PROVE  n = 0
  BY <1>3
<1>4. QED
  BY <1>1, <1>2, <1>3

LEMMA SumNat ==
    ASSUME NEW S, IsFiniteSet(S), NEW f, \A x \in S : f[x] \in Nat
    PROVE  SumOf(f, S) \in Nat
<1> DEFINE zero == [x \in S |-> 0]
<1>1. SumOf(zero, S) = 0
  BY SumZero
<1>2. SumOf(zero, S) <= SumOf(f, S)
  <2>1. \A x \in S : zero[x] \in Int /\ f[x] \in Int /\ zero[x] <= f[x]
    OBVIOUS
  <2> HIDE DEF zero
  <2>2. QED
    BY <2>1, SumMonotonic
<1>3. SumOf(f, S) \in Int
  BY SumInt
<1>4. QED
  BY <1>1, <1>2, <1>3

(* One term alone. *)
LEMMA SumOne ==
    ASSUME NEW S, IsFiniteSet(S), NEW f, NEW y \in S, f[y] \in Int, \A x \in S \ {y} : f[x] = 0
    PROVE  SumOf(f, S) = f[y]
<1>1. SumOf(f, S) = f[y] + SumOf(f, S \ {y})
  BY SumSplit
<1>2. SumOf(f, S \ {y}) = 0
  BY FS_RemoveElement, SumZero
<1>3. QED
  BY <1>1, <1>2

(* What is added up over part of a set is part of the sum. *)
LEMMA SumWithin ==
    ASSUME NEW S, IsFiniteSet(S), NEW T \in SUBSET S, NEW f, \A x \in S : f[x] \in Nat
    PROVE  SumOf(f, T) <= SumOf(f, S)
<1> DEFINE Good == {U \in SUBSET S : SumOf(f, U \cap T) <= SumOf(f, U)}
<1>1. {} \in Good
  BY SumEmpty
<1>2. ASSUME NEW U \in SUBSET S, U # {}, U \ {Some(U)} \in Good
      PROVE  U \in Good
  <2> DEFINE c == Some(U)
             R == U \ {c}
  <2>1. IsFiniteSet(U) /\ IsFiniteSet(R) /\ c \in U /\ IsFiniteSet(U \cap T) /\ IsFiniteSet(R \cap T)
    BY <1>2, FS_Subset DEF Some
  <2>2. SumOf(f, U) = f[c] + SumOf(f, R)
    BY <1>2, <2>1, SumUnfolds
  <2>3. SumOf(f, R) \in Int /\ SumOf(f, R \cap T) \in Int /\ f[c] \in Nat
    BY <2>1, SumInt
  <2>4. SumOf(f, R \cap T) <= SumOf(f, R)
    BY <1>2
  <2>5. SumOf(f, U \cap T) = IF c \in T THEN f[c] + SumOf(f, R \cap T) ELSE SumOf(f, R \cap T)
    <3>1. c \in T => (U \cap T) \ {c} = R \cap T
      OBVIOUS
    <3>2. c \notin T => U \cap T = R \cap T
      OBVIOUS
    <3>3. \A x \in U \cap T : f[x] \in Int
      OBVIOUS
    <3>4. c \in T => SumOf(f, U \cap T) = f[c] + SumOf(f, (U \cap T) \ {c})
      <4> HIDE DEF c
      <4>1. QED
        BY <2>1, <3>3, SumSplit
    <3> HIDE DEF c, R
    <3>5. QED
      BY <3>1, <3>2, <3>4
  <2> HIDE DEF c, R
  <2>6. SumOf(f, U \cap T) <= SumOf(f, U)
    BY <2>2, <2>3, <2>4, <2>5
  <2>7. QED
    BY <2>6
<1>3. SUBSET S \subseteq Good
  <2> HIDE DEF Good
  <2>1. QED
    BY <1>1, <1>2, SetInduction
<1>4. S \cap T = T
  OBVIOUS
<1>5. QED
  BY <1>3, <1>4

(* One term is no larger than the sum. *)
LEMMA TermWithin ==
    ASSUME NEW S, IsFiniteSet(S), NEW f, \A x \in S : f[x] \in Nat, NEW y \in S
    PROVE  f[y] <= SumOf(f, S)
<1>1. SumOf(f, S) = f[y] + SumOf(f, S \ {y})
  BY SumSplit
<1>2. IsFiniteSet(S \ {y})
  BY FS_RemoveElement
<1>3. SumOf(f, S \ {y}) \in Nat
  BY <1>2, SumNat
<1>4. QED
  BY <1>1, <1>3

(* An amount at one place, or nothing where there is no such place. *)
LEMMA SumPoint ==
    ASSUME NEW S, IsFiniteSet(S), NEW p, NEW n \in Int, p \in S \/ n = 0
    PROVE  SumOf([a \in S |-> IF a = p THEN n ELSE 0], S) = n
<1> DEFINE f == [a \in S |-> IF a = p THEN n ELSE 0]
<1>1. CASE p \in S
  <2>1. f[p] = n /\ \A x \in S \ {p} : f[x] = 0
    BY <1>1
  <2> HIDE DEF f
  <2>2. SumOf(f, S) = n
    BY <1>1, <2>1, SumOne
  <2>3. QED
    BY <2>2 DEF f
<1>2. CASE n = 0
  <2>1. \A x \in S : f[x] = 0
    BY <1>2
  <2> HIDE DEF f
  <2>2. SumOf(f, S) = n
    BY <1>2, <2>1, SumZero
  <2>3. QED
    BY <2>2 DEF f
<1>3. QED
  BY <1>1, <1>2

(* A sum over part of a set is the sum over all of it of what counts for    *)
(* nothing outside that part.                                               *)
LEMMA SumOnSubset ==
    ASSUME NEW S, IsFiniteSet(S), NEW T \in SUBSET S, NEW f, NEW g,
           \A x \in S : f[x] \in Int /\ g[x] = IF x \in T THEN f[x] ELSE 0
    PROVE  SumOf(g, S) = SumOf(f, T)
<1> DEFINE Good == {U \in SUBSET S : SumOf(g, U) = SumOf(f, U \cap T)}
<1>1. {} \in Good
  BY SumEmpty
<1>2. ASSUME NEW U \in SUBSET S, U # {}, U \ {Some(U)} \in Good
      PROVE  U \in Good
  <2> DEFINE c == Some(U)
             R == U \ {c}
  <2>1. IsFiniteSet(U) /\ IsFiniteSet(R) /\ c \in U /\ IsFiniteSet(U \cap T) /\ IsFiniteSet(R \cap T)
    BY <1>2, FS_Subset DEF Some
  <2>2. SumOf(g, U) = g[c] + SumOf(g, R)
    BY <1>2, <2>1, SumUnfolds
  <2>3. SumOf(f, R \cap T) \in Int /\ f[c] \in Int /\ g[c] = IF c \in T THEN f[c] ELSE 0
    BY <2>1, SumInt
  <2>4. SumOf(g, R) = SumOf(f, R \cap T)
    BY <1>2
  <2>5. SumOf(f, U \cap T) = IF c \in T THEN f[c] + SumOf(f, R \cap T) ELSE SumOf(f, R \cap T)
    <3>1. c \in T => (U \cap T) \ {c} = R \cap T
      OBVIOUS
    <3>2. c \notin T => U \cap T = R \cap T
      OBVIOUS
    <3>3. \A x \in U \cap T : f[x] \in Int
      OBVIOUS
    <3>4. c \in T => SumOf(f, U \cap T) = f[c] + SumOf(f, (U \cap T) \ {c})
      <4> HIDE DEF c
      <4>1. QED
        BY <2>1, <3>3, SumSplit
    <3> HIDE DEF c, R
    <3>5. QED
      BY <3>1, <3>2, <3>4
  <2> HIDE DEF c, R
  <2>6. SumOf(g, U) = SumOf(f, U \cap T)
    BY <2>2, <2>3, <2>4, <2>5
  <2>7. QED
    BY <2>6
<1>3. SUBSET S \subseteq Good
  <2> HIDE DEF Good
  <2>1. QED
    BY <1>1, <1>2, SetInduction
<1>4. S \cap T = T
  OBVIOUS
<1>5. QED
  BY <1>3, <1>4

(* What two sums cover term by term is no larger than both together.        *)
LEMMA SumCovered ==
    ASSUME NEW S, IsFiniteSet(S), NEW R \in SUBSET S, NEW A \in SUBSET S, NEW B \in SUBSET S,
           NEW m, NEW a, NEW b, \A x \in S : m[x] \in Nat /\ a[x] \in Nat /\ b[x] \in Nat,
           \A x \in R : m[x] <= (IF x \in A THEN a[x] ELSE 0) + (IF x \in B THEN b[x] ELSE 0)
    PROVE  SumOf(m, R) <= SumOf(a, A) + SumOf(b, B)
<1> DEFINE mR == [x \in S |-> IF x \in R THEN m[x] ELSE 0]
           aA == [x \in S |-> IF x \in A THEN a[x] ELSE 0]
           bB == [x \in S |-> IF x \in B THEN b[x] ELSE 0]
           ab == [x \in S |-> aA[x] + bB[x]]
<1>1. \A x \in S : /\ mR[x] = IF x \in R THEN m[x] ELSE 0
                   /\ aA[x] = IF x \in A THEN a[x] ELSE 0
                   /\ bB[x] = IF x \in B THEN b[x] ELSE 0
                   /\ ab[x] = aA[x] + bB[x]
  OBVIOUS
<1> HIDE DEF mR, aA, bB, ab
<1>2. \A x \in S : mR[x] \in Int /\ aA[x] \in Int /\ bB[x] \in Int /\ ab[x] \in Int
  BY <1>1
<1>3. \A x \in S : mR[x] <= ab[x]
  <2>1. ASSUME NEW x \in S, x \notin R
        PROVE  mR[x] <= ab[x]
    BY <1>1, <2>1
  <2>2. ASSUME NEW x \in S, x \in R
        PROVE  mR[x] <= ab[x]
    BY <1>1, <2>2
  <2>3. QED
    BY <2>1, <2>2
<1>4. SumOf(mR, S) = SumOf(m, R)
  <2>1. \A x \in S : m[x] \in Int /\ mR[x] = IF x \in R THEN m[x] ELSE 0
    BY <1>1
  <2>2. QED
    BY <2>1, SumOnSubset
<1>5. SumOf(aA, S) = SumOf(a, A)
  <2>1. \A x \in S : a[x] \in Int /\ aA[x] = IF x \in A THEN a[x] ELSE 0
    BY <1>1
  <2>2. QED
    BY <2>1, SumOnSubset
<1>6. SumOf(bB, S) = SumOf(b, B)
  <2>1. \A x \in S : b[x] \in Int /\ bB[x] = IF x \in B THEN b[x] ELSE 0
    BY <1>1
  <2>2. QED
    BY <2>1, SumOnSubset
<1>7. SumOf(ab, S) = SumOf(aA, S) + SumOf(bB, S)
  BY <1>1, <1>2, SumAdd
<1>8. SumOf(mR, S) <= SumOf(ab, S)
  BY <1>2, <1>3, SumMonotonic
<1>9. QED
  BY <1>4, <1>5, <1>6, <1>7, <1>8
=============================================================================
