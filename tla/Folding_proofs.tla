--------------------------- MODULE Folding_proofs ---------------------------
(***************************************************************************)
(* Induction, and what a fold computes.  The library's induction theorems  *)
(* take the property as an operator; here it is a set of numbers, and the  *)
(* well-foundedness of < gives the principle.  A fold of the community     *)
(* modules is CHOOSE it : it = [s \in SUBSET S |-> ...]: FoldExists shows  *)
(* that there is such a function for a step given as a function.           *)
(* Last, what SortedBy of module Sorting lists, and in which order.        *)
(***************************************************************************)
EXTENDS Sorting, Integers, Sequences, FiniteSetsExt, WellFoundedInduction,
        FiniteSetTheorems, TLAPS

(* A set of numbers that is not empty has a least one.                     *)
LEMMA LeastNumber ==
    ASSUME NEW T, T \subseteq Nat, T # {}
    PROVE  \E n \in T : \A m \in T : n <= m
<1> DEFINE R == {ss \in Nat \X Nat : ss[1] < ss[2]}
<1>1. IsWellFoundedOn(R, Nat)
  BY NatLessThanWellFounded DEF OpToRel
<1> HIDE DEF R
<1>2. \E n \in T : \A m \in T : <<m, n>> \notin R
  BY <1>1, WFMin, Zenon
<1>3. ASSUME NEW n \in T, NEW m \in T, <<m, n>> \notin R PROVE n <= m
  BY <1>3 DEF R
<1> QED BY <1>2, <1>3

(* A set that has 0, and with each number the next, has all of them.       *)
LEMMA SetInduction ==
    ASSUME NEW S, 0 \in S, \A n \in Nat : n \in S => n + 1 \in S
    PROVE  Nat \subseteq S
<1> DEFINE T == {n \in Nat : n \notin S}
<1>1. SUFFICES ASSUME T # {} PROVE FALSE
  OBVIOUS
<1>2. PICK n \in T : \A m \in T : n <= m
  BY <1>1, LeastNumber, Zenon
<1>3. n # 0
  BY <1>2
<1>4. n - 1 \in Nat /\ ~(n <= n - 1)
  BY <1>2, <1>3
<1>5. n - 1 \in S
  BY <1>2, <1>4
<1>6. (n - 1) + 1 \in S
  BY <1>4, <1>5
<1> QED BY <1>2, <1>4, <1>6

(* The same up to a bound.                                                 *)
LEMMA BoundedInduction ==
    ASSUME NEW n \in Nat, NEW S, 0 \in S,
           \A i \in 1 .. n : i - 1 \in S => i \in S
    PROVE  0 .. n \subseteq S
<1> DEFINE T == {i \in Nat : i <= n => i \in S}
<1>1. 0 \in T
  OBVIOUS
<1>2. ASSUME NEW i \in Nat, i \in T PROVE i + 1 \in T
  <2>1. i + 1 <= n => i + 1 \in 1 .. n /\ (i + 1) - 1 = i
    OBVIOUS
  <2> QED BY <1>2, <2>1
<1>3. Nat \subseteq T
  <2> HIDE DEF T
  <2> QED BY <1>1, <1>2, SetInduction
<1> QED BY <1>3

(* An iteration that starts in A and does not leave it is in A throughout. *)
LEMMA IterationStays ==
    ASSUME NEW n \in Nat, NEW A, NEW f, f[0] \in A,
           \A i \in 1 .. n : f[i - 1] \in A => f[i] \in A
    PROVE  \A i \in 0 .. n : f[i] \in A
<1> DEFINE S == {i \in 0 .. n : f[i] \in A}
<1>1. 0 \in S
  OBVIOUS
<1>2. ASSUME NEW i \in 1 .. n, i - 1 \in S PROVE i \in S
  BY <1>2
<1>3. 0 .. n \subseteq S
  <2> HIDE DEF S
  <2> QED BY <1>1, <1>2, BoundedInduction
<1> QED BY <1>3

(* The greatest of some numbers up to n.                                   *)
LEMMA MaxOfNumbers ==
    ASSUME NEW n \in Nat, NEW s, s \subseteq 0 .. n, s # {}
    PROVE  /\ Max(s) \in s
           /\ \A x \in s : x <= Max(s)
<1> DEFINE T == {n - x : x \in s}
<1>0. \A x \in s : x \in 0 .. n /\ n - x \in Nat
  OBVIOUS
<1>1. T \subseteq Nat /\ T # {}
  BY <1>0, Zenon
<1>2. PICK m \in T : \A k \in T : m <= k
  BY <1>1, LeastNumber, Zenon
<1>3. PICK x \in s : m = n - x
  BY <1>2
<1>4. \A y \in s : x >= y
  <2> TAKE y \in s
  <2>1. n - y \in T
    OBVIOUS
  <2>2. x \in 0 .. n /\ y \in 0 .. n
    BY <1>0
  <2>3. m <= n - y
    BY <1>2, <2>1, Zenon
  <2> QED BY <1>3, <2>2, <2>3
<1> HIDE DEF T
<1>5. \E z \in s : \A y \in s : z >= y
  BY <1>3, <1>4
<1>6. Max(s) \in s /\ \A y \in s : Max(s) >= y
  BY <1>5 DEF Max
<1>7. ASSUME NEW y \in s PROVE y <= Max(s)
  <2>1. y \in 0 .. n /\ Max(s) \in 0 .. n /\ Max(s) >= y
    BY <1>0, <1>6, Zenon
  <2> QED BY <2>1
<1> QED BY <1>6, <1>7

LEMMA MaxOfUpTo ==
    ASSUME NEW n \in Nat, NEW s, s \subseteq 1 .. n, s # {}
    PROVE  /\ Max(s) \in s
           /\ \A x \in s : x <= Max(s)
<1>1. s \subseteq 0 .. n
  OBVIOUS
<1> QED BY <1>1, MaxOfNumbers

LEMMA MaxOfInterval ==
    ASSUME NEW i \in Nat, i # 0
    PROVE  Max(1 .. i) = i /\ (1 .. i) \ {Max(1 .. i)} = 1 .. i - 1
<1>1. 1 .. i # {} /\ i \in 1 .. i
  OBVIOUS
<1>2. Max(1 .. i) \in 1 .. i /\ \A x \in 1 .. i : x <= Max(1 .. i)
  BY <1>1, MaxOfUpTo
<1> QED BY <1>1, <1>2

(* A fold over n numbers, within A.                                        *)
Steps(n, A, base, step) == n \in Nat /\ base \in A /\ step \in [A \X (1 .. n) -> A]

(* it is, over the numbers up to n, a fold of step from base, within A.    *)
IsFold(it, n, A, base, step) ==
    /\ it \in [SUBSET (1 .. n) -> A]
    /\ \A s \in SUBSET (1 .. n) :
         it[s] = IF s = {} THEN base ELSE step[<<it[s \ {Max(s)}], Max(s)>>]

LEMMA NoFold == ASSUME NEW A, NEW base \in A, NEW step PROVE \E it : IsFold(it, 0, A, base, step)
<1> DEFINE first == [s \in SUBSET (1 .. 0) |-> base]
<1>1. \A s \in SUBSET (1 .. 0) : s = {}
  <2>1. 1 .. 0 = {}
    OBVIOUS
  <2> QED BY <2>1, Zenon
<1>2. first \in [SUBSET (1 .. 0) -> A] /\ \A s \in SUBSET (1 .. 0) : first[s] = base
  OBVIOUS
<1> HIDE DEF first
<1>3. IsFold(first, 0, A, base, step)
  BY <1>1, <1>2 DEF IsFold
<1> QED BY <1>3

LEMMA FoldGrows ==
    ASSUME NEW n \in Nat, NEW m \in 1 .. n, NEW A, NEW base \in A,
           NEW step \in [A \X (1 .. n) -> A], NEW it, IsFold(it, m - 1, A, base, step)
    PROVE  \E new : IsFold(new, m, A, base, step)
<1> DEFINE new == [s \in SUBSET (1 .. m) |->
                     IF m \in s THEN step[<<it[s \ {m}], m>>] ELSE it[s]]
<1>1. m \in Nat /\ m - 1 \in Nat
  OBVIOUS
<1>2. ASSUME NEW s \in SUBSET (1 .. m), m \notin s
      PROVE  s \in SUBSET (1 .. m - 1) /\ it[s] \in A
  <2>1. s \in SUBSET (1 .. m - 1)
    BY <1>2
  <2> QED BY <2>1 DEF IsFold
<1>3. ASSUME NEW s \in SUBSET (1 .. m), m \in s
      PROVE  /\ Max(s) = m
             /\ s \ {m} \in SUBSET (1 .. m) /\ m \notin s \ {m}
             /\ step[<<it[s \ {m}], m>>] \in A
  <2>1. s \subseteq 1 .. m /\ s # {}
    BY <1>3
  <2>2. Max(s) \in s /\ \A x \in s : x <= Max(s)
    BY <1>1, <2>1, MaxOfUpTo
  <2>3. Max(s) \in 1 .. m /\ m <= Max(s)
    BY <1>3, <2>2
  <2>4. Max(s) = m
    BY <2>3
  <2>5. s \ {m} \in SUBSET (1 .. m) /\ m \notin s \ {m}
    OBVIOUS
  <2>6. it[s \ {m}] \in A
    BY <2>5, <1>2
  <2>7. <<it[s \ {m}], m>> \in A \X (1 .. n)
    BY <2>6
  <2> QED BY <2>4, <2>5, <2>7
<1>4. new \in [SUBSET (1 .. m) -> A]
  BY <1>2, <1>3
<1>5. ASSUME NEW s \in SUBSET (1 .. m)
      PROVE  new[s] = IF s = {} THEN base ELSE step[<<new[s \ {Max(s)}], Max(s)>>]
  <2>1. CASE m \in s
    <3>1. new[s \ {m}] = it[s \ {m}]
      BY <1>3, <2>1
    <3>2. new[s] = step[<<it[s \ {m}], m>>]
      BY <2>1
    <3> HIDE DEF new
    <3> QED BY <2>1, <3>1, <3>2, <1>3
  <2>2. CASE m \notin s /\ s # {}
    <3>1. Max(s) \in s
      BY <1>1, <2>2, MaxOfUpTo
    <3>2. s \ {Max(s)} \in SUBSET (1 .. m) /\ m \notin s \ {Max(s)}
      BY <2>2
    <3>3. new[s] = it[s] /\ new[s \ {Max(s)}] = it[s \ {Max(s)}]
      BY <2>2, <3>2
    <3>4. s \in SUBSET (1 .. m - 1)
      BY <2>2, <1>2
    <3>5. it[s] = step[<<it[s \ {Max(s)}], Max(s)>>]
      BY <2>2, <3>4 DEF IsFold
    <3> HIDE DEF new
    <3> QED BY <2>2, <3>3, <3>5
  <2>3. CASE s = {}
    <3>1. s \in SUBSET (1 .. m - 1) /\ m \notin s
      BY <2>3
    <3>2. new[s] = it[s]
      BY <3>1
    <3>3. it[s] = base
      BY <2>3, <3>1 DEF IsFold
    <3> QED BY <2>3, <3>2, <3>3
  <2> QED BY <2>1, <2>2, <2>3
<1> HIDE DEF new
<1>6. IsFold(new, m, A, base, step)
  BY <1>4, <1>5 DEF IsFold
<1> QED BY <1>6

LEMMA FoldExists ==
    ASSUME NEW n, NEW A, NEW base, NEW step, Steps(n, A, base, step)
    PROVE  \E it : IsFold(it, n, A, base, step)
<1> USE DEF Steps
<1> DEFINE S == {m \in 0 .. n : \E it : IsFold(it, m, A, base, step)}
<1>1. 0 \in S
  <2>1. \E it : IsFold(it, 0, A, base, step)
    BY NoFold
  <2> QED BY <2>1
<1>2. ASSUME NEW m \in 1 .. n, m - 1 \in S PROVE m \in S
  <2>1. PICK it : IsFold(it, m - 1, A, base, step)
    BY <1>2
  <2>2. \E new : IsFold(new, m, A, base, step)
    BY <2>1, FoldGrows, Zenon
  <2> QED BY <2>2
<1>3. 0 .. n \subseteq S
  <2> HIDE DEF S
  <2> QED BY <1>1, <1>2, BoundedInduction
<1>4. n \in S
  <2> HIDE DEF S
  <2> QED BY <1>3
<1> QED BY <1>4, Zenon

(* The first i of n numbers: what a step of a fold takes apart.            *)
LEMMA FirstNumbers ==
    ASSUME NEW n \in Nat, NEW i \in 1 .. n
    PROVE  /\ 1 .. i \in SUBSET (1 .. n) /\ 1 .. i # {}
           /\ Max(1 .. i) = i /\ (1 .. i) \ {Max(1 .. i)} = 1 .. i - 1
           /\ i \in 0 .. n /\ i - 1 \in 0 .. n
<1>1. i \in Nat /\ i # 0 /\ i \in 0 .. n /\ i - 1 \in 0 .. n
  OBVIOUS
<1>2. Max(1 .. i) = i /\ (1 .. i) \ {Max(1 .. i)} = 1 .. i - 1
  BY <1>1, MaxOfInterval
<1> QED BY <1>1, <1>2

(* it does what a fold does wherever that is in A; f is what it goes       *)
(* through: each step takes what there is for the first i - 1 to what      *)
(* there is for i.                                                         *)
Folds(it, n, A, base, step) ==
    /\ it[{}] = base
    /\ \A s \in SUBSET (1 .. n) : s # {} /\ it[s \ {Max(s)}] \in A =>
          it[s] = step[<<it[s \ {Max(s)}], Max(s)>>]

Runs(f, it, n, A, base, step) ==
    /\ f \in [0 .. n -> A] /\ f[0] = base /\ it[1 .. n] = f[n]
    /\ \A i \in 1 .. n : f[i] = step[<<f[i - 1], i>>]

(* A fold over the elements 1 .. n is the n-th of a run that begins with   *)
(* its base and takes one step for each element, in their order.           *)
LEMMA FoldRuns ==
    ASSUME NEW n, NEW A, NEW base, NEW step, NEW it,
           Steps(n, A, base, step), Folds(it, n, A, base, step)
    PROVE  \E f : Runs(f, it, n, A, base, step)
<1> USE DEF Steps
<1> DEFINE f == [i \in 0 .. n |-> it[1 .. i]]
<1>1. f[0] = base /\ f[n] = it[1 .. n]
  <2>1. 1 .. 0 = {} /\ 0 \in 0 .. n /\ n \in 0 .. n
    OBVIOUS
  <2> QED BY <2>1 DEF Folds
<1>2. ASSUME NEW i \in 1 .. n, f[i - 1] \in A PROVE f[i] = step[<<f[i - 1], i>>]
  <2>1. /\ 1 .. i \in SUBSET (1 .. n) /\ 1 .. i # {}
        /\ Max(1 .. i) = i /\ (1 .. i) \ {Max(1 .. i)} = 1 .. i - 1
        /\ i \in 0 .. n /\ i - 1 \in 0 .. n
    BY FirstNumbers
  <2>2. f[i] = it[1 .. i] /\ f[i - 1] = it[1 .. i - 1]
    BY <2>1
  <2>3. it[1 .. i] = step[<<it[1 .. i - 1], i>>]
    BY <2>1, <2>2, <1>2 DEF Folds
  <2> QED BY <2>2, <2>3
<1>3. f = [i \in 0 .. n |-> it[1 .. i]]
  OBVIOUS
<1> HIDE DEF f
<1>4. \A i \in 1 .. n : f[i - 1] \in A => f[i] \in A
  <2> SUFFICES ASSUME NEW i \in 1 .. n, f[i - 1] \in A PROVE f[i] \in A
    OBVIOUS
  <2>1. f[i] = step[<<f[i - 1], i>>]
    BY <1>2
  <2> QED BY <2>1
<1>5. f[0] \in A
  BY <1>1
<1>6. \A i \in 0 .. n : f[i] \in A
  BY ONLY Steps(n, A, base, step), <1>4, <1>5, IterationStays DEF Steps
<1>7. f \in [0 .. n -> A]
  BY <1>3, <1>6
<1>8. \A i \in 1 .. n : f[i] = step[<<f[i - 1], i>>]
  <2> TAKE i \in 1 .. n
  <2>1. i - 1 \in 0 .. n
    OBVIOUS
  <2> QED BY <1>2, <1>6, <2>1
<1> QED BY <1>1, <1>7, <1>8 DEF Runs

-----------------------------------------------------------------------------
(* Sorting: a set whose keys tell its members apart, from the least on.    *)

Before(S, key, x) == {y \in S : key[y] < key[x]}

LEMMA BeforeIs ==
    ASSUME NEW S, IsFiniteSet(S), NEW key, Keyed(S, key)
    PROVE  /\ Cardinality(S) \in Nat
           /\ \A x \in S : Cardinality(Before(S, key, x)) \in 0 .. Cardinality(S) - 1
           /\ \A x, y \in S : key[x] < key[y] =>
                 Cardinality(Before(S, key, x)) < Cardinality(Before(S, key, y))
           /\ \A k \in 0 .. Cardinality(S) - 1 :
                 \E x \in S : Cardinality(Before(S, key, x)) = k
<1> DEFINE n == Cardinality(S)
           c == [x \in S |-> Cardinality(Before(S, key, x))]
<1>1. n \in Nat
  BY FS_CardinalityType
<1>2. ASSUME NEW x \in S
      PROVE  /\ IsFiniteSet(Before(S, key, x)) /\ Cardinality(Before(S, key, x)) \in Nat
             /\ Cardinality(Before(S, key, x)) < n
             /\ Before(S, key, x) \subseteq S /\ x \notin Before(S, key, x)
  <2>1. Before(S, key, x) \in SUBSET S /\ x \notin Before(S, key, x)
    BY DEF Before, Keyed
  <2>2. /\ IsFiniteSet(Before(S, key, x)) /\ Cardinality(Before(S, key, x)) <= n
        /\ n = Cardinality(Before(S, key, x)) => S = Before(S, key, x)
    BY <2>1, FS_Subset
  <2>3. Cardinality(Before(S, key, x)) \in Nat
    BY <2>2, FS_CardinalityType
  <2>4. n # Cardinality(Before(S, key, x))
    BY <2>1, <2>2
  <2> QED BY <2>1, <2>2, <2>3, <2>4, <1>1
<1>3. ASSUME NEW x \in S, NEW y \in S, key[x] < key[y]
      PROVE  Cardinality(Before(S, key, x)) < Cardinality(Before(S, key, y))
  <2>1. Before(S, key, x) \subseteq Before(S, key, y) /\ x \in Before(S, key, y)
    BY <1>3 DEF Before, Keyed
  <2>2. x \notin Before(S, key, x)
    BY <1>2
  <2>3. /\ Cardinality(Before(S, key, x)) <= Cardinality(Before(S, key, y))
        /\ Cardinality(Before(S, key, y)) # Cardinality(Before(S, key, x))
    BY <1>2, <2>1, <2>2, FS_Subset
  <2> QED BY <2>3, <1>2
<1>4. c \in Injection(S, 0 .. n - 1)
  <2>1. c \in [S -> 0 .. n - 1]
    BY <1>1, <1>2
  <2>2. ASSUME NEW x \in S, NEW y \in S, c[x] = c[y] PROVE x = y
    <3>1. key[x] \in Nat /\ key[y] \in Nat
      BY DEF Keyed
    <3>2. ~(key[x] < key[y]) /\ ~(key[y] < key[x])
      BY <1>2, <1>3, <2>2
    <3> QED BY <3>1, <3>2 DEF Keyed
  <2> HIDE DEF c
  <2> QED BY <2>1, <2>2 DEF Injection, IsInjective
<1>5. c \in Surjection(S, 0 .. n - 1)
  <2>1. IsFiniteSet(0 .. n - 1) /\ Cardinality(0 .. n - 1) = n
    BY <1>1, FS_Interval
  <2> HIDE DEF c
  <2> QED BY <1>4, <2>1, FS_Injection
<1>6. \A k \in 0 .. n - 1 : \E x \in S : c[x] = k
  <2> HIDE DEF c
  <2> QED BY <1>5 DEF Surjection
<1> QED BY <1>1, <1>2, <1>3, <1>6

LEMMA SortedIs ==
    ASSUME NEW S, IsFiniteSet(S), NEW key, Keyed(S, key)
    PROVE  LET out == SortedBy(S, key) IN
           /\ out \in Seq(S) /\ Len(out) = Cardinality(S)
           /\ Cardinality(S) \in Nat
           /\ \A i \in 1 .. Len(out) : out[i] \in S
           /\ \A x \in S : \E i \in 1 .. Len(out) : out[i] = x
           /\ \A i, j \in 1 .. Len(out) : i < j => key[out[i]] < key[out[j]]
<1> DEFINE n == Cardinality(S)
           out == SortedBy(S, key)
<1>1. n \in Nat
  BY BeforeIs
<1>2. ASSUME NEW i \in 1 .. n
      PROVE  out[i] \in S /\ Cardinality(Before(S, key, out[i])) = i - 1
  <2>1. i - 1 \in 0 .. n - 1
    BY <1>1
  <2>2. \E x \in S : Cardinality(Before(S, key, x)) = i - 1
    BY <2>1, BeforeIs
  <2>3. out[i] = CHOOSE x \in S : Cardinality(Before(S, key, x)) = i - 1
    BY DEF SortedBy, Before
  <2> QED BY <2>2, <2>3
<1>3. DOMAIN out = 1 .. n /\ out = [i \in 1 .. n |-> out[i]]
  BY DEF SortedBy
<1> HIDE DEF out
<1>4. out \in Seq(S) /\ Len(out) = n
  BY <1>1, <1>2, <1>3
<1>5. ASSUME NEW x \in S PROVE \E i \in 1 .. n : out[i] = x
  <2> DEFINE i == Cardinality(Before(S, key, x)) + 1
  <2>1. Cardinality(Before(S, key, x)) \in 0 .. n - 1
    BY BeforeIs
  <2>2. i \in 1 .. n /\ i - 1 = Cardinality(Before(S, key, x))
    BY <1>1, <2>1
  <2>3. out[i] \in S /\ Cardinality(Before(S, key, out[i])) = Cardinality(Before(S, key, x))
    BY <1>2, <2>2
  <2> HIDE DEF i
  <2>4. ~(key[x] < key[out[i]]) /\ ~(key[out[i]] < key[x])
    BY <2>1, <2>3, BeforeIs
  <2>5. key[x] \in Nat /\ key[out[i]] \in Nat
    BY <2>3 DEF Keyed
  <2>6. key[x] = key[out[i]]
    BY <2>4, <2>5
  <2> QED BY <2>2, <2>3, <2>6 DEF Keyed
<1>6. ASSUME NEW i \in 1 .. n, NEW j \in 1 .. n, i < j PROVE key[out[i]] < key[out[j]]
  <2>1. /\ out[i] \in S /\ Cardinality(Before(S, key, out[i])) = i - 1
        /\ out[j] \in S /\ Cardinality(Before(S, key, out[j])) = j - 1
    BY <1>2
  <2>2. key[out[i]] \in Nat /\ key[out[j]] \in Nat
    BY <2>1 DEF Keyed
  <2>3. key[out[i]] # key[out[j]]
    <3>1. out[i] # out[j]
      BY <2>1, <1>6
    <3> QED BY <3>1, <2>1 DEF Keyed
  <2>4. ~(key[out[j]] < key[out[i]])
    <3>1. ~(j - 1 < i - 1)
      <4>1. i \in Int /\ j \in Int /\ i < j
        BY <1>6
      <4> QED BY ONLY <4>1
    <3>2. \A x, y \in S : key[y] < key[x] => Cardinality(Before(S, key, y)) < Cardinality(Before(S, key, x))
      BY BeforeIs
    <3> QED BY ONLY <3>1, <3>2, <2>1
  <2> QED BY <2>2, <2>3, <2>4
<1> QED BY <1>1, <1>2, <1>4, <1>5, <1>6 DEF out
=============================================================================
