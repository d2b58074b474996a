---------------------------- MODULE FoldTheorems ----------------------------
(***************************************************************************)
(* Numbers, sets of numbers and folds: what the proofs of several          *)
(* components need of the operators of the community modules.  Operators   *)
(* are given as functions on a set V, so that the facts are first-order:   *)
(* who folds with an operator takes as V the set it maps into itself.      *)
(***************************************************************************)
EXTENDS Naturals, Sequences, SequencesExt, FiniteSetTheorems, TLAPS

CONSTANT Op(_, _)    \* what is folded with: see FoldSteps

(* A finite set of numbers that is not empty has a largest element.        *)
LEMMA LargestExists ==
  ASSUME NEW S \in SUBSET Nat, IsFiniteSet(S), S # {}
  PROVE  \E m \in S : \A s \in S : s <= m
<1> DEFINE HasLargest(T) == \E m \in T : \A s \in T : s <= m
           Bad == {T \in SUBSET S : T # {} /\ ~HasLargest(T)}
<1>1. SUFFICES ASSUME Bad # {} PROVE FALSE
  OBVIOUS
<1>2. Bad \subseteq FiniteSubsetsOf(S)
  BY FS_Subset DEF FiniteSubsetsOf
<1>3. PICK T \in Bad : \A U \in Bad : <<U, T>> \notin StrictSubsetOrdering(S)
  <2>1. IsWellFoundedOn(StrictSubsetOrdering(S), FiniteSubsetsOf(S))
    BY FS_StrictSubsetOrderingWellFounded
  <2> HIDE DEF Bad
  <2> QED  BY <1>1, <1>2, <2>1, WFMin
<1>4. PICK x \in T : TRUE
  OBVIOUS
<1> DEFINE U == T \ {x}
<1>5. U \notin Bad
  <2>1. <<U, T>> \in StrictSubsetOrdering(S)
    BY <1>4 DEF StrictSubsetOrdering
  <2> QED  BY <2>1, <1>3
<1>6. CASE U = {}
  <2>1. T = {x} /\ x \in Nat
    BY <1>4, <1>6
  <2> QED  BY <2>1
<1>7. CASE U # {}
  <2>1. PICK m \in U : \A s \in U : s <= m
    BY <1>5, <1>7
  <2>2. m \in Nat /\ x \in Nat
    BY <2>1, <1>4
  <2>3. HasLargest(T)
    BY <2>1, <2>2, <1>4
  <2> QED  BY <2>3
<1> QED  BY <1>6, <1>7

(* Induction up to n, over a set: what holds is put as membership of S.    *)
LEMMA UpTo ==
  ASSUME NEW n \in Nat, NEW S, 0 \in S, \A i \in 0..n : i < n /\ i \in S => i + 1 \in S
  PROVE  \A i \in 0..n : i \in S
<1> DEFINE T == {k \in 0..n : \A i \in 0..k : i \in S}
<1>1. T \subseteq Nat /\ IsFiniteSet(T)
  <2>1. IsFiniteSet(0..n)
    BY FS_Interval
  <2> QED  BY <2>1, FS_Subset
<1>2. 0 \in T
  OBVIOUS
<1>3. PICK m \in T : \A k \in T : k <= m
  <2> HIDE DEF T
  <2> QED  BY <1>1, <1>2, LargestExists
<1>4. ~(m < n)
  <2>1. SUFFICES ASSUME m < n PROVE FALSE
    OBVIOUS
  <2>2. m + 1 \in 0..n /\ m \in S /\ m \in 0..n
    BY <2>1
  <2>3. \A i \in 0..(m + 1) : i \in 0..m \/ i = m + 1
    BY <2>2
  <2>4. m + 1 \in T
    BY <2>1, <2>2, <2>3
  <2> QED  BY <1>3, <2>2, <2>4
<1>5. m = n
  BY <1>4
<1> QED  BY <1>5

-----------------------------------------------------------------------------
(* Division.                                                               *)
LEMMA Dividing ==
  ASSUME NEW b \in Nat, b >= 1, NEW n \in Nat
  PROVE  /\ n % b \in 0..b - 1 /\ n \div b \in Nat
         /\ n = (n % b) + b * (n \div b)
OBVIOUS

LEMMA DividedBelow ==
  ASSUME NEW b \in Nat, b >= 1, NEW n \in Nat, NEW c \in Nat, n < b * c
  PROVE  n \div b < c
<1> DEFINE q == n \div b
<1>1. q \in Nat /\ n >= b * q
  BY Dividing
<1>2. SUFFICES ASSUME q >= c PROVE FALSE
  BY <1>1
<1>3. b * q >= b * c
  BY <1>1, <1>2
<1> QED  BY <1>1, <1>3

LEMMA QuotientIs ==
  ASSUME NEW b \in Nat, b >= 1, NEW q \in Nat, NEW r \in Nat, r < b
  PROVE  (b * q + r) \div b = q
<1>1. PICK n \in Nat : n = b * q + r
  OBVIOUS
<1>2. PICK k \in Nat : k = n \div b
  OBVIOUS
<1>3. n % b \in 0..b - 1 /\ n = (n % b) + b * k
  BY <1>2, Dividing
<1>4. PICK s \in Nat : s = n % b /\ s < b
  BY <1>3
<1>5. ~(k < q)
  <2>1. SUFFICES ASSUME k < q PROVE FALSE
    OBVIOUS
  <2>2. b * (k + 1) <= b * q
    BY <2>1
  <2> QED  BY <1>1, <1>3, <1>4, <2>2
<1>6. ~(q < k)
  <2>1. SUFFICES ASSUME q < k PROVE FALSE
    OBVIOUS
  <2>2. b * (q + 1) <= b * k
    BY <2>1
  <2> QED  BY <1>1, <1>3, <1>4, <2>2
<1> QED  BY <1>1, <1>2, <1>5, <1>6

(* Dividing by a product is dividing twice.                                *)
LEMMA DividingTwice ==
  ASSUME NEW b \in Nat, b >= 1, NEW c \in Nat, c >= 1, NEW n \in Nat
  PROVE  n \div (b * c) = (n \div b) \div c
<1>1. PICK q \in Nat, r \in Nat : q = n \div b /\ r < b /\ n = r + b * q
  BY Dividing
<1>2. PICK k \in Nat, s \in Nat : k = q \div c /\ s < c /\ q = s + c * k
  BY Dividing
<1>3. b * s + r \in Nat /\ b * s + r < b * c
  <2>1. b * (s + 1) <= b * c
    BY <1>2
  <2> QED  BY <1>1, <1>2, <2>1
<1>4. n = (b * c) * k + (b * s + r)
  <2>1. b * q = b * s + b * (c * k)
    BY <1>2
  <2>2. b * (c * k) = (b * c) * k
    OBVIOUS
  <2> QED  BY <1>1, <2>1, <2>2
<1>5. PICK d \in Nat, t \in Nat : d = b * c /\ t = b * s + r /\ d >= 1 /\ t < d
  <2>1. b * c >= b * 1
    OBVIOUS
  <2> QED  BY <1>3, <2>1
<1>6. (d * k + t) \div d = k
  BY <1>5, QuotientIs
<1> QED  BY <1>1, <1>2, <1>4, <1>5, <1>6

(* Where an entry of an a by b array is, and which is at a place.          *)
LEMMA EntryAt ==
  ASSUME NEW a \in Nat, NEW b \in Nat, b >= 1, NEW n \in Nat, n < a * b
  PROVE  /\ n \div b \in Nat /\ n \div b < a /\ n % b \in Nat /\ n % b < b
         /\ (n \div b) * b + (n % b) = n
<1>1. n % b \in 0..b - 1 /\ n \div b \in Nat /\ n = (n % b) + b * (n \div b)
  BY Dividing
<1>2. n < b * a
  OBVIOUS
<1>3. n \div b < a
  BY <1>2, DividedBelow
<1>4. PICK q \in Nat, r \in Nat : q = n \div b /\ r = n % b /\ n = r + b * q /\ r < b
  BY <1>1
<1>5. q * b + r = n
  BY <1>4
<1> QED  BY <1>3, <1>4, <1>5

LEMMA PlaceOf ==
  ASSUME NEW a \in Nat, NEW b \in Nat, b >= 1, NEW i \in Nat, i < a, NEW j \in Nat, j < b
  PROVE  /\ i * b + j \in Nat /\ i * b + j < a * b
         /\ (i * b + j) \div b = i /\ (i * b + j) % b = j
<1>1. i * b + j < a * b
  <2>1. (i + 1) * b <= a * b
    OBVIOUS
  <2>2. (i + 1) * b = i * b + b
    OBVIOUS
  <2> QED  BY <2>1, <2>2
<1>2. PICK n \in Nat : n = i * b + j
  OBVIOUS
<1>3. n = b * i + j
  BY <1>2
<1>4. n \div b = i
  BY <1>3, QuotientIs
<1>5. n % b = j
  <2>1. PICK r \in Nat : r = n % b
    BY Dividing
  <2>2. n = r + b * i
    BY <1>4, <2>1, Dividing
  <2> QED  BY <1>3, <2>1, <2>2
<1> QED  BY <1>1, <1>2, <1>4, <1>5

-----------------------------------------------------------------------------
(* The largest number of a set.                                            *)
LEMMA MaxIs ==
  ASSUME NEW n \in Nat, NEW s \in SUBSET (1..n), s # {}
  PROVE  /\ Max(s) \in s /\ Max(s) \in 1..n
         /\ \A x \in s : x <= Max(s)
         /\ \A m \in s : (\A x \in s : x <= m) => Max(s) = m
<1>1. IsFiniteSet(s) /\ s \subseteq Nat
  <2>1. IsFiniteSet(1..n) /\ 1..n \subseteq Nat
    BY FS_Interval
  <2> QED  BY <2>1, FS_Subset
<1>2. \E m \in s : \A x \in s : x <= m
  BY <1>1, LargestExists
<1>3. PICK m \in s : \A x \in s : x <= m
  BY <1>2
<1>4. \E k \in s : \A x \in s : k >= x
  <2>1. \A x \in s : m >= x
    BY <1>1, <1>3
  <2> QED  BY <2>1
<1>5. Max(s) \in s /\ \A x \in s : Max(s) >= x
  BY ONLY <1>4 DEF Max
<1>6. Max(s) \in Nat /\ \A x \in s : x <= Max(s)
  <2>1. PICK k : k = Max(s)
    OBVIOUS
  <2>2. k \in Nat /\ \A x \in s : x \in Nat /\ k >= x
    BY <1>1, <1>5, <2>1
  <2>3. \A x \in s : x <= k
    BY ONLY <2>2
  <2> QED  BY <2>1, <2>2, <2>3
<1>7. ASSUME NEW l \in s, \A x \in s : x <= l PROVE Max(s) = l
  <2>1. Max(s) <= l /\ l <= Max(s) /\ l \in Nat
    BY <1>1, <1>5, <1>6, <1>7
  <2> QED  BY ONLY <1>6, <2>1
<1> QED  BY <1>5, <1>6, <1>7

LEMMA MaxOfPrefix ==
  ASSUME NEW n \in Nat, NEW k \in 1..n
  PROVE  /\ (1..k) \in SUBSET (1..n) /\ 1..k # {}
         /\ Max(1..k) = k /\ (1..k) \ {k} = 1..(k - 1)
<1>1. (1..k) \in SUBSET (1..n) /\ k \in 1..k
  OBVIOUS
<1>2. Max(1..k) = k
  <2>1. PICK s \in SUBSET (1..n) : s = 1..k
    BY <1>1
  <2>2. s # {} /\ k \in s /\ \A x \in s : x <= k
    BY <1>1, <2>1
  <2> QED  BY <2>1, <2>2, MaxIs
<1> QED  BY <1>1, <1>2

(* n steps from base, and the fold over the subsets of 1..n that takes the *)
(* largest first: what MapThenFoldSet chooses for FoldLeft.                *)
Repeats(h, V, base, n, step) ==
  /\ h \in [0..n -> V] /\ h[0] = base
  /\ \A k \in 1..n : h[k] = step[k][h[k - 1]]

FoldsWithin(f, V, base, n, step) ==
  /\ f[{}] = base
  /\ \A s \in SUBSET (1..n) :
       s # {} /\ f[s \ {Max(s)}] \in V => f[s] = step[Max(s)][f[s \ {Max(s)}]]

(* Such a fold exists.                                                     *)
LEMMA FoldExists ==
  ASSUME NEW V, NEW base \in V, NEW n \in Nat, NEW step \in [1..n -> [V -> V]]
  PROVE  \E f \in [SUBSET (1..n) -> V] : FoldsWithin(f, V, base, n, step)
<1> DEFINE Folds(f, m) == /\ f \in [SUBSET (1..m) -> V] /\ f[{}] = base
                          /\ \A s \in SUBSET (1..m) :
                               s # {} => f[s] = step[Max(s)][f[s \ {Max(s)}]]
           S == {m \in 0..n : \E f : Folds(f, m)}
<1>1. 0 \in S
  <2>1. 1..0 = {} /\ SUBSET (1..0) = {{}}
    OBVIOUS
  <2>2. Folds([s \in SUBSET (1..0) |-> base], 0)
    BY <2>1
  <2> HIDE DEF Folds
  <2>3. \E f : Folds(f, 0)
    BY <2>2
  <2>4. 0 \in 0..n
    OBVIOUS
  <2> QED  BY <2>3, <2>4
<1>2. ASSUME NEW m \in 0..n, m < n, m \in S PROVE m + 1 \in S
  <2>1. PICK f : Folds(f, m)
    BY <1>2
  <2>2. m \in Nat /\ m + 1 \in 1..n /\ 1..m \subseteq 1..n /\ m + 1 \notin 1..m
        /\ 1..(m + 1) = (1..m) \cup {m + 1}
    <3>1. m \in Nat /\ n \in Nat /\ m < n
      BY <1>2
    <3> QED  BY ONLY <3>1
  <2> DEFINE top == m + 1
             g == [s \in SUBSET (1..top) |-> IF top \in s THEN step[top][f[s \ {top}]] ELSE f[s]]
  <2>3. \A s \in SUBSET (1..top) : s \ {top} \in SUBSET (1..m) /\ (top \notin s => s \in SUBSET (1..m))
    BY <2>2
  <2>4. g \in [SUBSET (1..top) -> V]
    <3>1. step[top] \in [V -> V]
      BY <2>2
    <3>2. \A s \in SUBSET (1..m) : f[s] \in V
      BY <2>1
    <3> QED  BY <2>3, <3>1, <3>2
  <2>5. g[{}] = base
    <3>1. {} \in SUBSET (1..top) /\ top \notin {}
      OBVIOUS
    <3> QED  BY <2>1, <3>1
  <2>6. ASSUME NEW s \in SUBSET (1..top), s # {} PROVE g[s] = step[Max(s)][g[s \ {Max(s)}]]
    <3>1. CASE top \in s
      <4>1. Max(s) = top
        <5>1. \A x \in s : x <= top
          BY <2>2
        <5>2. top \in Nat
          BY <2>2
        <5> HIDE DEF top
        <5> QED  BY <2>6, <3>1, <5>1, <5>2, MaxIs
      <4>2. s \ {top} \in SUBSET (1..top) /\ top \notin s \ {top}
        OBVIOUS
      <4>3. g[s \ {top}] = f[s \ {top}]
        BY <4>2
      <4> QED  BY <3>1, <4>1, <4>3
    <3>2. CASE top \notin s
      <4>1. s \in SUBSET (1..m)
        BY <2>3, <3>2
      <4>2. s \ {Max(s)} \in SUBSET (1..top) /\ top \notin s \ {Max(s)}
        BY <3>2
      <4>3. g[s] = f[s] /\ g[s \ {Max(s)}] = f[s \ {Max(s)}]
        BY <3>2, <4>2
      <4>4. f[s] = step[Max(s)][f[s \ {Max(s)}]]
        BY <2>1, <2>6, <4>1
      <4> QED  BY <4>3, <4>4
    <3> QED  BY <3>1, <3>2
  <2>7. Folds(g, m + 1)
    BY <2>4, <2>5, <2>6
  <2> HIDE DEF g, Folds
  <2> QED  BY <2>2, <2>7
<1>3. n \in S
  <2>1. \A i \in 0..n : i < n /\ i \in S => i + 1 \in S
    BY <1>2
  <2>2. n \in 0..n
    OBVIOUS
  <2> HIDE DEF S
  <2> QED  BY <1>1, <2>1, <2>2, UpTo
<1>4. PICK f : Folds(f, n)
  BY <1>3
<1>5. f \in [SUBSET (1..n) -> V] /\ FoldsWithin(f, V, base, n, step)
  BY <1>4 DEF FoldsWithin
<1> QED  BY ONLY <1>5

(* What a fold over 1..n comes to: n steps.                                *)
LEMMA FoldValues ==
  ASSUME NEW V, NEW base \in V, NEW n \in Nat, NEW step \in [1..n -> [V -> V]],
         NEW f, FoldsWithin(f, V, base, n, step)
  PROVE  \E h : Repeats(h, V, base, n, step) /\ h[n] = f[1..n]
<1> DEFINE h == [k \in 0..n |-> f[1..k]]
           S == {k \in 0..n : h[k] \in V}
<1>1. h[0] = base
  <2>1. 1..0 = {}
    OBVIOUS
  <2> QED  BY <2>1 DEF FoldsWithin
<1>2. ASSUME NEW k \in 1..n, h[k - 1] \in V PROVE h[k] = step[k][h[k - 1]] /\ h[k] \in V
  <2>1. k - 1 \in 0..n /\ k \in 0..n
    OBVIOUS
  <2>2. h[k - 1] = f[1..(k - 1)] /\ h[k] = f[1..k]
    BY <2>1
  <2>3. f[1..k] = step[k][f[1..(k - 1)]]
    <3>1. PICK s \in SUBSET (1..n) : s = 1..k /\ s # {} /\ Max(s) = k /\ s \ {k} = 1..(k - 1)
      BY MaxOfPrefix
    <3>2. f[s \ {Max(s)}] \in V
      BY <1>2, <2>2, <3>1
    <3>3. f[s] = step[Max(s)][f[s \ {Max(s)}]]
      BY <3>1, <3>2 DEF FoldsWithin
    <3> QED  BY <3>1, <3>3
  <2>4. step[k] \in [V -> V]
    OBVIOUS
  <2> QED  BY <1>2, <2>2, <2>3, <2>4
<1>3. ASSUME NEW i \in 0..n, i < n, i \in S PROVE i + 1 \in S
  <2>1. i + 1 \in 1..n /\ i + 1 \in 0..n /\ (i + 1) - 1 = i /\ h[i] \in V
    BY <1>3
  <2>2. h[i + 1] \in V
    <3> HIDE DEF h
    <3> QED  BY <1>2, <2>1
  <2> QED  BY <2>1, <2>2
<1>4. \A k \in 0..n : h[k] \in V
  <2>1. 0 \in S
    BY <1>1
  <2>2. \A k \in 0..n : k \in S
    <3> HIDE DEF S
    <3> QED  BY <1>3, <2>1, UpTo
  <2> QED  BY <2>2
<1>5. h \in [0..n -> V] /\ h[n] = f[1..n]
  BY <1>4
<1>6. \A k \in 1..n : h[k] = step[k][h[k - 1]]
  <2> SUFFICES ASSUME NEW k \in 1..n PROVE h[k] = step[k][h[k - 1]]
    OBVIOUS
  <2>1. h[k - 1] \in V
    <3>1. k - 1 \in 0..n
      OBVIOUS
    <3> HIDE DEF h
    <3> QED  BY <1>4, <3>1
  <2> HIDE DEF h
  <2> QED  BY <1>2, <2>1
<1> HIDE DEF h
<1>7. Repeats(h, V, base, n, step) /\ h[n] = f[1..n]
  BY <1>1, <1>5, <1>6 DEF Repeats
<1> QED  BY ONLY <1>7

(* There are n steps from any base.                                        *)
LEMMA StepsExist ==
  ASSUME NEW V, NEW base \in V, NEW n \in Nat, NEW step \in [1..n -> [V -> V]]
  PROVE  \E h : Repeats(h, V, base, n, step)
<1>1. PICK f : FoldsWithin(f, V, base, n, step)
  BY FoldExists
<1> QED  BY <1>1, FoldValues

-----------------------------------------------------------------------------
(* FoldLeft takes its steps from left to right, one for each element, as   *)
(* long as the operator stays within V.                                    *)
Steps(h, V, base, n, seq) ==
  /\ h \in [0..n -> V] /\ h[0] = base
  /\ \A k \in 1..n : h[k] = Op(h[k - 1], seq[k])

Fold(base, seq) == FoldLeft(Op, base, seq)

LEMMA FoldSteps ==
  ASSUME NEW V, NEW base \in V, NEW n \in Nat, NEW seq, DOMAIN seq = 1..n,
         \A v \in V, i \in 1..n : Op(v, seq[i]) \in V
  PROVE  \E h : Steps(h, V, base, n, seq) /\ h[n] = Fold(base, seq)
<1> DEFINE step == [k \in 1..n |-> [v \in V |-> Op(v, seq[k])]]
           Iterates(g) ==
             g = [s \in SUBSET (1..n) |-> IF s = {} THEN base ELSE Op(g[s \ {Max(s)}], seq[Max(s)])]
<1>1. step \in [1..n -> [V -> V]] /\ \A k \in 1..n, v \in V : step[k][v] = Op(v, seq[k])
  OBVIOUS
<1> HIDE DEF step
<1>3. PICK iter : iter = CHOOSE g : Iterates(g)
  OBVIOUS
<1>4. Fold(base, seq) = iter[1..n]
  BY <1>3 DEF Fold, FoldLeft, MapThenFoldSet
<1>5. Iterates(iter)
  <2>1. PICK F \in [SUBSET (1..n) -> V] : FoldsWithin(F, V, base, n, step)
    BY <1>1, FoldExists
  <2>2. ASSUME NEW s \in SUBSET (1..n)
        PROVE  F[s] = IF s = {} THEN base ELSE Op(F[s \ {Max(s)}], seq[Max(s)])
    <3>1. CASE s = {}
      BY <2>1, <3>1 DEF FoldsWithin
    <3>2. CASE s # {}
      <4>1. Max(s) \in 1..n /\ s \ {Max(s)} \in SUBSET (1..n)
        BY <3>2, MaxIs
      <4>2. F[s \ {Max(s)}] \in V
        BY <4>1
      <4>3. F[s] = step[Max(s)][F[s \ {Max(s)}]]
        BY <2>1, <3>2, <4>2 DEF FoldsWithin
      <4> QED  BY <1>1, <3>2, <4>1, <4>2, <4>3
    <3> QED  BY <3>1, <3>2
  <2>3. Iterates(F)
    BY <2>2
  <2> HIDE DEF Iterates
  <2> QED  BY <1>3, <2>3
<1>6. FoldsWithin(iter, V, base, n, step)
  <2>1. iter[{}] = base
    BY <1>5
  <2>2. ASSUME NEW s \in SUBSET (1..n), s # {}, iter[s \ {Max(s)}] \in V
        PROVE  iter[s] = step[Max(s)][iter[s \ {Max(s)}]]
    <3>1. Max(s) \in 1..n
      BY <2>2, MaxIs
    <3>2. iter[s] = Op(iter[s \ {Max(s)}], seq[Max(s)])
      BY <1>5, <2>2
    <3> QED  BY <1>1, <2>2, <3>1, <3>2
  <2> QED  BY <2>1, <2>2 DEF FoldsWithin
<1>7. PICK h : Repeats(h, V, base, n, step) /\ h[n] = iter[1..n]
  <2> HIDE DEF Iterates
  <2> QED  BY <1>1, <1>6, FoldValues
<1>8. Steps(h, V, base, n, seq)
  <2>1. h \in [0..n -> V] /\ h[0] = base /\ \A k \in 1..n : h[k] = step[k][h[k - 1]]
    BY <1>7 DEF Repeats
  <2>2. ASSUME NEW k \in 1..n PROVE h[k] = Op(h[k - 1], seq[k])
    <3>1. k - 1 \in 0..n
      OBVIOUS
    <3> QED BY <1>1, <2>1, <3>1
  <2> QED BY <2>1, <2>2 DEF Steps
<1> QED  BY <1>4, <1>7, <1>8

-----------------------------------------------------------------------------
(* The flattening of a sequence of sequences and those of its beginnings.  *)
Flattens(h, V, s, n) ==
  /\ h \in [0..n -> V] /\ h[0] = <<>>
  /\ \A k \in 1..n : h[k] = h[k - 1] \o s[k]

LEMMA FlattenValues ==
  ASSUME NEW S, NEW s \in Seq(Seq(S)), NEW n \in Nat, n = Len(s)
  PROVE  \E h : Flattens(h, Seq(S), s, n) /\ h[n] = FlattenSeq(s)
<1>1. PICK V : V = Seq(S)
  OBVIOUS
<1>2. PICK base \in V : base = <<>> /\ \A u \in V : base \o u = u
  <2>1. <<>> \in V
    BY <1>1
  <2>2. \A u \in V : <<>> \o u = u
    BY <1>1
  <2> QED  BY <2>1, <2>2
<1>3. /\ n = Len(s) /\ s \in [1..n -> V] /\ \A i \in 1..n : s[i] \in V
      /\ \A u, v \in V : u \o v \in V
  <2>1. s \in [1..n -> V] /\ n = Len(s)
    BY <1>1
  <2>2. \A u, v \in V : u \o v \in V
    BY <1>1
  <2> QED  BY <2>1, <2>2
<1>4. PICK step \in [1..n -> [V -> V]] : \A k \in 1..n, v \in V : step[k][v] = v \o s[k]
  <2>1. PICK st : st = [k \in 1..n |-> [v \in V |-> v \o s[k]]]
    OBVIOUS
  <2>2. \A k \in 1..n : [v \in V |-> v \o s[k]] \in [V -> V]
    BY <1>3
  <2>3. st \in [1..n -> [V -> V]] /\ \A k \in 1..n, v \in V : st[k][v] = v \o s[k]
    BY ONLY <2>1, <2>2
  <2> QED  BY <2>3
<1>5. PICK h : Repeats(h, V, base, n, step)
  BY StepsExist
<1>steps. h \in [0..n -> V] /\ h[0] = base /\ \A k \in 1..n : h[k] = step[k][h[k - 1]]
  BY <1>5 DEF Repeats
<1>6. ASSUME NEW k \in 1..n PROVE h[k] = h[k - 1] \o s[k]
  <2>1. k - 1 \in 0..n
    OBVIOUS
  <2>2. h[k - 1] \in V
    BY <1>steps, <2>1
  <2>3. step[k][h[k - 1]] = h[k - 1] \o s[k]
    BY <1>4, <2>2
  <2> QED  BY <1>steps, <2>3
<1>7. ASSUME n = 0 PROVE h[n] = FlattenSeq(s)
  <2>1. FlattenSeq(s) = s /\ s = <<>>
    BY <1>3, <1>7 DEF FlattenSeq
  <2> QED  BY <1>2, <1>steps, <1>7, <2>1
<1>8. ASSUME n # 0 PROVE h[n] = FlattenSeq(s)
  <2> DEFINE Fills(f) == f = [i \in 1..n |-> IF i = 1 THEN s[i] ELSE f[i - 1] \o s[i]]
  <2>1. Fills([i \in 1..n |-> h[i]])
    <3>1. PICK f : f = [i \in 1..n |-> h[i]]
      OBVIOUS
    <3>2. ASSUME NEW i \in 1..n PROVE h[i] = IF i = 1 THEN s[i] ELSE f[i - 1] \o s[i]
      <4>1. CASE i = 1
        <5>1. h[i] = h[i - 1] \o s[i] /\ s[i] \in V /\ i - 1 = 0
          BY ONLY <1>3, <1>6, <4>1, n \in Nat, i \in 1..n
        <5> QED  BY <1>2, <1>steps, <4>1, <5>1
      <4>2. CASE i # 1
        <5>1. i - 1 \in 1..n
          BY <4>2
        <5> QED  BY <1>6, <3>1, <4>2, <5>1
      <4> QED  BY <4>1, <4>2
    <3> QED  BY <3>1, <3>2
  <2>2. PICK g : g = CHOOSE f : Fills(f)
    OBVIOUS
  <2>3. Fills(g)
    <3> HIDE DEF Fills
    <3> QED  BY <2>1, <2>2
  <2>4. FlattenSeq(s) = g[n]
    BY <1>3, <1>8, <2>2 DEF FlattenSeq
  <2> DEFINE T == {i \in 0..n : i = 0 \/ g[i] = h[i]}
  <2>5. ASSUME NEW i \in 0..n, i < n, i \in T PROVE i + 1 \in T
    <3>1. i + 1 \in 1..n /\ i + 1 \in 0..n /\ (i + 1) - 1 = i
      BY <2>5
    <3>2. h[i + 1] = h[i] \o s[i + 1]
      BY <1>6, <3>1
    <3>3. g[i + 1] = IF i + 1 = 1 THEN s[i + 1] ELSE g[i] \o s[i + 1]
      BY <2>3, <3>1
    <3>4. CASE i = 0
      <4>1. s[i + 1] \in V /\ i + 1 = 1 /\ h[i] = base
        BY <1>3, <1>steps, <3>1, <3>4
      <4> QED  BY <1>2, <3>1, <3>2, <3>3, <4>1
    <3>5. CASE i # 0
      <4>1. g[i] = h[i] /\ i + 1 # 1
        BY <2>5, <3>5
      <4> QED  BY <3>1, <3>2, <3>3, <4>1
    <3> QED  BY <3>4, <3>5
  <2>6. n \in T
    <3>1. 0 \in T /\ n \in 0..n
      OBVIOUS
    <3> HIDE DEF T
    <3> QED  BY <2>5, <3>1, UpTo
  <2> QED  BY <1>8, <2>4, <2>6
<1>9. Flattens(h, V, s, n)
  BY <1>2, <1>steps, <1>6 DEF Flattens
<1> QED  BY <1>1, <1>7, <1>8, <1>9
=============================================================================
