------------------------------ MODULE Network -------------------------------
(***************************************************************************)
(* The network (neural.cpp): two layers in flat arrays, how the arrays grow*)
(* and how the threads of train_batch share the samples of a pass.         *)
(*                                                                         *)
(* A weight is not a number here but [born, seen]: the connection it was   *)
(* made for and how many samples' gradients were added to it.  So a weight *)
(* that ends up at another place, or a sample that is left out or taken    *)
(* twice, shows.  The value of a gradient is left out, and with it that a  *)
(* hidden unit at rest passes none on.                                     *)
(***************************************************************************)
EXTENDS Naturals, Sequences, FiniteSets

CONSTANTS
  Hidden,      \* HIDDEN_SIZE
  NumThreads   \* std::thread::hardware_concurrency()

ASSUME NetworkConstants == Hidden \in Nat \ {0} /\ NumThreads \in Nat \ {0}

Larger(a, b)  == IF a >= b THEN a ELSE b
Smaller(a, b) == IF a <= b THEN a ELSE b
-----------------------------------------------------------------------------
(* Entry p of an array is element p + 1 of a sequence.                     *)
At(array, p) == array[p + 1]

Fresh(layer, i, j) == [born |-> <<layer, i, j>>, seen |-> 0]

(* init_random, and the arrays of a network of these sizes.                *)
NewNet(in, out) ==
  [in |-> in, out |-> out,
   w1 |-> [p \in 1..in * Hidden |-> Fresh(1, (p - 1) \div Hidden, (p - 1) % Hidden)],
   b1 |-> [j \in 1..Hidden |-> 0],
   w2 |-> [p \in 1..Hidden * out |-> Fresh(2, (p - 1) \div out, (p - 1) % out)],
   b2 |-> [k \in 1..out |-> 0]]

ExpandInputs(n, size) ==
  IF size <= n.in THEN n
  ELSE [n EXCEPT !.in = size,
         !.w1 = [p \in 1..size * Hidden |->
                   LET i == (p - 1) \div Hidden
                       j == (p - 1) % Hidden
                   IN IF i < n.in THEN At(n.w1, i * Hidden + j) ELSE Fresh(1, i, j)]]

(* Mutant of ExpandOutputs: the biases are not replaced.                   *)
ExpandOutputsNotBiases(n, size) ==
  IF size <= n.out THEN n
  ELSE [n EXCEPT !.out = size,
         !.w2 = [p \in 1..Hidden * size |->
                   LET j == (p - 1) \div size
                       k == (p - 1) % size
                   IN IF k < n.out THEN At(n.w2, j * n.out + k) ELSE Fresh(2, j, k)]]

ExpandOutputs(n, size) ==
  IF size <= n.out THEN n
  ELSE [n EXCEPT !.out = size,
         !.w2 = [p \in 1..Hidden * size |->
                   LET j == (p - 1) \div size
                       k == (p - 1) % size
                   IN IF k < n.out THEN At(n.w2, j * n.out + k) ELSE Fresh(2, j, k)],
         !.b2 = [k \in 1..size |-> IF k <= n.out THEN n.b2[k] ELSE 0]]
-----------------------------------------------------------------------------
(* train_batch: how N samples are shared by the threads.                   *)

(* Mutant of ChunkSize: rounded down.                                      *)
ChunkSizeDown(N) == Larger(1, N \div NumThreads)

ChunkSize(N) == (N + NumThreads - 1) \div NumThreads
First(N, t)  == t * ChunkSize(N)
Beyond(N, t) == Smaller(First(N, t) + ChunkSize(N), N)
Launched(N)  == {t \in 0..NumThreads - 1 : First(N, t) < Beyond(N, t)}

NoGradient(n) ==
  [w1 |-> [p \in 1..n.in * Hidden |-> 0], b1 |-> [j \in 1..Hidden |-> 0],
   w2 |-> [p \in 1..Hidden * n.out |-> 0], b2 |-> [k \in 1..n.out |-> 0]]

(* A sample with input x and label y, as far as it tells weights apart:    *)
(* one more for each connection of a word it has and of its label.         *)
Accumulated(g, n, x, y) ==
  [w1 |-> [p \in DOMAIN g.w1 |-> g.w1[p] + At(x, (p - 1) \div Hidden)],
   b1 |-> [j \in DOMAIN g.b1 |-> g.b1[j] + 1],
   w2 |-> [p \in DOMAIN g.w2 |-> g.w2[p] + (IF (p - 1) % n.out = y THEN 1 ELSE 0)],
   b2 |-> [k \in DOMAIN g.b2 |-> g.b2[k] + (IF k - 1 = y THEN 1 ELSE 0)]]

(* The gradients of all threads, added to the weights.                     *)
Updated(n, total) ==
  [n EXCEPT !.w1 = [p \in DOMAIN n.w1 |-> [n.w1[p] EXCEPT !.seen = @ + total.w1[p]]],
            !.b1 = [j \in DOMAIN n.b1 |-> n.b1[j] + total.b1[j]],
            !.w2 = [p \in DOMAIN n.w2 |-> [n.w2[p] EXCEPT !.seen = @ + total.w2[p]]],
            !.b2 = [k \in DOMAIN n.b2 |-> n.b2[k] + total.b2[k]]]
=============================================================================
