--------------------------- MODULE Lifecycle_proofs ---------------------------
(* Proofs about Lifecycle and ClientPipeline, for any set of visitors, any  *)
(* store, and any of the three processes killed.                           *)
EXTENDS Lifecycle, SequenceTheorems, FiniteSetTheorems, TLAPS

(* The worker has a job from taking it to its answer, the master's thread  *)
(* while it works on it.                                                   *)
JobsAtHand ==
  /\ client.job # None <=> client.pc \in {"send", "recv"}
  /\ thread.job # None <=> thread.pc = "work"

(* A question is in the queue of its kind, and once.                       *)
InOrder(q, k) ==
  /\ \A i \in DOMAIN q : KindOf[q[i]] = k
  /\ \A i, j \in DOMAIN q : q[i] = q[j] => i = j

(* Between two questions nothing is underway; the question asked of the    *)
(* master is with the master, or its answer is, or neither when the thread *)
(* that would answer has ended; the worker leaves only a dead master.      *)
OneUnderway ==
  client.up =>
    /\ client.pc # "recv" => fromMaster = <<>> /\ (master.up => toMaster = <<>> /\ thread.job = None)
    /\ client.pc = "gone" => ~master.up
    /\ fromMaster # <<>> =>
         fromMaster = <<client.job>> /\ (master.up => toMaster = <<>> /\ thread.job = None)
    /\ master.up /\ toMaster # <<>> => toMaster = <<client.job>> /\ thread.job = None
    /\ master.up => thread.job \in {None, client.job}

Waiting == {r \in Requests : promise[r] = "pending"}

(* Who waits is in his queue, or is the worker's job.                      *)
WaitingAreHeld ==
  client.up =>
    /\ Waiting = Held
    /\ \A k \in Kinds : client.job \notin InQueue(k)
    /\ \A k \in Kinds : InOrder(queues[k], k)

Inductive == /\ ClientTypeOK /\ JobsAtHand /\ OneUnderway /\ WaitingAreHeld
             /\ FailureIsTheMasters
-----------------------------------------------------------------------------
(* Queues that are in order at both ends.                                  *)
LEMMA QueueTail ==
  ASSUME NEW q \in Seq(Requests), q # <<>>, NEW k, InOrder(q, k)
  PROVE  /\ Head(q) \in Requests /\ Tail(q) \in Seq(Requests)
         /\ KindOf[Head(q)] = k /\ InOrder(Tail(q), k)
         /\ \A r : r \in Range(q) <=> r = Head(q) \/ r \in Range(Tail(q))
         /\ Head(q) \notin Range(Tail(q))
<1>1. /\ Head(q) = q[1] /\ Tail(q) \in Seq(Requests) /\ Len(Tail(q)) = Len(q) - 1
      /\ \A i \in 1..Len(Tail(q)) : Tail(q)[i] = q[i + 1]
      /\ Len(q) \in Nat \ {0} /\ DOMAIN q = 1..Len(q) /\ DOMAIN Tail(q) = 1..Len(Tail(q))
      /\ \A i \in 1..Len(q) : q[i] \in Requests
  BY HeadTailProperties, LenProperties
<1> DEFINE t == Tail(q)
           n == Len(q)
<1>2. /\ n \in Nat \ {0} /\ DOMAIN q = 1..n /\ DOMAIN t = 1..(n - 1)
      /\ \A i \in 1..(n - 1) : t[i] = q[i + 1]
  BY <1>1
<1>3. Head(q) = q[1] /\ Head(q) \in Requests /\ t \in Seq(Requests)
  BY <1>1
<1> HIDE DEF t, n
<1>4. KindOf[Head(q)] = k
  BY <1>2, <1>3 DEF InOrder
<1>5. \A i \in 1..(n - 1) : i + 1 \in 1..n /\ i + 1 # 1
  BY <1>2
<1>6. InOrder(t, k)
  <2>1. \A i \in 1..(n - 1) : KindOf[t[i]] = k
    BY <1>2, <1>5 DEF InOrder
  <2>2. ASSUME NEW i \in 1..(n - 1), NEW j \in 1..(n - 1), t[i] = t[j] PROVE i = j
    <3>1. q[i + 1] = q[j + 1] /\ i + 1 \in 1..n /\ j + 1 \in 1..n
      BY <1>2, <1>5, <2>2
    <3>2. i + 1 = j + 1
      BY <1>2, <3>1 DEF InOrder
    <3> QED  BY <1>2, <3>2
  <2> QED  BY <1>2, <2>1, <2>2 DEF InOrder
<1>7. Head(q) \notin Range(t)
  BY <1>2, <1>3, <1>5 DEF InOrder, Range
<1>8. \A i \in 1..n : i = 1 \/ (i - 1 \in 1..(n - 1) /\ i = (i - 1) + 1)
  BY <1>2
<1>9. \A i \in 1..n : q[i] = Head(q) \/ q[i] = t[i - 1]
  BY <1>2, <1>3, <1>8
<1>10. \A r : r \in Range(q) => r = Head(q) \/ r \in Range(t)
  BY <1>2, <1>8, <1>9 DEF Range
<1>11. \A r : r = Head(q) \/ r \in Range(t) => r \in Range(q)
  BY <1>2, <1>3, <1>5 DEF Range
<1> QED  BY <1>3, <1>4, <1>6, <1>7, <1>10, <1>11 DEF t

LEMMA QueueAppend ==
  ASSUME NEW q \in Seq(Requests), NEW k, InOrder(q, k),
         NEW r \in Requests, KindOf[r] = k, r \notin Range(q)
  PROVE  /\ Append(q, r) \in Seq(Requests) /\ InOrder(Append(q, r), k)
         /\ \A x : x \in Range(Append(q, r)) <=> x = r \/ x \in Range(q)
<1> DEFINE a == Append(q, r)
           n == Len(q)
<1>1. /\ a \in Seq(Requests) /\ n \in Nat /\ DOMAIN q = 1..n /\ DOMAIN a = 1..(n + 1)
      /\ \A i \in 1..n : a[i] = q[i]
      /\ a[n + 1] = r
  BY AppendProperties, LenProperties
<1> HIDE DEF a, n
<1>2. \A i : i \in 1..(n + 1) <=> i \in 1..n \/ i = n + 1
  BY <1>1
<1>3. InOrder(a, k)
  <2>1. \A i \in 1..(n + 1) : KindOf[a[i]] = k
    BY <1>1, <1>2 DEF InOrder
  <2>2. ASSUME NEW i \in 1..(n + 1), NEW j \in 1..(n + 1), a[i] = a[j] PROVE i = j
    <3>1. \A h \in 1..n : a[h] # r
      BY <1>1 DEF Range
    <3>2. CASE i \in 1..n /\ j \in 1..n
      BY <1>1, <2>2, <3>2 DEF InOrder
    <3>3. CASE i = n + 1 \/ j = n + 1
      BY <1>1, <1>2, <2>2, <3>1, <3>3
    <3> QED  BY <1>2, <3>2, <3>3
  <2> QED  BY <1>1, <2>1, <2>2 DEF InOrder
<1>4. \A x : x \in Range(a) <=> x = r \/ x \in Range(q)
  BY <1>1, <1>2 DEF Range
<1> QED  BY <1>1, <1>3, <1>4 DEF a

(* A queue without repetitions is as long as its set of questions is large.*)
LEMMA QueueCounts ==
  ASSUME NEW q \in Seq(Requests), NEW k, InOrder(q, k)
  PROVE  Cardinality(Range(q)) = Len(q)
<1> DEFINE S == Range(q)
<1>1. Len(q) \in Nat /\ DOMAIN q = 1..Len(q) /\ q \in [1..Len(q) -> Requests]
  BY LenProperties
<1>2. q \in Bijection(1..Len(q), S)
  BY <1>1 DEF Bijection, Injection, IsInjective, Surjection, InOrder, Range
<1>3. ExistsBijection(1..Len(q), S)
  BY <1>2 DEF ExistsBijection
<1> QED  BY <1>1, <1>3, FS_CountingElements

LEMMA QueueRange == \A k : InQueue(k) = Range(queues[k]) /\ InQueue(k)' = Range(queues'[k])
BY DEF InQueue, Range

(* What is held, as a predicate.                                           *)
LEMMA WhatIsHeld ==
  \A r : r \in Held <=> (\E k \in Kinds : r \in InQueue(k)) \/ (r = client.job /\ r # None)
BY DEF Held

(* A step that takes no part in the questions, or after which the client   *)
(* process is gone.                                                        *)
LEMMA QuestionsKept ==
  ASSUME WaitingAreHeld,
         client'.up => client.up /\ client'.job = client.job /\ UNCHANGED <<queues, promise>>
  PROVE  WaitingAreHeld'
BY DEF WaitingAreHeld, Waiting, Held, InQueue, InOrder

(* The three steps of the worker that move a question.                     *)
LEMMA QuestionTaken ==
  ASSUME Inductive, Dequeue
  PROVE  WaitingAreHeld' /\ ClientTypeOK' /\ OneUnderway' /\ JobsAtHand'
<1>1. PICK k \in Kinds :
        /\ client.up /\ client.pc = "dequeue" /\ queues[k] # <<>>
        /\ queues' = [queues EXCEPT ![k] = Tail(@)]
        /\ client' = [client EXCEPT !.pc = "send", !.job = Head(queues[k])]
        /\ UNCHANGED <<promise, toMaster, fromMaster, thread, master>>
  BY DEF Dequeue, At, Urgent
<1>2. ClientTypeOK /\ JobsAtHand /\ OneUnderway /\ WaitingAreHeld
  BY DEF Inductive
<1>3. /\ queues \in [Kinds -> Seq(Requests)] /\ queues[k] \in Seq(Requests)
      /\ client.job = None
  BY <1>1, <1>2 DEF ClientTypeOK, JobsAtHand
<1>4. InOrder(queues[k], k)
  BY <1>1, <1>2 DEF WaitingAreHeld
<1> DEFINE r == Head(queues[k])
<1>5. /\ r \in Requests /\ Tail(queues[k]) \in Seq(Requests)
      /\ InOrder(Tail(queues[k]), k) /\ KindOf[r] = k
      /\ \A x : x \in InQueue(k) <=> x = r \/ x \in Range(Tail(queues[k]))
      /\ r \notin Range(Tail(queues[k]))
  BY <1>1, <1>3, <1>4, QueueTail, QueueRange
<1> HIDE DEF r
<1>6. /\ queues'[k] = Tail(queues[k])
      /\ \A h \in Kinds \ {k} : queues'[h] = queues[h]
      /\ client'.job = r /\ client'.pc = "send" /\ client'.up = client.up
      /\ queues' \in [Kinds -> Seq(Requests)]
  BY <1>1, <1>2, <1>3, <1>5 DEF r, ClientTypeOK
<1>7. ClientTypeOK'
  BY <1>1, <1>2, <1>5, <1>6 DEF ClientTypeOK, r
<1>8. r # None
  BY <1>5, ClientConstants DEF ClientConstants
<1>9. JobsAtHand' /\ OneUnderway'
  BY <1>1, <1>2, <1>3, <1>6, <1>8 DEF JobsAtHand, OneUnderway
<1>10. /\ \A x : x \in InQueue(k) <=> x = r \/ x \in InQueue(k)'
       /\ r \notin InQueue(k)'
       /\ \A h \in Kinds \ {k} : InQueue(h)' = InQueue(h)
  <2> DEFINE rest == Range(Tail(queues[k]))
  <2>1. InQueue(k)' = rest
    BY <1>6, QueueRange
  <2>2. \A h \in Kinds \ {k} : InQueue(h)' = InQueue(h)
    BY <1>6 DEF InQueue
  <2>3. r \notin rest /\ \A x : x \in InQueue(k) <=> x = r \/ x \in rest
    BY <1>5
  <2> HIDE DEF rest
  <2> QED  BY <2>1, <2>2, <2>3
<1>11. \A h \in Kinds : r \notin InQueue(h)'
  <2> SUFFICES ASSUME NEW h \in Kinds, h # k PROVE r \notin InQueue(h)
    BY <1>10
  <2>1. \A x \in InQueue(h) : KindOf[x] = h
    BY <1>1, <1>2 DEF WaitingAreHeld, InOrder, InQueue
  <2> QED  BY <1>5, <2>1
<1>12. Held' = Held
  <2>1. \A x : x \in Held' <=> (\E h \in Kinds : x \in InQueue(h)') \/ x = r
    BY <1>6, <1>8 DEF Held
  <2>2. \A x : x \in Held <=> \E h \in Kinds : x \in InQueue(h)
    BY <1>3, WhatIsHeld
  <2> QED  BY <1>10, <2>1, <2>2
<1>13. \A h \in Kinds : InOrder(queues'[h], h)
  <2> SUFFICES ASSUME NEW h \in Kinds PROVE InOrder(queues'[h], h)
    OBVIOUS
  <2>1. CASE h = k
    BY <1>5, <1>6, <2>1
  <2>2. CASE h # k
    BY <1>1, <1>2, <1>6, <2>2 DEF WaitingAreHeld
  <2> QED  BY <2>1, <2>2
<1>14. WaitingAreHeld'
  <2>1. Waiting' = Waiting /\ Waiting = Held
    BY <1>1, <1>2 DEF Waiting, WaitingAreHeld
  <2>2. \A h \in Kinds : client'.job \notin InQueue(h)'
    BY <1>6, <1>11
  <2> QED  BY <1>12, <1>13, <2>1, <2>2 DEF WaitingAreHeld, InOrder
<1> QED  BY <1>7, <1>9, <1>14

LEMMA QuestionAsked ==
  ASSUME Inductive, NEW r \in Requests, Ask(r)
  PROVE  Inductive'
<1> DEFINE k == KindOf[r]
<1>1. /\ client.up /\ client.pc # "gone" /\ promise[r] = "none"
      /\ queues' = [queues EXCEPT ![k] = Append(@, r)]
      /\ promise' = [promise EXCEPT ![r] = "pending"]
      /\ UNCHANGED <<client, toMaster, fromMaster, thread, master>>
  BY DEF Ask
<1>2. /\ ClientTypeOK /\ JobsAtHand /\ OneUnderway /\ WaitingAreHeld /\ FailureIsTheMasters
      /\ k \in Kinds /\ KindOf[r] = k
  BY ClientConstants DEF Inductive, ClientConstants
<1>3. queues \in [Kinds -> Seq(Requests)] /\ queues[k] \in Seq(Requests)
  BY <1>2 DEF ClientTypeOK
<1> HIDE DEF k
<1>4. r \notin Held /\ (\A h \in Kinds : r \notin InQueue(h)) /\ r # client.job
  <2>1. r \notin Held
    BY <1>1, <1>2 DEF WaitingAreHeld, Waiting
  <2>2. r # None
    BY ClientConstants DEF ClientConstants
  <2> QED  BY <2>1, <2>2, WhatIsHeld
<1>5. InOrder(queues[k], k) /\ r \notin Range(queues[k])
  BY <1>1, <1>2, <1>4, QueueRange DEF WaitingAreHeld
<1> DEFINE a == Append(queues[k], r)
<1>6. /\ a \in Seq(Requests) /\ InOrder(a, k)
      /\ \A x : x \in Range(a) <=> x = r \/ x \in InQueue(k)
  <2>1. KindOf[r] = k /\ queues[k] \in Seq(Requests) /\ InOrder(queues[k], k)
    BY <1>2, <1>3, <1>5
  <2> QED  BY <1>5, <2>1, QueueAppend, QueueRange
<1> HIDE DEF a
<1>7. /\ queues'[k] = a /\ \A h \in Kinds \ {k} : queues'[h] = queues[h]
      /\ queues' \in [Kinds -> Seq(Requests)]
  BY <1>1, <1>2, <1>3, <1>6 DEF a
<1>8. /\ promise' \in [Requests -> {"none", "pending", "value", "exception", "broken"}]
      /\ promise'[r] = "pending" /\ \A x \in Requests \ {r} : promise'[x] = promise[x]
  BY <1>1, <1>2 DEF ClientTypeOK
<1>9. ClientTypeOK' /\ JobsAtHand' /\ OneUnderway'
  BY <1>1, <1>2, <1>7, <1>8 DEF ClientTypeOK, JobsAtHand, OneUnderway
<1>10. FailureIsTheMasters'
  BY <1>1, <1>2, <1>8 DEF FailureIsTheMasters
<1>11. /\ \A x : x \in InQueue(k)' <=> x = r \/ x \in InQueue(k)
       /\ \A h \in Kinds \ {k} : InQueue(h)' = InQueue(h)
  <2>1. InQueue(k)' = Range(a) /\ \A h \in Kinds \ {k} : InQueue(h)' = InQueue(h)
    BY <1>7, QueueRange
  <2> QED  BY <1>6, <2>1
<1>12. \A x : x \in Held' <=> x = r \/ x \in Held
  <2>1. \A x : x \in Held' <=> (\E h \in Kinds : x \in InQueue(h)')
                               \/ (x = client.job /\ x # None)
    BY <1>1 DEF Held
  <2> QED  BY <1>2, <1>11, <2>1, WhatIsHeld
<1>13. \A x : x \in Waiting' <=> x = r \/ x \in Waiting
  BY <1>8 DEF Waiting
<1>14. \A h \in Kinds : InOrder(queues'[h], h)
  <2> SUFFICES ASSUME NEW h \in Kinds PROVE InOrder(queues'[h], h)
    OBVIOUS
  <2>1. CASE h = k
    BY <1>6, <1>7, <2>1
  <2>2. CASE h # k
    BY <1>1, <1>2, <1>7, <2>2 DEF WaitingAreHeld
  <2> QED  BY <2>1, <2>2
<1>15. WaitingAreHeld'
  <2>1. Waiting' = Held'
    BY <1>1, <1>2, <1>12, <1>13 DEF WaitingAreHeld
  <2>2. \A h \in Kinds : client'.job \notin InQueue(h)'
    BY <1>1, <1>2, <1>4, <1>11 DEF WaitingAreHeld
  <2> QED  BY <1>14, <2>1, <2>2 DEF WaitingAreHeld, InOrder
<1> QED  BY <1>9, <1>10, <1>15 DEF Inductive

LEMMA QuestionAnswered ==
  ASSUME Inductive, WorkerRecv
  PROVE  Inductive'
<1>1. /\ client.up /\ client.pc = "recv" /\ fromMaster # <<>>
      /\ fromMaster' = Tail(fromMaster)
      /\ promise' = [promise EXCEPT ![client.job] = "value"]
      /\ client' = [client EXCEPT !.pc = "dequeue", !.job = None]
      /\ UNCHANGED <<queues, toMaster, thread, master>>
  BY DEF WorkerRecv, At
<1>2. /\ ClientTypeOK /\ JobsAtHand /\ OneUnderway /\ WaitingAreHeld /\ FailureIsTheMasters
  BY DEF Inductive
<1>3. client.job # None /\ client.job \in Requests
  BY <1>1, <1>2 DEF ClientTypeOK, JobsAtHand
<1> DEFINE r == client.job
<1>4. fromMaster = <<r>> /\ (master.up => toMaster = <<>> /\ thread.job = None)
  BY <1>1, <1>2 DEF OneUnderway
<1>5. fromMaster' = <<>>
  BY <1>1, <1>4
<1>6. client'.up = client.up /\ client'.pc = "dequeue" /\ client'.job = None
  BY <1>1, <1>2 DEF ClientTypeOK
<1>7. /\ promise' \in [Requests -> {"none", "pending", "value", "exception", "broken"}]
      /\ promise'[r] = "value" /\ \A x \in Requests \ {r} : promise'[x] = promise[x]
  BY <1>1, <1>2, <1>3 DEF ClientTypeOK
<1> HIDE DEF r
<1>8. ClientTypeOK'
  <2>1. client' \in [up : BOOLEAN, pc : {"dequeue", "send", "recv", "gone"},
                     job : Requests \cup {None}]
    BY <1>1, <1>2 DEF ClientTypeOK
  <2>2. fromMaster' \in Seq(Requests)
    BY <1>5
  <2>3. UNCHANGED <<queues, toMaster, thread, master>>
    BY <1>1
  <2> QED  BY <1>2, <1>7, <2>1, <2>2, <2>3 DEF ClientTypeOK
<1>9. JobsAtHand' /\ OneUnderway'
  BY <1>1, <1>2, <1>4, <1>5, <1>6 DEF JobsAtHand, OneUnderway
<1>10. FailureIsTheMasters'
  BY <1>1, <1>2, <1>7 DEF FailureIsTheMasters
<1>11. \A h \in Kinds : InQueue(h)' = InQueue(h) /\ r \notin InQueue(h)
  <2> SUFFICES ASSUME NEW h \in Kinds PROVE InQueue(h)' = InQueue(h) /\ r \notin InQueue(h)
    OBVIOUS
  <2>1. InQueue(h)' = InQueue(h)
    BY <1>1 DEF InQueue
  <2>2. r \notin InQueue(h)
    BY <1>1, <1>2 DEF WaitingAreHeld, r
  <2> QED  BY <2>1, <2>2
<1>12. \A x : x \in Held <=> x = r \/ x \in Held'
  <2>1. \A x : x \in Held' <=> \E h \in Kinds : x \in InQueue(h)'
    BY <1>6 DEF Held
  <2> QED  BY <1>3, <1>11, <2>1, WhatIsHeld DEF r
<1>13. r \notin Held'
  BY <1>6, <1>11 DEF Held
<1>14. Waiting' = Waiting \ {r}
  BY <1>7 DEF Waiting
<1>15. Waiting' = Held'
  BY <1>1, <1>2, <1>12, <1>13, <1>14 DEF WaitingAreHeld
<1>16. \A h \in Kinds : InOrder(queues'[h], h) /\ client'.job \notin InQueue(h)'
  <2> SUFFICES ASSUME NEW h \in Kinds
               PROVE  InOrder(queues'[h], h) /\ client'.job \notin InQueue(h)'
    OBVIOUS
  <2>1. InOrder(queues'[h], h)
    BY <1>1, <1>2 DEF WaitingAreHeld
  <2>2. InQueue(h) \subseteq Held
    BY WhatIsHeld
  <2>3. None \notin Waiting
    BY ClientConstants DEF Waiting, ClientConstants
  <2> QED  BY <1>1, <1>2, <1>6, <1>11, <2>1, <2>2, <2>3 DEF WaitingAreHeld
<1> QED  BY <1>8, <1>9, <1>10, <1>15, <1>16 DEF Inductive, WaitingAreHeld, InOrder

(* The worker leaves: all that waited are told so.                         *)
LEMMA WorkerLeaves ==
  ASSUME Inductive, RecvFailed
  PROVE  Inductive'
<1>1. /\ client.up /\ client.pc = "recv" /\ fromMaster = <<>> /\ ~master.up
      /\ Leave([promise EXCEPT ![client.job] = "exception"])
      /\ UNCHANGED <<toMaster, fromMaster, thread, master>>
  BY DEF RecvFailed, At
<1>2. ClientTypeOK /\ JobsAtHand
  BY DEF Inductive
<1> DEFINE p == [promise EXCEPT ![client.job] = "exception"]
<1>3. p \in [Requests -> {"none", "pending", "value", "exception", "broken"}]
  BY <1>2 DEF ClientTypeOK
<1>4. /\ promise' = [r \in Requests |-> IF p[r] = "pending" THEN "broken" ELSE p[r]]
      /\ queues' = [k \in Kinds |-> <<>>]
      /\ client' = [client EXCEPT !.pc = "gone", !.job = None]
  BY <1>1 DEF Leave
<1> HIDE DEF p
<1>5. /\ promise' \in [Requests -> {"none", "pending", "value", "exception", "broken"}]
      /\ \A r \in Requests : promise'[r] # "pending"
  BY <1>3, <1>4
<1>6. client'.up /\ client'.pc = "gone" /\ client'.job = None
  BY <1>1, <1>2, <1>4 DEF ClientTypeOK
<1>7. ClientTypeOK' /\ JobsAtHand' /\ OneUnderway' /\ FailureIsTheMasters'
  BY <1>1, <1>2, <1>4, <1>5, <1>6
     DEF ClientTypeOK, JobsAtHand, OneUnderway, FailureIsTheMasters
<1>8. \A k \in Kinds : queues'[k] = <<>> /\ InQueue(k)' = {}
  BY <1>4 DEF InQueue
<1>9. Held' = {} /\ Waiting' = {}
  BY <1>5, <1>6, <1>8 DEF Held, Waiting
<1>10. WaitingAreHeld'
  BY <1>8, <1>9 DEF WaitingAreHeld, InOrder
<1> QED  BY <1>7, <1>10 DEF Inductive

(* What moves no question: the worker's send and its end, the thread of    *)
(* the master, and the end of a process.                                   *)
LEMMA NothingMoved ==
  ASSUME Inductive,
         \/ WorkerSend \/ Exit \/ ThreadCheck \/ ThreadRecv
         \/ ThreadAnswer(ClientHeard) \/ ThreadFails(ClientHeard)
         \/ /\ UNCHANGED <<queues, promise, toMaster, fromMaster, thread>>
            /\ master' = master \/ master' = [master EXCEPT !.up = FALSE]
                                \/ master' = [master EXCEPT !.running = FALSE]
            /\ client' = client \/ client' = [client EXCEPT !.up = FALSE]
  PROVE  Inductive'
<1>1. /\ ClientTypeOK /\ JobsAtHand /\ OneUnderway /\ WaitingAreHeld /\ FailureIsTheMasters
      /\ queues' = queues /\ promise' = promise
  BY DEF Inductive, WorkerSend, Exit, ThreadCheck, ThreadRecv, ThreadAnswer, ThreadFails
<1>2. CASE WorkerSend
  <2>1. client.job # None /\ client.job \in Requests
    BY <1>1, <1>2 DEF ClientTypeOK, JobsAtHand, WorkerSend, At
  <2>2. CASE master.up
    <3>1. /\ toMaster = <<>> /\ fromMaster = <<>> /\ thread.job = None
      BY <1>1, <1>2, <2>2 DEF OneUnderway, WorkerSend, At
    <3>2. toMaster' = <<client.job>>
      BY <1>2, <2>1, <2>2, <3>1 DEF WorkerSend
    <3>3. /\ client' = [client EXCEPT !.pc = "recv"] /\ client.pc = "send"
          /\ UNCHANGED <<fromMaster, thread, master>>
      BY <1>2, <2>2 DEF WorkerSend, At
    <3>4. client'.pc = "recv" /\ client'.job = client.job /\ client'.up = client.up
      BY <1>1, <3>3 DEF ClientTypeOK
    <3>5. ClientTypeOK'
      BY <1>1, <2>1, <3>2, <3>3 DEF ClientTypeOK
    <3> QED
      BY <1>1, <2>1, <3>1, <3>2, <3>3, <3>4, <3>5, QuestionsKept
         DEF Inductive, JobsAtHand, OneUnderway, FailureIsTheMasters
  <2>3. CASE ~master.up
    <3>1. /\ client' = [client EXCEPT !.up = FALSE]
          /\ UNCHANGED <<toMaster, fromMaster, thread, master>>
      BY <1>2, <2>3 DEF WorkerSend
    <3>2. client'.up = FALSE /\ client'.pc = client.pc /\ client'.job = client.job
      BY <1>1, <3>1 DEF ClientTypeOK
    <3> QED
      BY <1>1, <3>1, <3>2, QuestionsKept
         DEF Inductive, ClientTypeOK, JobsAtHand, OneUnderway, FailureIsTheMasters
  <2> QED  BY <2>2, <2>3
<1>3. CASE Exit \/ ThreadCheck
  <2>1. /\ UNCHANGED <<toMaster, fromMaster, master, queues, promise>>
        /\ thread'.job = thread.job /\ (thread'.pc = "work" <=> thread.pc = "work")
        /\ client'.job = client.job /\ client'.pc = client.pc /\ (client'.up => client.up)
        /\ ClientTypeOK'
    <3>1. CASE Exit
      BY <1>1, <3>1 DEF ClientTypeOK, Exit
    <3>2. CASE ThreadCheck
      <4>1. /\ thread.pc = "check"
            /\ thread' = [thread EXCEPT !.pc = "recv"] \/ thread' = [thread EXCEPT !.pc = "ended"]
            /\ UNCHANGED <<queues, promise, client, toMaster, fromMaster, master>>
        BY <3>2 DEF ThreadCheck, ThreadAt
      <4> QED  BY <1>1, <4>1 DEF ClientTypeOK
    <3> QED  BY <1>3, <3>1, <3>2
  <2> QED
    BY <1>1, <2>1, QuestionsKept
       DEF Inductive, JobsAtHand, OneUnderway, FailureIsTheMasters
<1>4. CASE ThreadRecv
  <2>1. /\ master.up /\ thread.pc = "recv" /\ toMaster # <<>>
        /\ toMaster' = Tail(toMaster)
        /\ thread' = [pc |-> "work", job |-> Head(toMaster)]
        /\ UNCHANGED <<client, fromMaster, master>>
    BY <1>4 DEF ThreadRecv, ThreadAt
  <2>2. Head(toMaster) \in Requests /\ toMaster' \in Seq(Requests) /\ Head(toMaster) # None
    BY <1>1, <2>1, HeadTailProperties, ClientConstants DEF ClientTypeOK, ClientConstants
  <2>3. ClientTypeOK' /\ JobsAtHand'
    BY <1>1, <2>1, <2>2 DEF ClientTypeOK, JobsAtHand
  <2>4. OneUnderway'
    <3> SUFFICES ASSUME client.up PROVE OneUnderway'
      BY <2>1 DEF OneUnderway
    <3>1. toMaster = <<client.job>> /\ fromMaster = <<>> /\ client.pc = "recv"
      BY <1>1, <2>1 DEF OneUnderway
    <3>2. toMaster' = <<>> /\ thread'.job = client.job
      BY <2>1, <3>1
    <3> QED  BY <2>1, <3>1, <3>2 DEF OneUnderway
  <2> QED
    BY <1>1, <2>1, <2>3, <2>4, QuestionsKept DEF Inductive, FailureIsTheMasters
<1>5. CASE ThreadAnswer(ClientHeard)
  <2>1. /\ master.up /\ thread.pc = "work"
        /\ thread' = [pc |-> "check", job |-> None]
        /\ UNCHANGED <<client, toMaster>>
    BY <1>5 DEF ThreadAnswer, ThreadAt
  <2>2. thread.job \in Requests /\ thread.job # None
    BY <1>1, <2>1 DEF ClientTypeOK, JobsAtHand
  <2>3. CASE ClientHeard
    <3>1. fromMaster' = Append(fromMaster, thread.job) /\ master' = master
      BY <1>5, <2>3 DEF ThreadAnswer
    <3>2. ClientTypeOK' /\ JobsAtHand'
      BY <1>1, <2>1, <2>2, <3>1 DEF ClientTypeOK, JobsAtHand
    <3>3. OneUnderway'
      <4> SUFFICES ASSUME client.up PROVE OneUnderway'
        BY <2>1 DEF OneUnderway
      <4>1. thread.job = client.job /\ fromMaster = <<>> /\ toMaster = <<>> /\ client.pc = "recv"
        BY <1>1, <2>1, <2>2 DEF OneUnderway
      <4>2. fromMaster' = <<client.job>>
        BY <3>1, <4>1
      <4> QED  BY <2>1, <3>1, <4>1, <4>2 DEF OneUnderway
    <3> QED
      BY <1>1, <2>1, <3>1, <3>2, <3>3, QuestionsKept DEF Inductive, FailureIsTheMasters
  <2>4. CASE ~ClientHeard
    <3>1. fromMaster' = fromMaster /\ master' = [master EXCEPT !.up = FALSE]
      BY <1>5, <2>4 DEF ThreadAnswer
    <3>2. ClientTypeOK' /\ JobsAtHand'
      BY <1>1, <2>1, <3>1 DEF ClientTypeOK, JobsAtHand
    <3>3. ~client'.up /\ ~master'.up
      BY <1>1, <2>1, <2>4, <3>1 DEF ClientHeard, ClientTypeOK
    <3> QED
      BY <1>1, <3>2, <3>3, QuestionsKept DEF Inductive, OneUnderway, FailureIsTheMasters
  <2> QED  BY <2>3, <2>4
<1>6. CASE ThreadFails(ClientHeard)
  <2>1. /\ thread' = [pc |-> "ended", job |-> None]
        /\ master' = [master EXCEPT !.running = FALSE]
        /\ UNCHANGED <<client, toMaster, fromMaster>>
    BY <1>6 DEF ThreadFails
  <2>2. master'.up = master.up
    BY <1>1, <2>1 DEF ClientTypeOK
  <2>3. ClientTypeOK' /\ JobsAtHand'
    BY <1>1, <2>1 DEF ClientTypeOK, JobsAtHand
  <2>4. OneUnderway'
    BY <1>1, <2>1, <2>2 DEF OneUnderway
  <2> QED
    BY <1>1, <2>1, <2>2, <2>3, <2>4, QuestionsKept DEF Inductive, FailureIsTheMasters
<1>7. CASE /\ UNCHANGED <<queues, promise, toMaster, fromMaster, thread>>
           /\ master' = master \/ master' = [master EXCEPT !.up = FALSE]
                               \/ master' = [master EXCEPT !.running = FALSE]
           /\ client' = client \/ client' = [client EXCEPT !.up = FALSE]
  <2>1. /\ client'.job = client.job /\ client'.pc = client.pc /\ (client'.up => client.up)
        /\ (master'.up => master.up)
    BY <1>1, <1>7 DEF ClientTypeOK
  <2>2. ClientTypeOK'
    <3>1. master' \in [up : BOOLEAN, running : BOOLEAN]
      BY <1>1, <1>7 DEF ClientTypeOK
    <3>2. client' \in [up : BOOLEAN, pc : {"dequeue", "send", "recv", "gone"},
                       job : Requests \cup {None}]
      BY <1>1, <1>7 DEF ClientTypeOK
    <3> QED  BY <1>1, <1>7, <3>1, <3>2 DEF ClientTypeOK
  <2>3. OneUnderway'
    BY <1>1, <1>7, <2>1 DEF OneUnderway
  <2> QED
    BY <1>1, <1>7, <2>1, <2>2, <2>3, QuestionsKept
       DEF Inductive, JobsAtHand, FailureIsTheMasters
<1> QED  BY <1>2, <1>3, <1>4, <1>5, <1>6, <1>7

-----------------------------------------------------------------------------
LEMMA InductiveInit == Init => Inductive
<1> SUFFICES ASSUME Init PROVE Inductive
  OBVIOUS
<1>1. /\ queues = [k \in Kinds |-> <<>>] /\ promise = [r \in Requests |-> "none"]
      /\ client = [up |-> TRUE, pc |-> "dequeue", job |-> None]
      /\ toMaster = <<>> /\ fromMaster = <<>>
      /\ thread = [pc |-> "check", job |-> None]
      /\ master = [up |-> TRUE, running |-> TRUE]
  BY DEF Init, ClientInit
<1>2. ClientTypeOK /\ JobsAtHand /\ OneUnderway /\ FailureIsTheMasters
  BY <1>1 DEF ClientTypeOK, JobsAtHand, OneUnderway, FailureIsTheMasters
<1>3. \A k \in Kinds : queues[k] = <<>> /\ InQueue(k) = {}
  BY <1>1 DEF InQueue
<1>4. Held = {} /\ Waiting = {}
  BY <1>1, <1>3 DEF Held, Waiting
<1>5. WaitingAreHeld
  BY <1>3, <1>4 DEF WaitingAreHeld, InOrder
<1> QED  BY <1>2, <1>5 DEF Inductive

LEMMA InductiveNext == Inductive /\ [Next]_vars => Inductive'
<1> SUFFICES ASSUME Inductive, [Next]_vars PROVE Inductive'
  OBVIOUS
<1>1. ASSUME NEW r \in Requests, Ask(r), UNCHANGED adminVars PROVE Inductive'
  BY <1>1, QuestionAsked
<1>2. ASSUME NEW r \in Requests, Reply(r), UNCHANGED adminVars PROVE Inductive'
  <2>1. /\ promise[r] \notin {"none", "pending"} /\ promise' = [promise EXCEPT ![r] = "none"]
        /\ UNCHANGED <<queues, client, toMaster, fromMaster, thread, master>>
    BY <1>2 DEF Reply
  <2>2. ClientTypeOK /\ JobsAtHand /\ OneUnderway /\ WaitingAreHeld /\ FailureIsTheMasters
    BY DEF Inductive
  <2>3. ClientTypeOK' /\ JobsAtHand' /\ OneUnderway' /\ FailureIsTheMasters'
    BY <2>1, <2>2
       DEF ClientTypeOK, JobsAtHand, OneUnderway, FailureIsTheMasters
  <2>4. Waiting' = Waiting
    BY <2>1, <2>2 DEF Waiting, ClientTypeOK
  <2>5. Held' = Held /\ \A k \in Kinds : InQueue(k)' = InQueue(k)
    BY <2>1 DEF Held, InQueue
  <2>6. WaitingAreHeld'
    BY <2>1, <2>2, <2>4, <2>5 DEF WaitingAreHeld, InOrder
  <2> QED  BY <2>1, <2>2, <2>3, <2>6 DEF Inductive
<1>3. CASE Dequeue /\ UNCHANGED adminVars
  <2>1. FailureIsTheMasters'
    BY <1>3 DEF Inductive, FailureIsTheMasters, Dequeue
  <2> QED  BY <1>3, <2>1, QuestionTaken DEF Inductive
<1>4. CASE (WorkerRecv \/ RecvFailed) /\ UNCHANGED adminVars
  BY <1>4, QuestionAnswered, WorkerLeaves
<1>5. CASE (WorkerSend \/ Exit \/ ClientThread(ClientHeard)) /\ UNCHANGED adminVars
  BY <1>5, NothingMoved DEF ClientThread
<1>6. CASE AdminAsk \/ AdminTake \/ AdminRecvFailed \/ AdminStop \/ AdminThread \/ Return \/ Crash
           \/ UNCHANGED vars
  <2>1. /\ UNCHANGED <<queues, promise, toMaster, fromMaster, thread>>
        /\ master' = master \/ master' = [master EXCEPT !.up = FALSE]
                            \/ master' = [master EXCEPT !.running = FALSE]
        /\ client' = client \/ client' = [client EXCEPT !.up = FALSE]
    BY <1>6 DEF AdminAsk, AdminTake, AdminRecvFailed, AdminStop, AdminThread, Return, Crash, vars,
       AdminThreadCheck, AdminThreadRecv, AdminThreadAnswer, AdminThreadFails, AdminThreadEof,
       KillAll, clientVars, adminVars
  <2> QED  BY <2>1, NothingMoved
<1> QED
  BY <1>1, <1>2, <1>3, <1>4, <1>5, <1>6 DEF Next, ClientSide, ClientWorker

LEMMA SpecInductive == Spec => []Inductive
BY InductiveInit, InductiveNext, PTL DEF Spec

-----------------------------------------------------------------------------
(* ClientPipeline's type invariant, whoever else runs and dies.            *)
THEOREM ClientTypeCorrect == Spec => []ClientTypeOK
<1>1. Inductive => ClientTypeOK
  BY DEF Inductive
<1> QED  BY <1>1, SpecInductive, PTL

(* No visitor gets the answer to another's question: the stream carries    *)
(* one message at a time, about the worker's job.                          *)
THEOREM ClientStaysInStep == Spec => []ClientInStep
<1>1. Inductive => ClientInStep
  <2> SUFFICES ASSUME Inductive, client.up PROVE ClientInStep
    BY DEF ClientInStep
  <2>1. OneUnderway
    BY DEF Inductive
  <2>2. Len(fromMaster) <= 1 /\ \A i \in DOMAIN fromMaster : fromMaster[i] = client.job
    <3>1. CASE fromMaster = <<>>
      BY <3>1
    <3>2. CASE fromMaster = <<client.job>>
      BY <3>2
    <3> QED  BY <2>1, <3>1, <3>2 DEF OneUnderway
  <2>3. master.up => /\ \A i \in DOMAIN toMaster : toMaster[i] = client.job
                     /\ thread.job \in {None, client.job}
    <3> SUFFICES ASSUME master.up PROVE \A i \in DOMAIN toMaster : toMaster[i] = client.job
      BY <2>1 DEF OneUnderway
    <3>1. CASE toMaster = <<>>
      BY <3>1
    <3>2. CASE toMaster = <<client.job>>
      BY <3>2
    <3> QED  BY <2>1, <3>1, <3>2 DEF OneUnderway
  <2>4. client.pc = "dequeue" => fromMaster = <<>>
    BY <2>1 DEF OneUnderway
  <2> QED  BY <2>2, <2>3, <2>4 DEF ClientInStep
<1> QED  BY <1>1, SpecInductive, PTL

(* While the server is open, the questions that wait are those in the four *)
(* queues and the worker's, each in one place: none is lost or served      *)
(* twice.                                                                  *)
THEOREM QuestionsStayHeld == Spec => []QuestionsAreHeld
<1>1. Inductive => QuestionsAreHeld
  <2> SUFFICES ASSUME Inductive, client.up PROVE QuestionsAreHeld
    BY DEF QuestionsAreHeld
  <2>1. /\ Waiting = Held /\ \A k \in Kinds : client.job \notin InQueue(k)
        /\ \A k \in Kinds : queues[k] \in Seq(Requests) /\ InOrder(queues[k], k)
    BY DEF Inductive, WaitingAreHeld, ClientTypeOK
  <2>2. ASSUME NEW k \in Kinds PROVE Cardinality(InQueue(k)) = Len(queues[k])
    BY <2>1, QueueCounts, QueueRange
  <2> QED  BY <2>1, <2>2 DEF QuestionsAreHeld, Waiting
<1> QED  BY <1>1, SpecInductive, PTL

(* A visitor is told of a failure of the service only when the master is   *)
(* gone.                                                                   *)
THEOREM OnlyTheMasterFails == Spec => []FailureIsTheMasters
<1>1. Inductive => FailureIsTheMasters
  BY DEF Inductive
<1> QED  BY <1>1, SpecInductive, PTL
===============================================================================
