------------------------ MODULE AdminPipeline_proofs ------------------------
(* Proofs about AdminPipeline, for any set of connections and pollers, and  *)
(* about UploadPage, for any list of files and any other browsers: the     *)
(* page takes the server through steps of the server's own.                *)
EXTENDS UploadPage, SequenceTheorems, FiniteSetTheorems, TLAPS

(* The worker has a job unless it waits for one, the kind of the job says  *)
(* where it may be, and the master has a result for the job it trains.     *)
JobAtHand ==
  /\ worker.job = None <=> worker.pc \in {"dequeue", "gone"}
  /\ worker.pc \in {"memory", "result"} => KindOf[worker.job] = "learn"
  /\ worker.pc \in {"start", "finish"} => KindOf[worker.job] \in {"learn", "uml"}
  /\ worker.job # None => (worker.pc = "stop" <=> KindOf[worker.job] = "stop")
  /\ master.job # None => outcome[master.job] # "none"

(* The worker has left if and only if the server is gone.                  *)
OpenAtWork == admin.stopped <=> worker.pc = "gone"

(* The worker waits for the master, or will when it has published that a   *)
(* training began.                                                         *)
InTransit == \/ worker.pc = "recv"
             \/ worker.pc = "start" /\ KindOf[worker.job] = "learn"

(* Where the messages of the worker's job may be: the request underway, or *)
(* in the master's hands, or answered, with the last message last.         *)
Stream ==
  /\ \A i \in DOMAIN fromMaster :
       /\ fromMaster[i].for = worker.job
       /\ fromMaster[i].cmd = "done" =>
            /\ i = Len(fromMaster) /\ master.job = None
            /\ fromMaster[i].result = outcome[worker.job]
  /\ ~InTransit => fromMaster = <<>>
  /\ master.up =>
       /\ Len(toMaster) <= 1
       /\ \A i \in DOMAIN toMaster : toMaster[i] = worker.job
       /\ ~InTransit => toMaster = <<>> /\ master.job = None
       /\ toMaster # <<>> => master.job = None /\ fromMaster = <<>>
       /\ master.job \in {None, worker.job}

(* A job in the worker's hands is not answered yet, and a result there is  *)
(* the master's, who has done with it.                                     *)
ResultAtHand ==
  /\ worker.pc \notin {"dequeue", "stop", "gone"} => promise[worker.job] = "pending"
  /\ worker.pc \in {"memory", "result", "finish", "fulfil"} /\ worker.result # "failed" =>
       /\ worker.result = outcome[worker.job]
       /\ master.job # worker.job

(* What future.get() leads to is a short sequence of responses.            *)
LEMMA AnswerType ==
  ASSUME TypeOK, NEW r \in Requests, promise[r] \notin {"none", "pending"}
  PROVE  AnswerOf(r) \in Seq(Responses)
<1>1. Thrown(r) \/ promise[r] \in Responses
  BY DEF TypeOK, Responses, Thrown
<1>2. {"default", "error"} \subseteq Responses
  BY DEF Responses
<1>3. \A x \in Responses : <<x>> \in Seq(Responses)
  OBVIOUS
<1>4. \/ AnswerOf(r) = <<>>
      \/ \E x \in Responses : AnswerOf(r) = <<x>>
  BY <1>1, <1>2 DEF AnswerOf
<1>5. <<>> \in Seq(Responses)
  OBVIOUS
<1> QED
  BY <1>3, <1>4, <1>5, Zenon

Promises == {"none", "pending", "value", "duplicate", "exception", "broken"}

(* Leaving the server leaves nobody waiting and nothing to do.             *)
LEMMA LeaveTypes ==
  ASSUME TypeOK, NEW p \in [Requests -> Promises], Leave(p)
  PROVE  /\ jobs' = <<>> /\ worker' = [Idle EXCEPT !.pc = "gone"] /\ worker' \in WorkerStates
         /\ jobs' \in Seq(Requests) /\ admin' \in [up : BOOLEAN, stopped : BOOLEAN]
         /\ admin'.stopped /\ admin'.up = admin.up
         /\ promise' \in [Requests -> Promises]
         /\ promise' \in [Requests -> {"none", "pending", "value", "duplicate", "exception", "broken"}]
         /\ \A r \in Requests : promise'[r] = IF p[r] = "pending" THEN "broken" ELSE p[r]
<1>1. admin \in [up : BOOLEAN, stopped : BOOLEAN] /\ <<>> \in Seq(Requests) /\ "OK" \in Results
  BY DEF TypeOK, Results, UploadResults
<1>2. \A r \in Requests : (IF p[r] = "pending" THEN "broken" ELSE p[r]) \in Promises
  BY DEF Promises
<1> QED BY <1>1, <1>2 DEF Leave, Idle, WorkerStates, Promises

(* Every step keeps the types.                                             *)
LEMMA NextTypes == TypeOK /\ JobAtHand /\ [Next]_vars => TypeOK'
<1> SUFFICES ASSUME TypeOK, JobAtHand, [Next]_vars PROVE TypeOK'
  OBVIOUS
<1> USE DEF socket, published
<1>0. {"OK", "failed"} \subseteq Results /\ UploadResults \subseteq Results /\ UmlResults \subseteq Results
  BY DEF Results, UploadResults, UmlResults
<1>1. ASSUME NEW r \in Requests, Enqueue(r) PROVE TypeOK'
  <2>1. ThreadsOf(r) \in SUBSET {"main", "waiter"}
    BY DEF ThreadsOf
  <2>2. Append(jobs, r) \in Seq(Requests)
    BY DEF TypeOK
  <2>3. jobs' \in Seq(Requests)
    BY <1>1, <2>2 DEF Enqueue, TypeOK
  <2>4. PICK v \in {"pending", "broken"} : promise' = [promise EXCEPT ![r] = v]
    BY <1>1 DEF Enqueue
  <2> QED BY <1>1, <2>1, <2>3, <2>4 DEF Enqueue, TypeOK
<1>2. ASSUME NEW r \in Requests, WriteAccepted(r) PROVE TypeOK'
  BY <1>2 DEF WriteAccepted, Write, TypeOK, Responses
<1>3. ASSUME NEW r \in Requests, WriteAnswer(r) PROVE TypeOK'
  <2>1. AnswerOf(r) \in Seq(Responses)
    BY <1>3, AnswerType DEF WriteAnswer
  <2>2. replies[r] \o AnswerOf(r) \in Seq(Responses)
    BY <2>1, ConcatProperties DEF TypeOK
  <2> QED BY <1>3, <2>2 DEF WriteAnswer, TypeOK
<1>4. ASSUME NEW r \in Requests, TableTimeout(r) PROVE TypeOK'
  BY <1>4 DEF TableTimeout, Write, TypeOK, Responses
<1>5. ASSUME NEW p \in Pollers, PollLock(p) PROVE TypeOK'
  <2> DEFINE read == [at |-> "locked", training |-> training,
                      memory |-> IF training THEN None ELSE memory, result |-> "OK"]
  <2>1. (IF training THEN None ELSE memory) \in Requests \cup {None}
    BY DEF TypeOK
  <2>2. read \in PollStates
    BY <1>0, <2>1, Zenon DEF TypeOK, PollStates
  <2>3. polling' = [polling EXCEPT ![p] = read]
    BY <1>5 DEF PollLock
  <2> HIDE DEF read
  <2> QED BY <1>5, <2>2, <2>3 DEF PollLock, TypeOK
<1>6. ASSUME NEW p \in Pollers, PollReply(p) PROVE TypeOK'
  <2>1. polling' = [polling EXCEPT ![p].at = "replied", ![p].result = fileResult]
    BY <1>6 DEF PollReply
  <2>2. "OK" \in Results /\ fileResult \in Results
    BY <1>0 DEF TypeOK
  <2> DEFINE told == [polling[p] EXCEPT !.at = "replied", !.result = fileResult]
  <2>3. polling[p] \in PollStates
    BY DEF TypeOK
  <2>4. told \in PollStates
    BY <2>2, <2>3 DEF PollStates
  <2>5. polling' = [polling EXCEPT ![p] = told]
    BY <2>1
  <2> HIDE DEF told
  <2>6. polling' \in [Pollers -> PollStates]
    BY <2>4, <2>5 DEF TypeOK
  <2> QED BY <1>6, <2>2, <2>6 DEF PollReply, TypeOK
<1>7. CASE Dequeue
  <2>1. Head(jobs) \in Requests /\ Tail(jobs) \in Seq(Requests)
    BY <1>7 DEF Dequeue, TypeOK
  <2>2. FirstStep(Head(jobs)) \in {"start", "stop", "send"}
    BY DEF FirstStep
  <2> QED BY <1>7, <2>1, <2>2 DEF Dequeue, TypeOK, WorkerStates
<1>8. CASE SetMemoryUsage \/ SetLastFileResult \/ SetTrainingDone \/ SetTrainingStarted
  <2>1. CASE SetMemoryUsage
    BY <2>1 DEF SetMemoryUsage, Goto, At, TypeOK, WorkerStates
  <2>2. CASE SetLastFileResult
    BY <2>2 DEF SetLastFileResult, Goto, At, TypeOK, WorkerStates
  <2>3. CASE SetTrainingDone
    BY <2>3 DEF SetTrainingDone, Goto, At, TypeOK, WorkerStates
  <2>4. CASE SetTrainingStarted
    BY <2>4 DEF SetTrainingStarted, Goto, At, TypeOK, WorkerStates
  <2> QED BY <1>8, <2>1, <2>2, <2>3, <2>4
<1>9. CASE RecvProgress
  BY <1>9, HeadTailProperties DEF RecvProgress, TypeOK
<1>10. CASE RecvDone
  <2>1. Head(fromMaster) \in Messages /\ Tail(fromMaster) \in Seq(Messages)
    BY <1>10 DEF RecvDone, TypeOK
  <2> DEFINE pc == CASE KindOf[worker.job] = "learn" -> "memory"
                     [] KindOf[worker.job] = "uml"   -> "finish"
                     [] OTHER                        -> "fulfil"
  <2>2. pc \in {"memory", "finish", "fulfil"}
    OBVIOUS
  <2>3. worker' = [worker EXCEPT !.pc = pc, !.result = Head(fromMaster).result]
    BY <1>10 DEF RecvDone
  <2>4. Head(fromMaster).result \in Results
    BY <2>1 DEF Messages
  <2> HIDE DEF pc
  <2> QED BY <1>10, <2>1, <2>2, <2>3, <2>4 DEF RecvDone, TypeOK, WorkerStates
<1>11. CASE Fulfil
  BY <1>0, <1>11 DEF Fulfil, Idle, TypeOK, WorkerStates
<1>12. CASE RecvFailed
  <2>1. CASE KindOf[worker.job] \in {"types", "table"}
    <3>1. Leave(promise) /\ UNCHANGED <<threads, replies, socket, master, outcome, published, polling>>
      BY <1>12, <2>1 DEF RecvFailed
    <3>2. promise \in [Requests -> Promises]
      BY DEF TypeOK, Promises
    <3>3. /\ jobs' \in Seq(Requests) /\ worker' \in WorkerStates
          /\ admin' \in [up : BOOLEAN, stopped : BOOLEAN]
          /\ promise' \in [Requests -> {"none", "pending", "value", "duplicate", "exception", "broken"}]
      BY <3>1, <3>2, LeaveTypes
    <3> QED BY <3>1, <3>3 DEF TypeOK
  <2>2. CASE KindOf[worker.job] \notin {"types", "table"}
    BY <1>0, <1>12, <2>2 DEF RecvFailed, TypeOK, WorkerStates
  <2> QED BY <2>1, <2>2
<1>13. CASE Shutdown
  <2>1. [promise EXCEPT ![worker.job] = "value"] \in [Requests -> Promises]
    BY DEF TypeOK, Promises
  <2> QED BY <1>0, <1>13, <2>1, LeaveTypes DEF Shutdown, TypeOK
<1>21. CASE Exit
  BY <1>21 DEF Exit, TypeOK
<1>14. CASE WorkerSend
  <2>1. worker.job \in Requests
    BY <1>14 DEF WorkerSend, At, TypeOK, WorkerStates, JobAtHand
  <2>2. CASE master.up
    <3>1. Append(toMaster, worker.job) \in Seq(Requests)
      BY <2>1 DEF TypeOK
    <3>2. worker' \in WorkerStates
      BY <1>14, <2>2 DEF WorkerSend, Goto, TypeOK, WorkerStates
    <3> QED BY <1>14, <2>2, <3>1, <3>2 DEF WorkerSend, TypeOK
  <2>3. CASE ~master.up
    BY <1>14, <2>3 DEF WorkerSend, TypeOK
  <2> QED BY <2>2, <2>3
<1>15. ASSUME NEW result \in UploadResults, MasterTrain(result) PROVE TypeOK'
  <2>1. Head(toMaster) \in Requests /\ Tail(toMaster) \in Seq(Requests)
    BY <1>15 DEF MasterTrain, TypeOK
  <2>2. (IF result = "DUPLICATE" THEN 0 ELSE Epochs) \in 0..Epochs
    BY PipelineConstants DEF PipelineConstants
  <2> QED BY <1>0, <1>15, <2>1, <2>2 DEF MasterTrain, TypeOK, MasterStates
<1>16. CASE MasterEpoch
  <2>1. Progress(master.job) \in Messages
    BY <1>0, <1>16 DEF MasterEpoch, Progress, TypeOK, Messages, MasterStates
  <2>2. master.left - 1 \in 0..Epochs
    BY <1>16, PipelineConstants DEF PipelineConstants, MasterEpoch, TypeOK, MasterStates
  <2>3. Append(fromMaster, Progress(master.job)) \in Seq(Messages)
    BY <2>1 DEF TypeOK
  <2> QED BY <1>16, <2>2, <2>3 DEF MasterEpoch, TypeOK, MasterStates
<1>17. CASE MasterTrained
  <2>1. Done(master.job, outcome[master.job]) \in Messages
    BY <1>17 DEF MasterTrained, Done, TypeOK, JobAtHand, Messages, MasterStates
  <2>2. Append(fromMaster, Done(master.job, outcome[master.job])) \in Seq(Messages)
    BY <2>1 DEF TypeOK
  <2> QED BY <1>17, <2>2 DEF MasterTrained, TypeOK, MasterStates
<1>18. ASSUME NEW result \in UmlResults \cup {"OK"}, MasterAnswer(result) PROVE TypeOK'
  <2>1. Head(toMaster) \in Requests /\ Tail(toMaster) \in Seq(Requests)
    BY <1>18 DEF MasterAnswer, TypeOK
  <2>2. Append(fromMaster, Done(Head(toMaster), result)) \in Seq(Messages)
    BY <1>0, <2>1 DEF TypeOK, Done, Messages
  <2> QED BY <1>0, <1>18, <2>1, <2>2 DEF MasterAnswer, TypeOK
<1>19. CASE MasterDies
  BY <1>19 DEF MasterDies, TypeOK, MasterStates
<1>22. CASE MasterThrows
  <2>1. toMaster' \in Seq(Requests)
    <3>1. CASE UNCHANGED toMaster
      BY <3>1 DEF TypeOK
    <3>2. CASE toMaster # <<>> /\ toMaster' = Tail(toMaster)
      BY <3>2, HeadTailProperties DEF TypeOK
    <3> QED BY <1>22, <3>1, <3>2 DEF MasterThrows
  <2>2. master' \in MasterStates
    BY <1>22 DEF MasterThrows, TypeOK, MasterStates
  <2> QED BY <1>22, <2>1, <2>2 DEF MasterThrows, TypeOK
<1>20. CASE UNCHANGED vars
  BY <1>20 DEF vars, TypeOK
<1> QED
  BY <1>1, <1>2, <1>3, <1>4, <1>5, <1>6, <1>7, <1>8, <1>9, <1>10, <1>11, <1>12, <1>13, <1>14,
     <1>15, <1>16, <1>17, <1>18, <1>19, <1>20, <1>21, <1>22 DEF Next, Handler, Poll, Worker, Master

(* Every step keeps the worker and its job in agreement.                   *)
LEMMA NextJobAtHand == TypeOK /\ JobAtHand /\ [Next]_vars => JobAtHand'
<1> SUFFICES ASSUME TypeOK, JobAtHand, [Next]_vars PROVE JobAtHand'
  OBVIOUS
<1> USE DEF JobAtHand
<1>0. worker \in WorkerStates /\ master \in MasterStates
  BY DEF TypeOK
<1>1. CASE UNCHANGED <<worker, outcome>> /\ master'.job = master.job
  BY <1>1
<1>2. CASE Dequeue
  <2>1. Head(jobs) \in Requests
    BY <1>2 DEF Dequeue, TypeOK
  <2>2. KindOf[Head(jobs)] \in Kinds /\ Head(jobs) # None
    BY <2>1, PipelineConstants DEF PipelineConstants
  <2> QED BY <1>0, <1>2, <2>2 DEF Dequeue, FirstStep, Kinds, WorkerStates
<1>3. CASE \/ SetTrainingStarted \/ SetMemoryUsage \/ SetLastFileResult \/ SetTrainingDone
           \/ RecvDone \/ RecvFailed
  BY <1>0, <1>3 DEF Leave, Idle, SetTrainingStarted, SetMemoryUsage, SetLastFileResult, SetTrainingDone,
                    RecvDone, RecvFailed, Goto, At, WorkerStates
<1>4. CASE WorkerSend
  BY <1>0, <1>4 DEF WorkerSend, Goto, At, WorkerStates
<1>5. CASE Fulfil
  BY <1>0, <1>5 DEF Fulfil, Idle, WorkerStates
<1>6. ASSUME NEW result \in UploadResults, MasterTrain(result) PROVE JobAtHand'
  <2>1. Head(toMaster) \in Requests
    BY <1>6 DEF MasterTrain, TypeOK
  <2>2. outcome'[Head(toMaster)] # "none"
    BY <1>6, <2>1 DEF MasterTrain, TypeOK, UploadResults
  <2> QED BY <1>0, <1>6, <2>2 DEF MasterTrain, MasterStates
<1>7. ASSUME NEW result \in UmlResults \cup {"OK"}, MasterAnswer(result) PROVE JobAtHand'
  BY <1>7 DEF MasterAnswer
<1>8. CASE MasterTrained \/ MasterThrows
  BY <1>0, <1>8 DEF MasterTrained, MasterThrows, MasterStates
<1>12. CASE Shutdown
  BY <1>0, <1>12 DEF Shutdown, Leave, Idle
<1>9. CASE Exit \/ RecvProgress \/ MasterEpoch \/ MasterDies \/ UNCHANGED vars
  BY <1>0, <1>1, <1>9 DEF Exit, RecvProgress, MasterEpoch, MasterDies, vars, MasterStates
<1>10. ASSUME NEW r \in Requests, Enqueue(r) \/ Handler(r) \/ TableTimeout(r) PROVE JobAtHand'
  BY <1>1, <1>10 DEF Enqueue, Handler, WriteAccepted, WriteAnswer, TableTimeout
<1>11. ASSUME NEW p \in Pollers, Poll(p) PROVE JobAtHand'
  BY <1>1, <1>11 DEF Poll, PollLock, PollReply
<1> QED
  BY <1>2, <1>3, <1>4, <1>5, <1>6, <1>7, <1>8, <1>9, <1>10, <1>11, <1>12 DEF Next, Worker, Master

(* Every step keeps the worker and its server together.                    *)
LEMMA NextOpenAtWork == TypeOK /\ OpenAtWork /\ [Next]_vars => OpenAtWork'
<1> SUFFICES ASSUME TypeOK, OpenAtWork, [Next]_vars PROVE OpenAtWork'
  OBVIOUS
<1> USE DEF OpenAtWork
<1>0. worker \in WorkerStates /\ admin \in [up : BOOLEAN, stopped : BOOLEAN]
  BY DEF TypeOK
<1>1. CASE UNCHANGED admin.stopped /\ UNCHANGED worker
  BY <1>1
<1>2. CASE \/ Dequeue \/ WorkerSend \/ SetTrainingStarted \/ SetMemoryUsage \/ SetLastFileResult
           \/ SetTrainingDone \/ RecvDone \/ Fulfil
  <2>1. worker.pc # "gone" /\ admin'.stopped = admin.stopped
    BY <1>0, <1>2 DEF Dequeue, WorkerSend, SetTrainingStarted, SetMemoryUsage,
       SetLastFileResult, SetTrainingDone, RecvDone, Fulfil, At
  <2>2. CASE Dequeue
    <3>1. FirstStep(Head(jobs)) # "gone"
      BY DEF FirstStep
    <3> QED BY <1>0, <2>1, <2>2, <3>1 DEF Dequeue, WorkerStates
  <2>3. CASE WorkerSend
    BY <1>0, <2>1, <2>3 DEF WorkerSend, Goto, WorkerStates
  <2>4. CASE SetTrainingStarted \/ SetMemoryUsage \/ SetLastFileResult \/ SetTrainingDone
    BY <1>0, <2>1, <2>4 DEF SetTrainingStarted, SetMemoryUsage, SetLastFileResult,
       SetTrainingDone, Goto, WorkerStates
  <2>5. CASE RecvDone
    <3>1. worker'.pc \in {"memory", "finish", "fulfil"}
      BY <1>0, <2>5 DEF RecvDone, WorkerStates
    <3> QED BY <2>1, <3>1
  <2>6. CASE Fulfil
    BY <2>1, <2>6 DEF Fulfil, Idle
  <2> QED BY <1>2, <2>2, <2>3, <2>4, <2>5, <2>6
<1>3. CASE Shutdown \/ RecvFailed
  <2>1. CASE \E p : Leave(p)
    BY <1>0, <2>1 DEF Leave, Idle
  <2>2. CASE UNCHANGED admin /\ worker.pc = "recv" /\ worker'.pc \in {"finish", "fulfil"}
    BY <2>2
  <2>3. CASE Shutdown
    BY <2>1, <2>3 DEF Shutdown
  <2>4. CASE RecvFailed
    BY <1>0, <2>1, <2>2, <2>4 DEF RecvFailed, At, WorkerStates
  <2> QED BY <1>3, <2>3, <2>4
<1>4. CASE RecvProgress \/ Exit \/ Master \/ MasterThrows \/ MasterDies \/ UNCHANGED vars
  BY <1>0, <1>1, <1>4 DEF RecvProgress, Exit, Master, MasterTrain, MasterEpoch, MasterTrained,
     MasterAnswer, MasterThrows, MasterDies, vars
<1>5. ASSUME NEW r \in Requests, Enqueue(r) \/ Handler(r) \/ TableTimeout(r) PROVE OpenAtWork'
  BY <1>1, <1>5 DEF Enqueue, Handler, WriteAccepted, WriteAnswer, TableTimeout
<1>6. ASSUME NEW p \in Pollers, Poll(p) PROVE OpenAtWork'
  BY <1>1, <1>6 DEF Poll, PollLock, PollReply
<1> QED
  BY <1>2, <1>3, <1>4, <1>5, <1>6 DEF Next, Worker

(* The elements of a queue that one is added to, or taken from.            *)
LEMMA QueueAppend ==
  ASSUME NEW S, NEW q \in Seq(S), NEW e \in S
  PROVE  /\ {Append(q, e)[i] : i \in DOMAIN Append(q, e)} = {q[i] : i \in DOMAIN q} \cup {e}
         /\ (\A i, j \in DOMAIN q : q[i] = q[j] => i = j) /\ (\A i \in DOMAIN q : q[i] # e)
              => \A i, j \in DOMAIN Append(q, e) : Append(q, e)[i] = Append(q, e)[j] => i = j
<1> DEFINE a == Append(q, e)
<1>1. /\ DOMAIN q = 1..Len(q) /\ DOMAIN a = 1..(Len(q) + 1) /\ Len(q) \in Nat
      /\ \A i \in 1..Len(q) : a[i] = q[i]
      /\ a[Len(q) + 1] = e
  BY AppendProperties, LenProperties
<1> HIDE DEF a
<1>2. {a[i] : i \in DOMAIN a} = {q[i] : i \in DOMAIN q} \cup {e}
  <2>1. \A i \in DOMAIN a : i \in DOMAIN q \/ i = Len(q) + 1
    BY <1>1
  <2>2. \A i \in DOMAIN q : i \in DOMAIN a
    BY <1>1
  <2>3. Len(q) + 1 \in DOMAIN a
    BY <1>1
  <2> QED BY <1>1, <2>1, <2>2, <2>3, Zenon
<1>3. (\A i, j \in DOMAIN q : q[i] = q[j] => i = j) /\ (\A i \in DOMAIN q : q[i] # e)
        => \A i, j \in DOMAIN a : a[i] = a[j] => i = j
  BY <1>1
<1> QED
  BY <1>2, <1>3 DEF a

LEMMA QueueTail ==
  ASSUME NEW S, NEW q \in Seq(S), q # <<>>,
         \A i, j \in DOMAIN q : q[i] = q[j] => i = j
  PROVE  /\ {q[i] : i \in DOMAIN q} = {Tail(q)[i] : i \in DOMAIN Tail(q)} \cup {Head(q)}
         /\ Head(q) \notin {Tail(q)[i] : i \in DOMAIN Tail(q)}
         /\ \A i, j \in DOMAIN Tail(q) : Tail(q)[i] = Tail(q)[j] => i = j
<1> DEFINE t == Tail(q)
<1>1. /\ DOMAIN q = 1..Len(q) /\ DOMAIN t = 1..(Len(q) - 1) /\ Len(q) \in Nat \ {0}
      /\ \A i \in 1..(Len(q) - 1) : t[i] = q[i + 1]
      /\ Head(q) = q[1]
  BY HeadTailProperties, LenProperties, EmptySeq
<1> HIDE DEF t
<1>2. \A i \in DOMAIN q : q[i] = Head(q) \/ q[i] \in {t[j] : j \in DOMAIN t}
  <2> SUFFICES ASSUME NEW i \in DOMAIN q, i # 1 PROVE q[i] \in {t[j] : j \in DOMAIN t}
    BY <1>1
  <2>1. i - 1 \in DOMAIN t /\ t[i - 1] = q[i]
    BY <1>1
  <2> QED BY <2>1
<1>3. {q[i] : i \in DOMAIN q} = {t[i] : i \in DOMAIN t} \cup {Head(q)}
  <2>1. \A j \in DOMAIN t : t[j] \in {q[i] : i \in DOMAIN q}
    BY <1>1
  <2>2. Head(q) \in {q[i] : i \in DOMAIN q}
    BY <1>1
  <2> QED BY <1>2, <2>1, <2>2
<1>4. \A j \in DOMAIN t : t[j] # Head(q)
  BY <1>1
<1>5. \A i, j \in DOMAIN t : t[i] = t[j] => i = j
  BY <1>1
<1> QED
  BY <1>3, <1>4, <1>5 DEF t

(* Every step keeps promises and jobs together.                            *)
LEMMA NextHeld ==
  TypeOK /\ JobAtHand /\ EveryPromiseIsHeld /\ [Next]_vars => EveryPromiseIsHeld'
<1> SUFFICES ASSUME TypeOK, JobAtHand, EveryPromiseIsHeld, [Next]_vars
             PROVE  EveryPromiseIsHeld'
  OBVIOUS
<1>0. jobs \in Seq(Requests) /\ worker \in WorkerStates /\ None \notin Requests
  BY PipelineConstants DEF PipelineConstants, TypeOK
<1>1. CASE UNCHANGED <<jobs, promise>> /\ worker'.job = worker.job /\ (admin'.up => admin.up)
  BY <1>1 DEF EveryPromiseIsHeld, Queued, Taken
<1>2. ASSUME NEW r \in Requests, Enqueue(r) PROVE EveryPromiseIsHeld'
  <2>0. Taken' = Taken /\ admin.up /\ promise[r] = "none"
    BY <1>2 DEF Enqueue, Taken
  <2>1. r \notin Queued \cup Taken
    BY <2>0 DEF EveryPromiseIsHeld
  <2>2. CASE Open
    <3>1. jobs' = Append(jobs, r) /\ promise' = [promise EXCEPT ![r] = "pending"]
      BY <1>2, <2>2 DEF Enqueue
    <3>2. Queued' = Queued \cup {r}
      BY <1>0, <3>1, QueueAppend DEF Queued
    <3>3. \A i, j \in DOMAIN jobs' : jobs'[i] = jobs'[j] => i = j
      BY <1>0, <2>1, <3>1, QueueAppend DEF Queued, EveryPromiseIsHeld
    <3>4. {x \in Requests : promise'[x] = "pending"} = {x \in Requests : promise[x] = "pending"} \cup {r}
      BY <3>1 DEF TypeOK
    <3> QED BY <2>0, <2>1, <3>2, <3>3, <3>4 DEF EveryPromiseIsHeld
  <2>3. CASE ~Open
    <3>1. jobs' = jobs /\ promise' = [promise EXCEPT ![r] = "broken"]
      BY <1>2, <2>3 DEF Enqueue
    <3>2. {x \in Requests : promise'[x] = "pending"} = {x \in Requests : promise[x] = "pending"}
      BY <2>0, <3>1 DEF TypeOK
    <3> QED BY <2>0, <3>1, <3>2 DEF EveryPromiseIsHeld, Queued
  <2> QED BY <2>2, <2>3
<1>3. CASE Dequeue
  <2>1. /\ Queued = Queued' \cup {Head(jobs)} /\ Head(jobs) \notin Queued'
        /\ \A i, j \in DOMAIN jobs' : jobs'[i] = jobs'[j] => i = j
    <3>1. jobs # <<>> /\ jobs' = Tail(jobs)
      BY <1>3 DEF Dequeue
    <3>2. \A i, j \in DOMAIN jobs : jobs[i] = jobs[j] => i = j
      BY DEF EveryPromiseIsHeld
    <3> QED BY <1>0, <3>1, <3>2, QueueTail DEF Queued
  <2>2. Taken = {} /\ Taken' = {Head(jobs)}
    BY <1>0, <1>3 DEF Dequeue, At, Taken, JobAtHand, WorkerStates
  <2> QED BY <1>3, <2>1, <2>2 DEF Dequeue, EveryPromiseIsHeld
<1>4. CASE Fulfil
  <2>1. worker.job \in Requests /\ Taken = {worker.job} /\ Taken' = {}
    BY <1>0, <1>4 DEF Fulfil, At, Idle, Taken, JobAtHand, WorkerStates
  <2>2. promise'[worker.job] \in {"value", "duplicate", "exception"}
    BY <1>4, <2>1 DEF Fulfil, TypeOK
  <2>3. \A x \in Requests \ {worker.job} : promise'[x] = promise[x]
    BY <1>4, <2>1 DEF Fulfil, TypeOK
  <2>4. {x \in Requests : promise'[x] = "pending"} = {x \in Requests : promise[x] = "pending"} \ {worker.job}
    BY <2>2, <2>3
  <2> QED BY <1>4, <2>1, <2>4 DEF Fulfil, At, EveryPromiseIsHeld, Queued
<1>10. ASSUME NEW p \in [Requests -> Promises], Leave(p) PROVE EveryPromiseIsHeld'
  <2>1. Queued' = {} /\ Taken' = {} /\ DOMAIN jobs' = {}
    BY <1>10, LeaveTypes DEF Queued, Taken, Idle
  <2>2. {x \in Requests : promise'[x] = "pending"} = {}
    BY <1>10, LeaveTypes
  <2> QED BY <2>1, <2>2 DEF EveryPromiseIsHeld
<1>5. CASE Shutdown
  <2>1. [promise EXCEPT ![worker.job] = "value"] \in [Requests -> Promises]
    BY DEF TypeOK, Promises
  <2> QED BY <1>5, <1>10, <2>1 DEF Shutdown
<1>11. CASE RecvFailed
  <2>1. promise \in [Requests -> Promises]
    BY DEF TypeOK, Promises
  <2>2. CASE KindOf[worker.job] \in {"types", "table"}
    BY <1>10, <1>11, <2>1, <2>2 DEF RecvFailed
  <2>3. CASE KindOf[worker.job] \notin {"types", "table"}
    BY <1>0, <1>1, <1>11, <2>3 DEF RecvFailed, WorkerStates
  <2> QED BY <2>2, <2>3
<1>6. CASE \/ SetTrainingStarted \/ SetMemoryUsage \/ SetLastFileResult \/ SetTrainingDone
           \/ RecvDone \/ WorkerSend \/ Exit
  BY <1>0, <1>1, <1>6 DEF SetTrainingStarted, SetMemoryUsage, SetLastFileResult, SetTrainingDone,
       RecvDone, WorkerSend, Exit, Goto, At, WorkerStates
<1>7. CASE Master \/ MasterThrows \/ MasterDies \/ RecvProgress \/ UNCHANGED vars
  BY <1>1, <1>7 DEF Master, MasterTrain, MasterEpoch, MasterTrained, MasterAnswer, MasterThrows, MasterDies,
       RecvProgress, vars
<1>8. ASSUME NEW r \in Requests, Handler(r) \/ TableTimeout(r) PROVE EveryPromiseIsHeld'
  BY <1>1, <1>8 DEF Handler, WriteAccepted, WriteAnswer, TableTimeout
<1>9. ASSUME NEW p \in Pollers, Poll(p) PROVE EveryPromiseIsHeld'
  BY <1>1, <1>9 DEF Poll, PollLock, PollReply
<1> QED
  BY <1>2, <1>3, <1>4, <1>5, <1>6, <1>7, <1>8, <1>9, <1>11 DEF Next, Worker

(* A message to the master is the worker's request, and the only one.      *)
LEMMA OneMessage ==
  ASSUME TypeOK, Stream, master.up, toMaster # <<>>
  PROVE  fromMaster = <<>> /\ Len(toMaster) = 1 /\ Head(toMaster) = worker.job /\ InTransit
<1>1. toMaster \in Seq(Requests)
  BY DEF TypeOK
<1>2. Len(toMaster) = 1 /\ 1 \in DOMAIN toMaster
  <2>1. Len(toMaster) \in Nat /\ Len(toMaster) # 0 /\ DOMAIN toMaster = 1..Len(toMaster)
    BY <1>1, EmptySeq, LenProperties
  <2>2. Len(toMaster) <= 1
    BY DEF Stream
  <2> QED BY <2>1, <2>2
<1>3. Head(toMaster) = toMaster[1]
  BY <1>1
<1> QED
  BY <1>2, <1>3 DEF Stream

(* Every step keeps the messages of the worker's job in their order.       *)
LEMMA NextStream == TypeOK /\ JobAtHand /\ Stream /\ [Next]_vars => Stream'
<1> SUFFICES ASSUME TypeOK, JobAtHand, Stream, [Next]_vars PROVE Stream'
  OBVIOUS
<1>0. /\ worker \in WorkerStates /\ master \in MasterStates
      /\ fromMaster \in Seq(Messages) /\ toMaster \in Seq(Requests)
      /\ None \notin Requests
  BY PipelineConstants DEF PipelineConstants, TypeOK
<1>1. CASE /\ UNCHANGED <<toMaster, fromMaster, master, outcome>>
           /\ worker'.job = worker.job /\ InTransit' = InTransit
  BY <1>1 DEF Stream
<1>2. CASE Dequeue
  <2>1. ~InTransit /\ fromMaster = <<>> /\ (master.up => toMaster = <<>> /\ master.job = None)
    BY <1>2 DEF Dequeue, At, InTransit, Stream
  <2>2. ~InTransit'
    BY <1>0, <1>2 DEF Dequeue, FirstStep, InTransit, WorkerStates
  <2> QED BY <1>2, <2>1, <2>2 DEF Dequeue, Stream, socket
<1>3. CASE WorkerSend /\ master.up
  <2>1. worker.job \in Requests /\ fromMaster = <<>> /\ toMaster = <<>> /\ master.job = None
    BY <1>0, <1>3 DEF WorkerSend, At, InTransit, Stream, JobAtHand, WorkerStates
  <2>2. InTransit' /\ worker'.job = worker.job
    BY <1>0, <1>3 DEF WorkerSend, Goto, InTransit, WorkerStates
  <2>3. toMaster' = <<worker.job>>
    BY <1>3, <2>1 DEF WorkerSend
  <2> QED BY <1>3, <2>1, <2>2, <2>3 DEF WorkerSend, Stream
<1>4. CASE WorkerSend /\ ~master.up
  BY <1>1, <1>4 DEF WorkerSend, InTransit
<1>5. CASE SetTrainingStarted \/ SetMemoryUsage \/ SetLastFileResult \/ SetTrainingDone
  <2>1. worker'.job = worker.job /\ InTransit' = InTransit
    BY <1>0, <1>5 DEF SetTrainingStarted, SetMemoryUsage, SetLastFileResult, SetTrainingDone,
         At, Goto, InTransit, WorkerStates, JobAtHand
  <2> QED BY <1>1, <1>5, <2>1 DEF SetTrainingStarted, SetMemoryUsage, SetLastFileResult,
        SetTrainingDone, socket
<1>6. CASE RecvProgress
  <2>1. /\ fromMaster # <<>> /\ fromMaster' = Tail(fromMaster)
        /\ Len(fromMaster') = Len(fromMaster) - 1
        /\ \A i \in DOMAIN fromMaster' : i + 1 \in DOMAIN fromMaster /\ fromMaster'[i] = fromMaster[i + 1]
    BY <1>0, <1>6, HeadTailProperties DEF RecvProgress
  <2>2. UNCHANGED <<toMaster, master, outcome, worker>> /\ InTransit /\ InTransit'
    BY <1>6 DEF RecvProgress, At, InTransit
  <2>3. \A i \in DOMAIN fromMaster' : i \in Nat
    BY <1>0, <2>1
  <2> QED BY <1>0, <2>1, <2>2, <2>3 DEF Stream
<1>7. CASE RecvDone
  <2>1. /\ fromMaster # <<>> /\ 1 \in DOMAIN fromMaster /\ fromMaster[1].cmd = "done"
    BY <1>0, <1>7 DEF RecvDone
  <2>2. Len(fromMaster) = 1 /\ master.job = None
    BY <2>1 DEF Stream
  <2>3. fromMaster' = <<>>
    BY <1>0, <1>7, <2>2, HeadTailProperties DEF RecvDone
  <2>4. master.up => toMaster = <<>>
    BY <2>1 DEF Stream
  <2>5. ~InTransit' /\ worker'.job = worker.job
    BY <1>0, <1>7 DEF RecvDone, InTransit, WorkerStates
  <2> QED BY <1>7, <2>2, <2>3, <2>4, <2>5 DEF RecvDone, Stream
<1>8. CASE RecvFailed
  <2>1. fromMaster = <<>> /\ ~master.up /\ UNCHANGED <<socket, master>>
    BY <1>8 DEF RecvFailed
  <2> QED BY <2>1 DEF Stream, socket
<1>9. CASE Fulfil
  BY <1>0, <1>9 DEF Fulfil, At, Idle, Stream, InTransit, socket, WorkerStates
<1>10. CASE Shutdown
  <2>1. fromMaster = <<>> /\ (master.up => toMaster = <<>> /\ master.job = None)
    BY <1>10 DEF Shutdown, At, InTransit, Stream
  <2>2. UNCHANGED <<socket, master>> /\ ~InTransit'
    BY <1>10 DEF Shutdown, Leave, Idle, InTransit
  <2> QED BY <2>1, <2>2 DEF Stream, socket
<1>18. CASE Exit
  BY <1>1, <1>18 DEF Exit, InTransit, socket
<1>11. ASSUME NEW result \in UploadResults, MasterTrain(result) PROVE Stream'
  <2>1. fromMaster = <<>> /\ Len(toMaster) = 1 /\ Head(toMaster) = worker.job /\ InTransit
    BY <1>0, <1>11, OneMessage DEF MasterTrain, Serving
  <2>2. toMaster' = <<>> /\ fromMaster' = <<>> /\ worker' = worker /\ InTransit'
    BY <1>0, <1>11, <2>1, HeadTailProperties DEF MasterTrain, InTransit
  <2>3. master'.job = worker.job
    BY <1>0, <1>11, <2>1 DEF MasterTrain, MasterStates
  <2> QED BY <2>2, <2>3 DEF Stream
<1>12. CASE MasterEpoch \/ MasterTrained
  <2>1. master.job = worker.job /\ worker.job # None /\ InTransit /\ toMaster = <<>>
    BY <1>0, <1>12 DEF MasterEpoch, MasterTrained, Serving, Stream
  <2>2. \A i \in DOMAIN fromMaster : fromMaster[i].cmd # "done" /\ fromMaster[i].for = worker.job
    BY <2>1 DEF Stream
  <2>3. worker' = worker /\ outcome' = outcome /\ toMaster' = toMaster /\ InTransit'
    BY <1>12, <2>1 DEF MasterEpoch, MasterTrained, InTransit
  <2>4. PICK m \in Messages :
          /\ fromMaster' = Append(fromMaster, m) /\ m.for = worker.job
          /\ \/ m.cmd = "progress" /\ master'.job = worker.job
             \/ m.cmd = "done" /\ master'.job = None /\ m.result = outcome[worker.job]
    <3>1. CASE MasterEpoch
      <4>1. Progress(worker.job) \in Messages
        BY <1>0, <2>1 DEF Progress, Messages, WorkerStates, Results, UploadResults
      <4> QED BY <1>0, <2>1, <3>1, <4>1 DEF MasterEpoch, Progress, MasterStates
    <3>2. CASE MasterTrained
      <4>1. Done(worker.job, outcome[worker.job]) \in Messages
        BY <1>0, <2>1 DEF Done, Messages, WorkerStates, TypeOK, JobAtHand
      <4> QED BY <1>0, <2>1, <3>2, <4>1 DEF MasterTrained, Done, MasterStates
    <3> QED BY <1>12, <3>1, <3>2
  <2>5. /\ Len(fromMaster') = Len(fromMaster) + 1
        /\ \A i \in DOMAIN fromMaster' :
             \/ i \in DOMAIN fromMaster /\ fromMaster'[i] = fromMaster[i]
             \/ i = Len(fromMaster') /\ fromMaster'[i] = m
    <3>1. DOMAIN fromMaster = 1..Len(fromMaster) /\ Len(fromMaster) \in Nat
      BY <1>0, LenProperties
    <3>2. /\ fromMaster' \in Seq(Messages) /\ Len(fromMaster') = Len(fromMaster) + 1
          /\ \A i \in 1..Len(fromMaster) : fromMaster'[i] = fromMaster[i]
          /\ fromMaster'[Len(fromMaster) + 1] = m
      BY <1>0, <2>4, AppendProperties
    <3>3. DOMAIN fromMaster' = 1..(Len(fromMaster) + 1)
      BY <3>2, LenProperties
    <3> QED BY <3>1, <3>2, <3>3
  <2> QED BY <2>1, <2>2, <2>3, <2>4, <2>5 DEF Stream
<1>13. ASSUME NEW result \in UmlResults \cup {"OK"}, MasterAnswer(result) PROVE Stream'
  <2>1. fromMaster = <<>> /\ Len(toMaster) = 1 /\ Head(toMaster) = worker.job /\ InTransit
    BY <1>0, <1>13, OneMessage DEF MasterAnswer, Serving
  <2>2. toMaster' = <<>> /\ UNCHANGED <<worker, master>> /\ InTransit' /\ master.job = None
    BY <1>0, <1>13, <2>1, HeadTailProperties DEF MasterAnswer, InTransit
  <2>3. fromMaster' = <<Done(worker.job, result)>>
    BY <1>13, <2>1 DEF MasterAnswer
  <2>4. outcome'[worker.job] = result
    BY <1>0, <1>13, <2>1 DEF MasterAnswer, TypeOK
  <2> QED BY <2>2, <2>3, <2>4 DEF Stream, Done
<1>14. CASE MasterDies
  BY <1>0, <1>14 DEF MasterDies, Stream, InTransit, socket, MasterStates
<1>19. CASE MasterThrows
  <2>1. /\ master.up /\ master'.job = None /\ master'.up
        /\ UNCHANGED <<fromMaster, worker, outcome>> /\ InTransit' = InTransit
    BY <1>0, <1>19 DEF MasterThrows, Serving, InTransit, MasterStates
  <2>2. toMaster' = toMaster \/ toMaster' = <<>>
    <3>1. CASE master.job = None
      <4>1. toMaster # <<>> /\ toMaster' = Tail(toMaster)
        BY <1>19, <3>1 DEF MasterThrows
      <4>2. Len(toMaster) = 1
        BY <2>1, <4>1, OneMessage
      <4> QED BY <1>0, <4>1, <4>2, HeadTailProperties, EmptySeq
    <3>2. CASE master.job # None
      BY <1>19, <3>2 DEF MasterThrows
    <3> QED BY <3>1, <3>2
  <2> QED BY <2>1, <2>2 DEF Stream
<1>15. CASE UNCHANGED vars
  BY <1>1, <1>15 DEF vars, InTransit
<1>16. ASSUME NEW r \in Requests, Enqueue(r) \/ Handler(r) \/ TableTimeout(r) PROVE Stream'
  BY <1>1, <1>16 DEF Enqueue, Handler, WriteAccepted, WriteAnswer, TableTimeout, InTransit, socket
<1>17. ASSUME NEW p \in Pollers, Poll(p) PROVE Stream'
  BY <1>1, <1>17 DEF Poll, PollLock, PollReply, InTransit, socket
<1> QED
  BY <1>2, <1>3, <1>4, <1>5, <1>6, <1>7, <1>8, <1>9, <1>10, <1>11, <1>12, <1>13, <1>14,
     <1>15, <1>16, <1>17, <1>18, <1>19 DEF Next, Worker, Master
(* Every step keeps what the worker holds, and what was answered, true.    *)
LEMMA NextResult ==
  /\ TypeOK /\ JobAtHand /\ EveryPromiseIsHeld /\ Stream /\ ResultAtHand /\ SuccessIsReal
  /\ [Next]_vars
  => ResultAtHand' /\ SuccessIsReal'
<1> SUFFICES ASSUME TypeOK, JobAtHand, EveryPromiseIsHeld, Stream, ResultAtHand,
                    SuccessIsReal, [Next]_vars
             PROVE  ResultAtHand' /\ SuccessIsReal'
  OBVIOUS
<1>0. /\ worker \in WorkerStates /\ master \in MasterStates
      /\ fromMaster \in Seq(Messages) /\ None \notin Requests
      /\ promise \in [Requests -> {"none", "pending", "value", "duplicate", "exception", "broken"}]
  BY PipelineConstants DEF PipelineConstants, TypeOK
<1>1. CASE UNCHANGED <<worker, promise, outcome>> /\ master'.job \in {master.job, None}
  <2>1. worker.pc \notin {"dequeue", "gone"} => worker.job # None
    BY DEF JobAtHand
  <2>2. worker.pc \in {"memory", "result", "finish", "fulfil"} => worker.pc \notin {"dequeue", "gone"}
    OBVIOUS
  <2>3. ResultAtHand'
    BY <1>1, <2>1, <2>2 DEF ResultAtHand
  <2>4. SuccessIsReal'
    BY <1>0, <1>1 DEF SuccessIsReal
  <2> QED BY <2>3, <2>4
<1>2. ASSUME NEW r \in Requests, Enqueue(r) PROVE ResultAtHand' /\ SuccessIsReal'
  <2>1. PICK v \in {"pending", "broken"} : promise' = [promise EXCEPT ![r] = v]
    BY <1>2 DEF Enqueue
  <2>2. UNCHANGED <<worker, master, outcome>> /\ promise[r] = "none"
    BY <1>2 DEF Enqueue
  <2>3. worker.pc \notin {"dequeue", "stop", "gone"} => worker.job # r
    BY <2>2 DEF ResultAtHand
  <2>4. worker.pc \notin {"dequeue", "gone"} => worker.job \in Requests
    BY <1>0 DEF JobAtHand, WorkerStates
  <2>5. ResultAtHand'
    BY <1>0, <2>1, <2>2, <2>3, <2>4 DEF ResultAtHand
  <2>6. SuccessIsReal'
    BY <1>0, <2>1, <2>2 DEF SuccessIsReal
  <2> QED BY <2>5, <2>6
<1>3. CASE Dequeue
  <2>1. Head(jobs) \in Queued
    <3>1. jobs \in Seq(Requests) /\ jobs # <<>>
      BY <1>3 DEF Dequeue, TypeOK
    <3>2. Head(jobs) = jobs[1] /\ 1 \in DOMAIN jobs
      BY <3>1, HeadTailProperties, EmptySeq, LenProperties
    <3> QED BY <3>2 DEF Queued
  <2>2. promise[Head(jobs)] = "pending"
    BY <1>3, <2>1 DEF Dequeue, At, EveryPromiseIsHeld
  <2>3. worker'.job = Head(jobs) /\ worker'.pc \in {"start", "stop", "send"}
    BY <1>0, <1>3 DEF Dequeue, FirstStep, WorkerStates
  <2>4. UNCHANGED <<promise, outcome, master>>
    BY <1>3 DEF Dequeue
  <2> QED BY <2>2, <2>3, <2>4 DEF ResultAtHand, SuccessIsReal
<1>4. CASE WorkerSend \/ SetTrainingStarted
  <2>1. /\ worker.pc \in {"send", "start"} /\ UNCHANGED <<promise, outcome, master>>
        /\ worker'.job = worker.job /\ worker'.pc \in {"send", "start", "recv"}
    BY <1>0, <1>4 DEF WorkerSend, SetTrainingStarted, Goto, At, WorkerStates
  <2> QED BY <2>1 DEF ResultAtHand, SuccessIsReal
<1>5. CASE SetMemoryUsage \/ SetLastFileResult \/ SetTrainingDone
  <2>1. /\ worker.pc \in {"memory", "result", "finish"} /\ UNCHANGED <<promise, outcome, master>>
        /\ worker'.job = worker.job /\ worker'.result = worker.result
        /\ worker'.pc \in {"result", "finish", "fulfil"}
    BY <1>0, <1>5 DEF SetMemoryUsage, SetLastFileResult, SetTrainingDone, Goto, At, WorkerStates
  <2> QED BY <2>1 DEF ResultAtHand, SuccessIsReal
<1>6. CASE RecvDone
  <2>1. /\ fromMaster # <<>> /\ Head(fromMaster).cmd = "done" /\ worker.pc = "recv"
        /\ UNCHANGED <<promise, outcome, master>>
        /\ worker'.job = worker.job /\ worker'.result = Head(fromMaster).result
        /\ worker'.pc \in {"memory", "finish", "fulfil"}
    BY <1>0, <1>6 DEF RecvDone, At, WorkerStates
  <2>2. Head(fromMaster) = fromMaster[1] /\ 1 \in DOMAIN fromMaster
    BY <1>0, <2>1, HeadTailProperties, EmptySeq, LenProperties
  <2>3. worker'.result = outcome[worker.job] /\ master.job = None
    BY <2>1, <2>2 DEF Stream
  <2>4. worker.job # None
    BY <2>1 DEF JobAtHand
  <2> QED BY <2>1, <2>3, <2>4 DEF ResultAtHand, SuccessIsReal
<1>7. CASE RecvFailed /\ KindOf[worker.job] \notin {"types", "table"}
  <2>1. UNCHANGED <<promise, outcome, master>> /\ worker.pc = "recv"
    BY <1>7 DEF RecvFailed, At
  <2>2. /\ worker'.job = worker.job /\ worker'.pc \in {"finish", "fulfil"}
        /\ worker'.result = "failed"
    BY <1>0, <1>7 DEF RecvFailed, WorkerStates
  <2> QED BY <2>1, <2>2 DEF ResultAtHand, SuccessIsReal
<1>14. ASSUME worker'.pc = "gone", UNCHANGED <<outcome, master>>,
              \A r \in Requests : \/ promise'[r] \in {promise[r], "broken"}
                                  \/ KindOf[r] = "stop" /\ promise'[r] = "value"
       PROVE  ResultAtHand' /\ SuccessIsReal'
  <2>1. ResultAtHand'
    BY <1>14 DEF ResultAtHand
  <2>2. SuccessIsReal'
    BY <1>14 DEF SuccessIsReal
  <2> QED BY <2>1, <2>2
<1>15. CASE RecvFailed /\ KindOf[worker.job] \in {"types", "table"}
  <2>1. promise \in [Requests -> Promises]
    BY <1>0 DEF Promises
  <2>2. Leave(promise) /\ UNCHANGED <<outcome, master>>
    BY <1>15 DEF RecvFailed
  <2>3. /\ worker'.pc = "gone"
        /\ \A r \in Requests : promise'[r] = IF promise[r] = "pending" THEN "broken" ELSE promise[r]
    BY <2>1, <2>2, LeaveTypes DEF Idle
  <2> QED BY <1>14, <2>2, <2>3
<1>8. CASE Fulfil
  <2> DEFINE answer == CASE worker.result = "exists" -> "duplicate"
                         [] worker.result = "failed" -> "exception"
                         [] OTHER                    -> "value"
  <2>1. /\ worker.pc = "fulfil" /\ worker' = Idle /\ UNCHANGED <<outcome, master>>
        /\ promise' = [promise EXCEPT ![worker.job] = answer]
    BY <1>8 DEF Fulfil, At
  <2>2. worker.result # "failed" =>
          worker.result = outcome[worker.job] /\ master.job # worker.job
    BY <2>1 DEF ResultAtHand
  <2>3. worker.result # "none"
    BY <1>0 DEF WorkerStates, Results, UploadResults, UmlResults
  <2>4. /\ answer = "value" =>
             outcome[worker.job] \notin {"none", "failed", "exists"} /\ master.job # worker.job
        /\ answer = "duplicate" => outcome[worker.job] = "exists"
    BY <2>2, <2>3
  <2>5. ResultAtHand'
    BY <2>1 DEF ResultAtHand, Idle
  <2> HIDE DEF answer
  <2>6. SuccessIsReal'
    BY <1>0, <2>1, <2>4 DEF SuccessIsReal
  <2> QED BY <2>5, <2>6
<1>9. CASE Shutdown
  <2> DEFINE p == [promise EXCEPT ![worker.job] = "value"]
  <2>1. worker.pc = "stop" /\ UNCHANGED <<outcome, master>> /\ Leave(p)
    BY <1>9 DEF Shutdown, At
  <2>2. KindOf[worker.job] = "stop"
    BY <1>0, <2>1 DEF JobAtHand
  <2>3. p \in [Requests -> Promises]
    BY <1>0 DEF Promises
  <2>4. \A r \in Requests : p[r] = IF r = worker.job THEN "value" ELSE promise[r]
    BY <1>0, <2>2
  <2> HIDE DEF p
  <2>5. /\ worker'.pc = "gone"
        /\ \A r \in Requests : promise'[r] = IF p[r] = "pending" THEN "broken" ELSE p[r]
    BY <2>1, <2>3, LeaveTypes DEF Idle
  <2>6. \A r \in Requests : \/ promise'[r] \in {promise[r], "broken"}
                            \/ KindOf[r] = "stop" /\ promise'[r] = "value"
    BY <2>2, <2>4, <2>5
  <2> QED BY <1>14, <2>1, <2>5, <2>6
<1>10. ASSUME NEW result \in UploadResults \cup UmlResults \cup {"OK"},
              \/ result \in UploadResults /\ MasterTrain(result)
              \/ result \in UmlResults \cup {"OK"} /\ MasterAnswer(result)
       PROVE ResultAtHand' /\ SuccessIsReal'
  <2>1. InTransit /\ Head(toMaster) = worker.job
    BY <1>10, OneMessage DEF MasterTrain, MasterAnswer, Serving
  <2>2. /\ UNCHANGED <<worker, promise>> /\ master'.job \in {master.job, worker.job}
        /\ outcome' = [outcome EXCEPT ![worker.job] = result]
    BY <1>0, <1>10, <2>1 DEF MasterTrain, MasterAnswer, MasterStates
  <2>3. worker.pc \in {"recv", "start"} /\ promise[worker.job] = "pending"
    BY <2>1 DEF InTransit, ResultAtHand
  <2>4. ResultAtHand'
    BY <2>2, <2>3 DEF ResultAtHand
  <2>5. SuccessIsReal'
    BY <2>2, <2>3, <1>0 DEF SuccessIsReal, TypeOK
  <2> QED BY <2>4, <2>5
<1>11. CASE MasterEpoch \/ MasterTrained \/ MasterThrows \/ MasterDies \/ RecvProgress \/ Exit
           \/ UNCHANGED vars
  BY <1>0, <1>1, <1>11 DEF Exit, MasterEpoch, MasterTrained, MasterThrows, MasterDies, RecvProgress, vars, MasterStates
<1>12. ASSUME NEW r \in Requests, Handler(r) \/ TableTimeout(r)
       PROVE ResultAtHand' /\ SuccessIsReal'
  BY <1>1, <1>12 DEF Handler, WriteAccepted, WriteAnswer, TableTimeout
<1>13. ASSUME NEW p \in Pollers, Poll(p) PROVE ResultAtHand' /\ SuccessIsReal'
  BY <1>1, <1>13 DEF Poll, PollLock, PollReply
<1> QED
  BY <1>2, <1>3, <1>4, <1>5, <1>6, <1>7, <1>8, <1>9, <1>10, <1>11, <1>12, <1>13, <1>15
     DEF Next, Worker, Master

(* The inductive invariant.                                                *)
Inductive == /\ TypeOK /\ JobAtHand /\ OpenAtWork /\ EveryPromiseIsHeld
             /\ Stream /\ ResultAtHand /\ SuccessIsReal

LEMMA InitInductive == Init => Inductive
<1> SUFFICES ASSUME Init PROVE Inductive
  OBVIOUS
<1> USE DEF Init, Idle
<1>1. {"OK"} \subseteq Results /\ 0 \in 0..Epochs /\ None \notin Requests
  BY PipelineConstants DEF PipelineConstants, Results, UploadResults
<1>2. TypeOK
  <2>1. \A S : <<>> \in Seq(S)
    OBVIOUS
  <2> QED BY <1>1, <2>1 DEF TypeOK, WorkerStates, MasterStates, PollStates
<1>3. JobAtHand /\ OpenAtWork /\ ResultAtHand /\ SuccessIsReal
  BY <1>1 DEF JobAtHand, OpenAtWork, ResultAtHand, SuccessIsReal
<1>4. EveryPromiseIsHeld
  BY DEF EveryPromiseIsHeld, Queued, Taken
<1>5. Stream
  BY DEF Stream
<1> QED
  BY <1>2, <1>3, <1>4, <1>5 DEF Inductive

LEMMA NextInductive == Inductive /\ [Next]_vars => Inductive'
BY NextTypes, NextJobAtHand, NextOpenAtWork, NextHeld, NextStream, NextResult DEF Inductive

LEMMA SpecInductive == Spec => []Inductive
BY InitInductive, NextInductive, PTL DEF Spec

(* Every variable keeps its type, for any connections and pollers.         *)
THEOREM PipelineTypes == Spec => []TypeOK
<1>1. Inductive => TypeOK
  BY DEF Inductive
<1> QED BY <1>1, SpecInductive, PTL

(* As long as the admin process runs, the requests waited for are those in *)
(* the queue and the one in the worker's hands, each there once.           *)
THEOREM JobsAreHeld == Spec => []EveryPromiseIsHeld
<1>1. Inductive => EveryPromiseIsHeld
  BY DEF Inductive
<1> QED BY <1>1, SpecInductive, PTL

(* The worker never takes an answer for the answer to another job, however *)
(* long a training is and wherever the master dies.                        *)
THEOREM StaysInStep == Spec => []InStep
<1>1. Inductive => InStep
  <2> SUFFICES ASSUME Inductive PROVE InStep
    OBVIOUS
  <2>1. worker.pc = "dequeue" => ~InTransit
    BY DEF InTransit
  <2> QED BY <2>1 DEF Inductive, Stream, InStep
<1> QED BY <1>1, SpecInductive, PTL

(* What a connection is told was done, the master has done.                *)
THEOREM SuccessIsTrue == Spec => []SuccessIsReal
<1>1. Inductive => SuccessIsReal
  BY DEF Inductive
<1> QED BY <1>1, SpecInductive, PTL
-----------------------------------------------------------------------------
(* The service's line: the job in the worker's hands, then the queue.      *)
InHand    == IF worker.job = None THEN <<>> ELSE <<worker.job>>
Line      == IF ~Open THEN <<>> ELSE InHand \o jobs
ServedNow == {r \in Requests : Finished(r)}

LEMMA FrontOfLine ==
  ASSUME NEW S, NEW e \in S, NEW q \in Seq(S)
  PROVE  /\ <<e>> \o q # <<>> /\ Head(<<e>> \o q) = e /\ Tail(<<e>> \o q) = q
         /\ <<>> \o q = q
<1> DEFINE l == <<e>> \o q
<1>1. <<e>> \in Seq(S) /\ Len(<<e>>) = 1 /\ Len(q) \in Nat /\ Len(<<>>) = 0
  OBVIOUS
<1>2. /\ l \in Seq(S) /\ Len(l) = 1 + Len(q)
      /\ \A i \in 1..(1 + Len(q)) : l[i] = IF i <= 1 THEN <<e>>[i] ELSE q[i - 1]
  BY <1>1, ConcatProperties
<1>3. <<>> \o q = q
  BY ConcatEmptySeq
<1> HIDE DEF l
<1>4. l # <<>> /\ Head(l) = e
  BY <1>1, <1>2
<1>5. Tail(l) = q
  <2>1. Tail(l) \in Seq(S) /\ Len(Tail(l)) = Len(q)
        /\ \A i \in 1..Len(q) : Tail(l)[i] = l[i + 1]
    BY <1>1, <1>2, <1>4, HeadTailProperties
  <2>2. \A i \in 1..Len(q) : Tail(l)[i] = q[i]
    BY <1>1, <1>2, <2>1
  <2> QED BY <2>1, <2>2, SeqEqual
<1> QED BY <1>3, <1>4, <1>5 DEF l

LEMMA NextIsService == Inductive /\ [Next]_vars => [Service!Next]_Service!vars
<1> SUFFICES ASSUME Inductive, [Next]_vars PROVE [Service!Next]_Service!vars
  OBVIOUS
<1> USE DEF Inductive
<1>0. /\ worker \in WorkerStates /\ jobs \in Seq(Requests) /\ None \notin Requests
      /\ InHand \in Seq(Requests) /\ admin \in [up : BOOLEAN, stopped : BOOLEAN]
      /\ promise \in [Requests -> {"none", "pending", "value", "duplicate", "exception", "broken"}]
  BY PipelineConstants DEF PipelineConstants, TypeOK, InHand, WorkerStates
<1>1. ASSUME UNCHANGED <<Line, ServedNow, Open>>
      PROVE  UNCHANGED Service!vars
  BY <1>1 DEF Service!vars, Line, InHand, ServedNow
<1>2. ASSUME UNCHANGED <<jobs, promise, admin>>, worker'.job = worker.job
      PROVE  UNCHANGED <<Line, ServedNow, Open>>
  BY <1>2 DEF Line, InHand, ServedNow, Finished, Open
<1>10. ASSUME Open, ~Open', ServedNow' = ServedNow
       PROVE  Service!Next
  <2>1. Service!Close
    BY <1>10 DEF Service!Close, Line, InHand, ServedNow
  <2> QED BY <2>1 DEF Service!Next
<1>3. ASSUME NEW r \in Requests, Enqueue(r), Open PROVE Service!Submit(r)
  <2>1. r \notin ServedNow /\ ServedNow' = ServedNow
    BY <1>0, <1>3 DEF Enqueue, ServedNow, Finished
  <2>2. Line' = Append(Line, r)
    <3>1. <<r>> \in Seq(Requests) /\ Line = InHand \o jobs /\ Line \in Seq(Requests)
      BY <1>0, <1>3, ConcatProperties DEF Line, Enqueue
    <3>2. Line' = InHand \o Append(jobs, r)
      BY <1>3 DEF Enqueue, Line, InHand, Open
    <3> QED BY <1>0, <3>1, <3>2, AppendIsConcat, ConcatAssociative
  <2>3. \A i \in 1..Len(Line) : Line[i] # r
    <3>1. r \notin Queued \cup Taken
      BY <1>3 DEF Enqueue, EveryPromiseIsHeld
    <3>2. \A i \in 1..Len(jobs) : jobs[i] # r
      BY <1>0, <3>1, LenProperties DEF Queued
    <3>3. CASE worker.job = None
      BY <1>0, <1>3, <3>2, <3>3, ConcatEmptySeq DEF Line, InHand, Enqueue
    <3>4. CASE worker.job # None
      <4>1. worker.job # r /\ Line = <<worker.job>> \o jobs /\ worker.job \in Requests
        BY <1>0, <1>3, <3>1, <3>4 DEF Taken, Line, InHand, WorkerStates, Enqueue
      <4>2. /\ Len(Line) = 1 + Len(jobs) /\ Len(jobs) \in Nat
            /\ \A i \in 1..(1 + Len(jobs)) :
                 Line[i] = IF i <= 1 THEN <<worker.job>>[i] ELSE jobs[i - 1]
        BY <1>0, <4>1, ConcatProperties
      <4> QED BY <3>2, <4>1, <4>2
    <3> QED BY <3>3, <3>4
  <2>4. Open /\ Open' = TRUE
    BY <1>3 DEF Enqueue, Open
  <2> QED
    BY <2>1, <2>2, <2>3, <2>4 DEF Service!Submit, Line, InHand, ServedNow
<1>12. ASSUME NEW r \in Requests, Enqueue(r), ~Open PROVE UNCHANGED Service!vars
  <2>1. PICK v \in {"pending", "broken"} : promise' = [promise EXCEPT ![r] = v]
    BY <1>12 DEF Enqueue
  <2>2. v = "broken" /\ promise[r] = "none" /\ UNCHANGED <<jobs, worker, admin>>
    BY <1>0, <1>12, <2>1 DEF Enqueue
  <2>3. ServedNow' = ServedNow
    BY <1>0, <2>1, <2>2 DEF ServedNow, Finished
  <2> QED BY <1>1, <2>2, <2>3 DEF Line, InHand, Open
<1>4. CASE Dequeue
  <2>1. jobs # <<>> /\ jobs' = Tail(jobs) /\ worker.job = None /\ worker'.job = Head(jobs)
        /\ UNCHANGED <<promise, admin>>
    BY <1>0, <1>4 DEF Dequeue, At, JobAtHand, WorkerStates
  <2>2. Head(jobs) \in Requests /\ jobs = <<Head(jobs)>> \o Tail(jobs)
    <3>1. Head(jobs) \in Requests /\ Tail(jobs) \in Seq(Requests)
          /\ Len(Tail(jobs)) = Len(jobs) - 1 /\ Len(jobs) \in Nat \ {0}
      BY <1>0, <2>1, HeadTailProperties, EmptySeq
    <3>2. <<Head(jobs)>> \in Seq(Requests) /\ Len(<<Head(jobs)>>) = 1
      BY <3>1
    <3> DEFINE l == <<Head(jobs)>> \o Tail(jobs)
    <3>3. /\ l \in Seq(Requests) /\ Len(l) = Len(jobs)
          /\ \A i \in 1..Len(jobs) : l[i] = IF i <= 1 THEN <<Head(jobs)>>[i] ELSE Tail(jobs)[i - 1]
      BY <3>1, <3>2, ConcatProperties
    <3> HIDE DEF l
    <3>4. \A i \in 1..Len(jobs) : l[i] = jobs[i]
      BY <1>0, <2>1, <3>1, <3>3, HeadTailProperties
    <3>5. l = jobs
      BY <1>0, <3>3, <3>4, SeqEqual
    <3> QED BY <3>1, <3>5 DEF l
  <2>3. Open' = Open /\ Line' = Line
    BY <1>0, <2>1, <2>2, ConcatEmptySeq DEF Line, InHand, Open
  <2> QED BY <1>1, <2>1, <2>3 DEF ServedNow, Finished
<1>5. CASE Fulfil \/ Shutdown
  <2>1. /\ worker.job \in Requests /\ worker.pc \in {"fulfil", "stop"} /\ admin.up
        /\ Line = <<worker.job>> \o jobs
    <3>1. worker.job \in Requests /\ worker.pc \in {"fulfil", "stop"} /\ admin.up
      BY <1>0, <1>5 DEF Fulfil, Shutdown, At, JobAtHand, WorkerStates
    <3>2. Open
      BY <3>1 DEF OpenAtWork, Open
    <3> QED BY <1>0, <3>1, <3>2 DEF Line, InHand
  <2>2. Line # <<>> /\ Head(Line) = worker.job /\ Tail(Line) = jobs
    BY <1>0, <2>1, FrontOfLine
  <2>3. Open
    BY <2>1 DEF OpenAtWork, Open
  <2>4. CASE Fulfil
    <3>1. promise'[worker.job] \in {"value", "duplicate", "exception"}
          /\ \A x \in Requests \ {worker.job} : promise'[x] = promise[x]
      BY <1>0, <2>1, <2>4 DEF Fulfil
    <3>2. ServedNow' = ServedNow \cup {Head(Line)}
      BY <2>1, <2>2, <3>1 DEF ServedNow, Finished
    <3>3. Open' = Open /\ Line' = Tail(Line)
      BY <1>0, <2>2, <2>3, <2>4, ConcatEmptySeq DEF Fulfil, Idle, Line, InHand, Open
    <3>4. Service!Serve
      BY <2>2, <2>3, <3>2, <3>3 DEF Service!Serve, Line, InHand, ServedNow
    <3> QED BY <3>4 DEF Service!Next
  <2>5. CASE Shutdown
    <3> DEFINE p == [promise EXCEPT ![worker.job] = "value"]
    <3>1. p \in [Requests -> Promises] /\ Leave(p)
      BY <1>0, <2>5 DEF Shutdown, Promises
    <3>2. /\ p[worker.job] = "value"
          /\ \A x \in Requests \ {worker.job} : p[x] = promise[x]
      BY <1>0, <2>1
    <3> HIDE DEF p
    <3>3. \A x \in Requests : promise'[x] = IF p[x] = "pending" THEN "broken" ELSE p[x]
      BY <3>1, LeaveTypes
    <3>4. ServedNow' = ServedNow \cup {Head(Line)}
      BY <2>1, <2>2, <3>2, <3>3 DEF ServedNow, Finished
    <3>5. ~Open' /\ Line' = <<>>
      BY <3>1, LeaveTypes DEF Open, Line
    <3>6. Service!Close
      BY <2>2, <2>3, <3>4, <3>5 DEF Service!Close, Line, InHand, ServedNow
    <3> QED BY <3>6 DEF Service!Next
  <2> QED BY <1>5, <2>4, <2>5
<1>6. CASE WorkerSend \/ RecvFailed
  <2>1. worker.pc \in {"send", "recv"} /\ Open
    BY <1>6 DEF WorkerSend, RecvFailed, At, Open, OpenAtWork
  <2>2. CASE RecvFailed /\ KindOf[worker.job] \in {"types", "table"}
    <3>1. promise \in [Requests -> Promises] /\ Leave(promise)
      BY <1>0, <2>2 DEF RecvFailed, Promises
    <3>2. ~Open' /\ \A x \in Requests : promise'[x] = IF promise[x] = "pending" THEN "broken" ELSE promise[x]
      BY <3>1, LeaveTypes DEF Open
    <3>3. ServedNow' = ServedNow
      BY <3>2 DEF ServedNow, Finished
    <3> QED BY <1>10, <2>1, <3>2, <3>3
  <2>3. CASE ~(RecvFailed /\ KindOf[worker.job] \in {"types", "table"})
    <3>1. UNCHANGED <<jobs, promise>> /\ worker'.job = worker.job
          /\ (admin' = admin \/ ~admin'.up)
      BY <1>0, <1>6, <2>3 DEF WorkerSend, RecvFailed, Goto, WorkerStates
    <3>2. CASE admin' = admin
      BY <1>1, <1>2, <3>1, <3>2
    <3>3. CASE ~admin'.up
      <4>1. ServedNow' = ServedNow /\ ~Open'
        BY <3>1, <3>3 DEF ServedNow, Finished, Open
      <4> QED BY <1>10, <2>1, <4>1
    <3> QED BY <3>1, <3>2, <3>3
  <2> QED BY <2>2, <2>3
<1>11. CASE Exit
  <2>1. UNCHANGED <<jobs, promise, worker>> /\ ~Open /\ ~Open'
    BY <1>11 DEF Exit, At, Open, OpenAtWork
  <2>2. Open' = Open
    BY <2>1 DEF Open
  <2>3. Line' = Line
    BY <2>1 DEF Line
  <2>4. ServedNow' = ServedNow
    BY <2>1 DEF ServedNow, Finished
  <2> QED BY <1>1, <2>2, <2>3, <2>4
<1>7. CASE \/ SetTrainingStarted \/ SetMemoryUsage \/ SetLastFileResult \/ SetTrainingDone
           \/ RecvDone \/ RecvProgress \/ Master \/ MasterThrows \/ MasterDies \/ UNCHANGED vars
  <2>1. UNCHANGED <<jobs, promise, admin>> /\ worker'.job = worker.job
    BY <1>0, <1>7 DEF SetTrainingStarted, SetMemoryUsage, SetLastFileResult, SetTrainingDone,
         RecvDone, RecvProgress, Goto, WorkerStates, Master, MasterTrain, MasterEpoch,
         MasterTrained, MasterAnswer, MasterThrows, MasterDies, vars
  <2> QED BY <1>1, <1>2, <2>1
<1>8. ASSUME NEW r \in Requests, Handler(r) \/ TableTimeout(r) PROVE UNCHANGED Service!vars
  BY <1>1, <1>2, <1>8 DEF Handler, WriteAccepted, WriteAnswer, TableTimeout
<1>9. ASSUME NEW p \in Pollers, Poll(p) PROVE UNCHANGED Service!vars
  BY <1>1, <1>2, <1>9 DEF Poll, PollLock, PollReply
<1> QED
  BY <1>3, <1>4, <1>5, <1>6, <1>7, <1>8, <1>9, <1>11, <1>12 DEF Next, Worker, Service!Next

(* The handlers, the worker and the master together are the job service:   *)
(* requests are served one by one in the order in which they came, and     *)
(* none is after the service closed.                                       *)
THEOREM ServesInOrder == Spec => IsJobService
<1>1. Init => Service!Init
  <2> SUFFICES ASSUME Init PROVE Service!Init
    OBVIOUS
  <2>1. InHand = <<>> /\ jobs = <<>> /\ admin.up = TRUE /\ ServedNow = {}
    BY DEF Init, Idle, InHand, ServedNow, Finished
  <2>2. Line = <<>>
    BY <2>1, ConcatEmptySeq, EmptySeq DEF Line
  <2>3. Open = TRUE
    BY DEF Init, Open
  <2> QED BY <2>1, <2>2, <2>3 DEF Service!Init, Line, InHand, ServedNow
<1> QED
  BY <1>1, SpecInductive, NextIsService, PTL DEF Spec, IsJobService, Service!Spec

---------------------------------------------------------------------------

(* The positions of what a connection was told besides "accepted".         *)
Told(s) == {i \in DOMAIN s : s[i] # "accepted"}

(* OneAnswer with what keeps it: nothing was told while the thread that    *)
(* will tell it runs, and nothing at all before the request was queued.    *)
(* Only a document's two threads run side by side.                         *)
OneVoiceOf(kind, answered, told, running) ==
  /\ answered = "none" => told = <<>> /\ running = {}
  /\ Cardinality(Told(told)) <= 1
  /\ Told(told) # {} => "waiter" \notin running /\ (kind # "learn" => running = {})
  /\ kind # "learn" => running \in {{}, {"main"}, {"waiter"}}
  /\ kind = "stop" => "waiter" \notin running

OneVoice == \A r \in Requests : OneVoiceOf(KindOf[r], promise[r], replies[r], threads[r])

(* "accepted" tells nothing.                                               *)
LEMMA AcceptedTellsNothing ==
  ASSUME NEW s \in Seq(Responses)
  PROVE  Told(Append(s, "accepted")) = Told(s)
<1>1. DOMAIN s = 1..Len(s) /\ Len(s) \in Nat
  OBVIOUS
<1>2. /\ DOMAIN Append(s, "accepted") = 1..(Len(s) + 1)
      /\ \A i \in 1..Len(s) : Append(s, "accepted")[i] = s[i]
      /\ Append(s, "accepted")[Len(s) + 1] = "accepted"
  BY <1>1
<1> DEFINE t == Append(s, "accepted")
<1>3. \A i : i \in 1..(Len(s) + 1) <=> i \in 1..Len(s) \/ i = Len(s) + 1
  BY <1>1
<1> HIDE DEF t
<1>4. \A i : i \in Told(t) <=> i \in Told(s)
  BY <1>1, <1>2, <1>3 DEF Told, t
<1> QED  BY <1>4 DEF t

(* Writing a response appends a sequence of one.                           *)
LEMMA OneResponse ==
  ASSUME NEW s \in Seq(Responses), NEW x \in Responses
  PROVE  \E t \in Seq(Responses) : Len(t) <= 1 /\ Append(s, x) = s \o t
<1>1. <<x>> \in Seq(Responses) /\ Len(<<x>>) = 1
  OBVIOUS
<1>2. Append(s, x) = s \o <<x>>
  BY AppendIsConcat
<1>3. Len(<<x>>) <= 1
  BY <1>1
<1> QED  BY <1>1, <1>2, <1>3

(* One response after "accepted", or none, is at most one answer.          *)
LEMMA FirstAnswer ==
  ASSUME NEW s \in Seq(Responses), Told(s) = {},
         NEW t \in Seq(Responses), Len(t) <= 1
  PROVE  Cardinality(Told(s \o t)) <= 1
<1>1. /\ DOMAIN s = 1..Len(s) /\ Len(s) \in Nat /\ Len(t) \in Nat
      /\ s \o t \in Seq(Responses) /\ Len(s \o t) = Len(s) + Len(t)
      /\ \A i \in 1..(Len(s) + Len(t)) :
           (s \o t)[i] = IF i <= Len(s) THEN s[i] ELSE t[i - Len(s)]
  BY ConcatProperties
<1> DEFINE u == s \o t
<1>2. \A i \in Told(u) : i = Len(s) + 1
  <2> SUFFICES ASSUME NEW i \in Told(u) PROVE i = Len(s) + 1
    OBVIOUS
  <2>1. i \in 1..(Len(s) + Len(t)) /\ u[i] # "accepted"
    BY <1>1 DEF Told
  <2>2. ~(i <= Len(s))
    <3>1. SUFFICES ASSUME i <= Len(s) PROVE FALSE
      OBVIOUS
    <3>2. i \in DOMAIN s /\ s[i] = u[i]
      BY <1>1, <2>1, <3>1
    <3> QED  BY <2>1, <3>2 DEF Told
  <2> QED  BY <1>1, <2>1, <2>2
<1> HIDE DEF u
<1>3. Told(u) \in SUBSET {Len(s) + 1}
  BY <1>2
<1>4. Cardinality(Told(u)) <= Cardinality({Len(s) + 1}) /\ Cardinality({Len(s) + 1}) = 1
  BY <1>3, FS_Singleton, FS_Subset
<1> QED  BY <1>4 DEF u

(* Every step leaves a connection with one answer.                         *)
LEMMA NextOneVoice == Inductive /\ OneVoice /\ [Next]_vars => OneVoice'
<1> SUFFICES ASSUME Inductive, OneVoice, [Next]_vars PROVE OneVoice'
  OBVIOUS
<1> USE DEF published, socket
<1>0. /\ TypeOK /\ JobAtHand
      /\ promise \in [Requests -> Promises] /\ replies \in [Requests -> Seq(Responses)]
      /\ threads \in [Requests -> SUBSET {"main", "waiter"}]
  BY DEF Inductive, TypeOK, Promises
<1>1. ASSUME UNCHANGED <<threads, replies>>,
             \A r \in Requests : promise'[r] = "none" => promise[r] = "none"
      PROVE  OneVoice'
  BY <1>1 DEF OneVoice, OneVoiceOf, Told
<1>2. ASSUME NEW r \in Requests,
             \A q \in Requests \ {r} : UNCHANGED <<promise[q], replies[q], threads[q]>>,
             OneVoiceOf(KindOf[r], promise'[r], replies'[r], threads'[r])
      PROVE  OneVoice'
  <2>1. \A q \in Requests : OneVoiceOf(KindOf[q], promise'[q], replies'[q], threads'[q])
    <3> SUFFICES ASSUME NEW q \in Requests
                 PROVE  OneVoiceOf(KindOf[q], promise'[q], replies'[q], threads'[q])
      OBVIOUS
    <3>1. CASE q = r
      BY <1>2, <3>1
    <3>2. CASE q # r
      BY <1>2, <3>2 DEF OneVoice
    <3> QED  BY <3>1, <3>2
  <2> QED  BY <2>1 DEF OneVoice, OneVoiceOf, Told
<1>3. ASSUME NEW r \in Requests, Enqueue(r) PROVE OneVoice'
  <2>1. /\ \A q \in Requests \ {r} : UNCHANGED <<promise[q], replies[q], threads[q]>>
        /\ threads'[r] = ThreadsOf(r) /\ replies'[r] = replies[r]
        /\ promise'[r] \in {"pending", "broken"}
    BY <1>0, <1>3 DEF Enqueue
  <2>2. replies[r] = <<>>
    BY <1>3 DEF Enqueue, OneVoice, OneVoiceOf
  <2>3. Told(<<>>) = {} /\ Cardinality(Told(<<>>)) = 0
    BY FS_EmptySet DEF Told
  <2>4. /\ KindOf[r] # "learn" => ThreadsOf(r) \in {{}, {"main"}, {"waiter"}}
        /\ KindOf[r] = "stop" => "waiter" \notin ThreadsOf(r)
    BY DEF ThreadsOf
  <2>5. OneVoiceOf(KindOf[r], promise'[r], <<>>, ThreadsOf(r))
    BY <2>1, <2>3, <2>4 DEF OneVoiceOf
  <2> QED  BY <1>2, <2>1, <2>2, <2>5
<1>4. ASSUME NEW r \in Requests, WriteAccepted(r) PROVE OneVoice'
  <2> DEFINE response == IF KindOf[r] = "stop" THEN "ok" ELSE "accepted"
             left == IF KindOf[r] = "uml" THEN {"waiter"} ELSE threads[r] \ {"main"}
  <2>1. /\ "main" \in threads[r] /\ UNCHANGED promise
        /\ replies' = [replies EXCEPT ![r] = Append(replies[r], response)]
        /\ threads' = [threads EXCEPT ![r] = left]
    BY <1>4 DEF WriteAccepted, Write
  <2>2. /\ \A q \in Requests \ {r} : UNCHANGED <<promise[q], replies[q], threads[q]>>
        /\ threads'[r] = left /\ replies'[r] = Append(replies[r], response)
    <3> HIDE DEF left, response
    <3> QED  BY <1>0, <2>1
  <2>3. /\ replies[r] \in Seq(Responses) /\ threads[r] \in SUBSET {"main", "waiter"}
        /\ OneVoiceOf(KindOf[r], promise[r], replies[r], threads[r])
    BY <1>0 DEF OneVoice
  <2>4. /\ promise'[r] # "none"
        /\ KindOf[r] # "learn" => threads[r] = {"main"} /\ Told(replies[r]) = {}
    BY <2>1, <2>3 DEF OneVoiceOf
  <2>5. CASE KindOf[r] = "stop"
    <3>1. Told(replies[r]) = {} /\ threads'[r] = {}
      BY <2>2, <2>4, <2>5
    <3>2. PICK t \in Seq(Responses) : Len(t) <= 1 /\ replies'[r] = replies[r] \o t
      <4>1. replies'[r] = Append(replies[r], "ok") /\ "ok" \in Responses
        BY <2>2, <2>5 DEF Responses
      <4>2. replies[r] \in Seq(Responses)
        BY <2>3
      <4>3. \E t \in Seq(Responses) : Len(t) <= 1 /\ Append(replies[r], "ok") = replies[r] \o t
        BY ONLY <4>1, <4>2, OneResponse
      <4> QED  BY <4>1, <4>3
    <3>3. Told(replies[r]) = {}
      BY <3>1
    <3>4. Cardinality(Told(replies'[r])) <= 1
      BY <2>3, <3>2, <3>3, FirstAnswer
    <3>5. OneVoiceOf(KindOf[r], promise'[r], replies'[r], {})
      BY <2>4, <3>4 DEF OneVoiceOf
    <3> QED  BY <1>2, <2>2, <3>1, <3>5
  <2>6. CASE KindOf[r] # "stop"
    <3>1. Told(replies'[r]) = Told(replies[r])
      BY <2>2, <2>3, <2>6, AcceptedTellsNothing
    <3>2. CASE KindOf[r] = "learn"
      BY <1>2, <2>2, <2>3, <2>4, <3>1, <3>2 DEF OneVoiceOf
    <3>3. CASE KindOf[r] # "learn"
      <4>1. Told(replies'[r]) = {} /\ threads'[r] \in {{}, {"waiter"}}
        BY <2>2, <2>4, <3>1, <3>3
      <4>2. Cardinality(Told(replies'[r])) <= 1
        BY <4>1, FS_EmptySet
      <4>3. OneVoiceOf(KindOf[r], promise'[r], replies'[r], threads'[r])
        BY <2>4, <2>6, <4>1, <4>2 DEF OneVoiceOf
      <4> QED  BY <1>2, <2>2, <4>3
    <3> QED  BY <3>2, <3>3
  <2> QED  BY <2>5, <2>6
<1>5. ASSUME NEW r \in Requests, NEW t \in Seq(Responses), Len(t) <= 1,
             "waiter" \in threads[r], UNCHANGED promise,
             replies' = [replies EXCEPT ![r] = @ \o t],
             NEW left \in SUBSET (threads[r] \ {"waiter"}),
             threads' = [threads EXCEPT ![r] = left]
      PROVE  OneVoice'
  <2>1. /\ \A q \in Requests \ {r} : UNCHANGED <<promise[q], replies[q], threads[q]>>
        /\ threads'[r] = left /\ replies'[r] = replies[r] \o t
    BY <1>0, <1>5
  <2>2. /\ replies[r] \in Seq(Responses) /\ threads[r] \in SUBSET {"main", "waiter"}
        /\ OneVoiceOf(KindOf[r], promise[r], replies[r], threads[r])
    BY <1>0 DEF OneVoice
  <2>3. /\ Told(replies[r]) = {} /\ KindOf[r] # "stop" /\ promise'[r] # "none"
        /\ KindOf[r] # "learn" => threads[r] = {"waiter"}
    BY <1>5, <2>2 DEF OneVoiceOf
  <2>4. "waiter" \notin left /\ (KindOf[r] # "learn" => left = {})
    BY <1>5, <2>3
  <2>5. Cardinality(Told(replies'[r])) <= 1
    BY <1>5, <2>1, <2>2, <2>3, FirstAnswer
  <2>6. OneVoiceOf(KindOf[r], promise'[r], replies'[r], threads'[r])
    BY <2>1, <2>3, <2>4, <2>5 DEF OneVoiceOf
  <2> QED  BY <1>2, <2>1, <2>6
<1>6. ASSUME NEW r \in Requests, WriteAnswer(r) PROVE OneVoice'
  <2>1. AnswerOf(r) \in Seq(Responses)
    BY <1>0, <1>6, AnswerType DEF WriteAnswer
  <2>2. Len(AnswerOf(r)) <= 1
    <3>1. \/ AnswerOf(r) = <<>>
          \/ \E x : AnswerOf(r) = <<x>>
      BY DEF AnswerOf
    <3>2. CASE AnswerOf(r) = <<>>
      <4>1. Len(<<>>) = 0
        OBVIOUS
      <4> QED  BY <3>2, <4>1
    <3>3. ASSUME NEW x, AnswerOf(r) = <<x>> PROVE Len(AnswerOf(r)) <= 1
      <4>1. Len(<<x>>) = 1
        OBVIOUS
      <4> QED  BY <3>3, <4>1
    <3> QED  BY <3>1, <3>2, <3>3
  <2>3. /\ "waiter" \in threads[r] /\ UNCHANGED promise
        /\ replies' = [replies EXCEPT ![r] = @ \o AnswerOf(r)]
        /\ threads' = [threads EXCEPT ![r] = threads[r] \ {"waiter"}]
    BY <1>6 DEF WriteAnswer
  <2> QED  BY <1>5, <2>1, <2>2, <2>3
<1>7. ASSUME NEW r \in Requests, TableTimeout(r) PROVE OneVoice'
  <2>1. PICK t \in Seq(Responses) :
          Len(t) <= 1 /\ Append(replies[r], "timeout") = replies[r] \o t
    BY <1>0, OneResponse DEF Responses
  <2>2. /\ "waiter" \in threads[r] /\ UNCHANGED promise
        /\ replies' = [replies EXCEPT ![r] = Append(replies[r], "timeout")]
        /\ threads' = [threads EXCEPT ![r] = {}]
    BY <1>7 DEF TableTimeout, Write
  <2>3. replies' = [replies EXCEPT ![r] = @ \o t]
    BY <2>1, <2>2
  <2> QED  BY <1>5, <2>1, <2>2, <2>3
<1>8. ASSUME Dequeue \/ WorkerSend \/ RecvProgress \/ RecvDone \/ SetTrainingStarted
             \/ SetMemoryUsage \/ SetLastFileResult \/ SetTrainingDone \/ Exit \/ Master
             \/ MasterThrows \/ MasterDies \/ UNCHANGED vars
      PROVE  OneVoice'
  BY <1>1, <1>8 DEF Dequeue, WorkerSend, RecvProgress, RecvDone, SetTrainingStarted,
     SetMemoryUsage, SetLastFileResult, SetTrainingDone, Exit, Master, MasterTrain,
     MasterAnswer, MasterEpoch, MasterTrained, MasterThrows, MasterDies, vars
<1>9. CASE Fulfil
  <2>1. UNCHANGED <<threads, replies>>
    BY <1>9 DEF Fulfil
  <2>2. \A r \in Requests : promise'[r] = "none" => promise[r] = "none"
    BY <1>0, <1>9 DEF Fulfil
  <2> QED  BY <1>1, <2>1, <2>2
<1>10. ASSUME NEW p \in [Requests -> Promises], Leave(p), UNCHANGED <<threads, replies>>,
              \A r \in Requests : p[r] = "none" => promise[r] = "none"
       PROVE  OneVoice'
  <2>1. \A r \in Requests : promise'[r] = IF p[r] = "pending" THEN "broken" ELSE p[r]
    BY <1>0, <1>10, LeaveTypes
  <2> QED  BY <1>1, <1>10, <2>1
<1>11. CASE RecvFailed
  <2>1. UNCHANGED <<threads, replies>>
    BY <1>11 DEF RecvFailed
  <2>2. CASE KindOf[worker.job] \in {"types", "table"}
    BY <1>0, <1>10, <1>11, <2>1, <2>2 DEF RecvFailed
  <2>3. CASE KindOf[worker.job] \notin {"types", "table"}
    BY <1>1, <1>11, <2>1, <2>3 DEF RecvFailed
  <2> QED  BY <2>2, <2>3
<1>12. CASE Shutdown
  <2> DEFINE p == [promise EXCEPT ![worker.job] = "value"]
  <2>1. Leave(p) /\ UNCHANGED <<threads, replies>>
    BY <1>12 DEF Shutdown
  <2>2. p \in [Requests -> Promises]
    BY <1>0 DEF Promises
  <2>3. \A r \in Requests : p[r] = "none" => promise[r] = "none"
    BY <1>0
  <2> HIDE DEF p
  <2> QED  BY <1>10, <2>1, <2>2, <2>3
<1>13. ASSUME NEW p \in Pollers, Poll(p) PROVE OneVoice'
  BY <1>1, <1>13 DEF Poll, PollLock, PollReply
<1> QED
  BY <1>3, <1>4, <1>6, <1>7, <1>8, <1>9, <1>11, <1>12, <1>13 DEF Next, Handler, Worker

(* A connection is never told two things: a table that arrives after its   *)
(* 504, or an error after an answer, is never written.                     *)
THEOREM AnswersOnce == Spec => []OneAnswer
<1>1. Init => OneVoice
  <2> SUFFICES ASSUME Init PROVE OneVoice
    OBVIOUS
  <2>1. Told(<<>>) = {} /\ Cardinality(Told(<<>>)) = 0
    BY FS_EmptySet DEF Told
  <2> QED  BY <2>1 DEF Init, OneVoice, OneVoiceOf
<1>2. OneVoice => OneAnswer
  BY DEF OneVoice, OneVoiceOf, OneAnswer, Told
<1> QED  BY <1>1, <1>2, NextOneVoice, SpecInductive, PTL DEF Spec

(* The upload whose end is about to be published has its memory published. *)
MemoryAtHand ==
  worker.pc \in {"result", "finish"} /\ KindOf[worker.job] = "learn" => memory = worker.job

(* A poll that finds "training":false after a document's training reads    *)
(* the memory usage of that document.                                      *)
THEOREM MemoryIsFirst == Spec => MemoryBeforeDone
<1> DEFINE Published == training /\ ~training' /\ KindOf[worker.job] = "learn"
                          => memory' = worker.job
<1>1. Init => MemoryAtHand
  BY DEF Init, Idle, MemoryAtHand
<1>2. ASSUME Inductive, MemoryAtHand, [Next]_vars PROVE MemoryAtHand' /\ Published
  <2> USE DEF published, socket
  <2>0. worker \in WorkerStates /\ JobAtHand /\ training \in BOOLEAN
    BY <1>2 DEF Inductive, TypeOK
  <2>1. CASE UNCHANGED <<worker, training, memory>>
    BY <1>2, <2>1 DEF MemoryAtHand
  <2>2. CASE Dequeue \/ WorkerSend \/ SetTrainingStarted \/ RecvDone \/ Fulfil
    <3>1. worker'.pc \notin {"result", "finish"} \/ KindOf[worker'.job] # "learn"
      <4>1. CASE Dequeue
        <5>1. FirstStep(Head(jobs)) \in {"start", "stop", "send"}
          BY DEF FirstStep
        <5> QED  BY <2>0, <4>1, <5>1 DEF Dequeue, WorkerStates
      <4>2. CASE WorkerSend
        BY <2>0, <4>2 DEF WorkerSend, Goto, At, WorkerStates
      <4>3. CASE SetTrainingStarted
        BY <2>0, <4>3 DEF SetTrainingStarted, Goto, WorkerStates
      <4>4. CASE RecvDone
        BY <2>0, <4>4 DEF RecvDone, WorkerStates
      <4>5. CASE Fulfil
        BY <4>5 DEF Fulfil, Idle
      <4> QED  BY <2>2, <4>1, <4>2, <4>3, <4>4, <4>5
    <3>2. training => training'
      BY <2>2 DEF Dequeue, WorkerSend, SetTrainingStarted, RecvDone, Fulfil
    <3> QED  BY <3>1, <3>2 DEF MemoryAtHand
  <2>3. CASE RecvProgress
    BY <1>2, <2>3 DEF RecvProgress, MemoryAtHand
  <2>4. CASE SetMemoryUsage
    BY <2>0, <2>4 DEF SetMemoryUsage, Goto, MemoryAtHand, WorkerStates
  <2>5. CASE SetLastFileResult
    BY <1>2, <2>0, <2>5 DEF SetLastFileResult, Goto, At, MemoryAtHand, WorkerStates
  <2>6. CASE SetTrainingDone
    BY <1>2, <2>0, <2>6 DEF SetTrainingDone, Goto, At, MemoryAtHand, WorkerStates
  <2>7. CASE RecvFailed \/ Shutdown
    <3>1. UNCHANGED training
      BY <2>7 DEF RecvFailed, Shutdown
    <3>2. worker'.pc \notin {"result", "finish"} \/ KindOf[worker'.job] # "learn"
      BY <2>0, <2>7 DEF RecvFailed, Shutdown, Leave, Idle, WorkerStates
    <3> QED  BY <3>1, <3>2 DEF MemoryAtHand
  <2>8. CASE Exit \/ Master \/ MasterThrows \/ MasterDies \/ UNCHANGED vars
    BY <2>1, <2>8 DEF Exit, Master, MasterTrain, MasterAnswer, MasterEpoch, MasterTrained, MasterThrows,
                      MasterDies, vars
  <2>9. ASSUME NEW r \in Requests, Enqueue(r) \/ Handler(r) \/ TableTimeout(r)
        PROVE  MemoryAtHand' /\ Published
    BY <2>1, <2>9 DEF Enqueue, Handler, WriteAccepted, WriteAnswer, TableTimeout
  <2>10. ASSUME NEW p \in Pollers, Poll(p) PROVE MemoryAtHand' /\ Published
    BY <2>1, <2>10 DEF Poll, PollLock, PollReply
  <2> QED
    BY <1>2, <2>2, <2>3, <2>4, <2>5, <2>6, <2>7, <2>8, <2>9, <2>10 DEF Next, Worker
<1>3. Spec => []MemoryAtHand
  <2>1. Inductive /\ MemoryAtHand /\ [Next]_vars => MemoryAtHand'
    BY <1>2
  <2> QED  BY <1>1, <2>1, SpecInductive, PTL DEF Spec
<1>4. Inductive /\ MemoryAtHand /\ [Next]_vars => Published
  BY <1>2
<1>5. Spec => [][Published]_vars
  BY <1>3, <1>4, SpecInductive, PTL DEF Spec
<1> QED  BY <1>5 DEF MemoryBeforeDone

-----------------------------------------------------------------------------
(* The page.                                                               *)

(* The page is at one of its files until it is through with all of them.   *)
AtAFile == page.at \in {"submit", "response", "poll", "polled"} => page.file \in DOMAIN Files

(* The upload's result is on its way no longer: it was published, or will  *)
(* not be.                                                                 *)
Past(r) == /\ KindOf[r] = "learn" /\ promise[r] # "none" /\ r \notin Queued
           /\ r = worker.job => worker.pc \in {"finish", "fulfil"}

PastUploads == {r \in Requests : Past(r)}

Telling(result) == result \in {"PARTIAL", "DUPLICATE"}

(* The page has a reply and has not looked at it.                          *)
ReplyAtHand ==
  page.at = "polled" /\ polling[PagePoll].at = "replied" /\ Telling(polling[PagePoll].result)

(* A result that tells of duplicates is shown, or kept for the next poll,  *)
(* or in the page's reply, and each stems from an upload of its own.       *)
Owned(owner, kept, replied) ==
  /\ \A f \in ShownResults : /\ owner[f] \in PastUploads
                             /\ StatusOf(outcome[owner[f]]) = shown[f]
                             /\ \A g \in ShownResults : owner[f] = owner[g] => f = g
  /\ Telling(fileResult) => /\ kept \in PastUploads /\ outcome[kept] = fileResult
                            /\ \A f \in ShownResults : owner[f] # kept
  /\ ReplyAtHand => /\ replied \in PastUploads
                    /\ outcome[replied] = polling[PagePoll].result
                    /\ \A f \in ShownResults : owner[f] # replied
  /\ Telling(fileResult) /\ ReplyAtHand => kept # replied

ResultsAreOwned ==
  \E owner \in [FileRequests -> Requests],
     kept \in Requests \cup {None}, replied \in Requests \cup {None} :
       Owned(owner, kept, replied)
LEMMA FilesAreUploads ==
  /\ FileRequests \subseteq Requests /\ DOMAIN Files = 1..Len(Files) /\ Len(Files) \in Nat
  /\ \A i \in 1..Len(Files) : Files[i] \in FileRequests /\ KindOf[Files[i]] = "learn"
BY PageConstants DEF FileRequests

(* The page takes the server through steps of the server's own.            *)
LEMMA PageStepsAreServers == AtAFile /\ [PageNext]_allVars => [Next]_vars
<1> SUFFICES ASSUME AtAFile, [PageNext]_allVars PROVE [Next]_vars
  OBVIOUS
<1>1. CASE Submit
  <2>1. File \in Requests
    BY <1>1, FilesAreUploads DEF Submit, AtAFile, File
  <2> QED  BY <1>1, <2>1 DEF Submit, Next
<1>2. CASE AskProgress
  BY <1>2, PageConstants DEF AskProgress, Next, Poll
<1>3. CASE SubmitFails \/ TakeResponse \/ TakeProgress \/ ProgressFails \/ UNCHANGED allVars
  BY <1>3 DEF SubmitFails, TakeResponse, TakeProgress, ProgressFails, allVars
<1>4. CASE OtherStep
  BY <1>4, PageConstants DEF OtherStep, Next, Poll
<1> QED  BY <1>1, <1>2, <1>3, <1>4 DEF PageNext, PageStep

(* What is past stays past, and its result what it is.                     *)
LEMMA PastStays ==
  ASSUME Inductive, [Next]_vars, NEW r \in Requests, Past(r)
  PROVE  Past(r)' /\ outcome'[r] = outcome[r]
<1>1. /\ TypeOK /\ JobAtHand /\ Stream /\ None \notin Requests
      /\ KindOf[r] = "learn" /\ promise[r] # "none" /\ r \notin Queued
      /\ r = worker.job => worker.pc \in {"finish", "fulfil"}
  BY PipelineConstants DEF Inductive, Past, PipelineConstants
<1>2. /\ worker \in WorkerStates /\ jobs \in Seq(Requests) /\ toMaster \in Seq(Requests)
      /\ promise \in [Requests -> {"none", "pending", "value", "duplicate", "exception", "broken"}]
      /\ outcome \in [Requests -> Results \cup {"none"}]
  BY <1>1 DEF TypeOK
<1> USE DEF socket, published
<1>3. ASSUME NEW q \in Requests, Enqueue(q) PROVE Past(r)' /\ outcome'[r] = outcome[r]
  <2>1. PICK v \in {"pending", "broken"} : promise' = [promise EXCEPT ![q] = v]
    BY <1>3 DEF Enqueue
  <2>2. r # q /\ UNCHANGED <<worker, outcome>> /\ jobs' \in {jobs, Append(jobs, q)}
    BY <1>1, <1>3 DEF Enqueue
  <2>3. \A i \in DOMAIN jobs' : jobs'[i] \in Queued \cup {q}
    BY <1>2, <2>2 DEF Queued
  <2>4. r \notin Queued'
    BY <1>1, <2>2, <2>3 DEF Queued
  <2> QED  BY <1>1, <1>2, <2>1, <2>2, <2>4 DEF Past
<1>4. CASE Dequeue
  <2>1. /\ jobs # <<>> /\ jobs' = Tail(jobs) /\ UNCHANGED <<promise, outcome>>
        /\ worker' = [worker EXCEPT !.pc = FirstStep(Head(jobs)), !.job = Head(jobs)]
    BY <1>4 DEF Dequeue
  <2>2. Head(jobs) \in Queued /\ \A i \in DOMAIN Tail(jobs) : Tail(jobs)[i] \in Queued
    BY <1>2, <2>1, HeadTailProperties DEF Queued
  <2>3. worker'.job = Head(jobs)
    BY <1>2, <2>1 DEF WorkerStates
  <2>4. r \notin Queued'
    BY <1>1, <2>1, <2>2 DEF Queued
  <2> QED  BY <1>1, <2>1, <2>2, <2>3, <2>4 DEF Past
<1>5. CASE WorkerSend \/ SetTrainingStarted \/ RecvProgress \/ RecvDone
           \/ SetMemoryUsage \/ SetLastFileResult \/ SetTrainingDone
  <2>1. /\ UNCHANGED <<jobs, promise, outcome>> /\ worker'.job = worker.job
        /\ worker.pc \notin {"finish", "fulfil"} \/ worker'.pc = "fulfil"
    BY <1>2, <1>5 DEF WorkerSend, SetTrainingStarted, RecvProgress, RecvDone, SetMemoryUsage,
       SetLastFileResult, SetTrainingDone, Goto, At, WorkerStates
  <2> QED  BY <1>1, <2>1 DEF Past, Queued
<1>6. CASE Fulfil
  <2>1. UNCHANGED <<jobs, outcome>> /\ worker'.job = None
    BY <1>6 DEF Fulfil, Idle
  <2>2. promise'[r] # "none"
    <3>1. \E v \in {"duplicate", "exception", "value"} :
            promise' = [promise EXCEPT ![worker.job] = v]
      BY <1>6, Zenon DEF Fulfil
    <3> QED  BY <1>1, <1>2, <3>1
  <2> QED  BY <1>1, <2>1, <2>2 DEF Past, Queued
<1>7. CASE RecvFailed \/ Shutdown
  <2>1. UNCHANGED outcome
    BY <1>7 DEF RecvFailed, Shutdown
  <2>2. ASSUME NEW p \in [Requests -> {"none", "pending", "value", "duplicate", "exception", "broken"}],
               Leave(p), p[r] # "none"
        PROVE  Past(r)'
    <3>1. jobs' = <<>> /\ worker'.job = None /\ promise'[r] # "none"
      BY <2>2 DEF Leave, Idle
    <3> QED  BY <1>1, <3>1 DEF Past, Queued
  <2>3. CASE Shutdown
    <3>1. [promise EXCEPT ![worker.job] = "value"][r] # "none"
      BY <1>1, <1>2
    <3>2. [promise EXCEPT ![worker.job] = "value"]
            \in [Requests -> {"none", "pending", "value", "duplicate", "exception", "broken"}]
      BY <1>2
    <3> QED  BY <2>1, <2>2, <2>3, <3>1, <3>2 DEF Shutdown
  <2>4. CASE RecvFailed /\ KindOf[worker.job] \in {"types", "table"}
    BY <1>1, <1>2, <2>1, <2>2, <2>4 DEF RecvFailed
  <2>5. CASE RecvFailed /\ KindOf[worker.job] \notin {"types", "table"}
    <3>1. /\ UNCHANGED <<jobs, promise>> /\ worker.pc = "recv" /\ worker'.job = worker.job
      BY <1>2, <2>5 DEF RecvFailed, At, WorkerStates
    <3> QED  BY <1>1, <2>1, <3>1 DEF Past, Queued
  <2> QED  BY <1>7, <2>3, <2>4, <2>5
<1>8. ASSUME NEW x, MasterTrain(x) \/ MasterAnswer(x)
      PROVE  Past(r)' /\ outcome'[r] = outcome[r]
  <2>1. /\ master.up /\ toMaster # <<>> /\ outcome' = [outcome EXCEPT ![Head(toMaster)] = x]
        /\ UNCHANGED <<jobs, promise, worker>>
    BY <1>8 DEF MasterTrain, MasterAnswer, Serving
  <2>2. Head(toMaster) = worker.job /\ InTransit
    <3>1. Head(toMaster) = toMaster[1] /\ 1 \in DOMAIN toMaster
      BY <1>2, <2>1
    <3> QED  BY <1>1, <2>1, <3>1 DEF Stream
  <2>3. r # worker.job
    BY <1>1, <2>2 DEF InTransit
  <2> QED  BY <1>1, <1>2, <2>1, <2>2, <2>3 DEF Past, Queued
<1>9. CASE Exit \/ MasterEpoch \/ MasterTrained \/ MasterThrows \/ MasterDies \/ UNCHANGED vars
  <2>1. UNCHANGED <<jobs, promise, worker, outcome>>
    BY <1>9 DEF Exit, MasterEpoch, MasterTrained, MasterThrows, MasterDies, vars
  <2> QED  BY <1>1, <2>1 DEF Past, Queued
<1>10. ASSUME NEW q \in Requests, Handler(q) \/ TableTimeout(q)
       PROVE  Past(r)' /\ outcome'[r] = outcome[r]
  <2>1. UNCHANGED <<jobs, promise, worker, outcome>>
    BY <1>10 DEF Handler, WriteAccepted, WriteAnswer, TableTimeout
  <2> QED  BY <1>1, <2>1 DEF Past, Queued
<1>11. ASSUME NEW p \in Pollers, Poll(p) PROVE Past(r)' /\ outcome'[r] = outcome[r]
  <2>1. UNCHANGED <<jobs, promise, worker, outcome>>
    BY <1>11 DEF Poll, PollLock, PollReply
  <2> QED  BY <1>1, <2>1 DEF Past, Queued
<1> QED
  BY <1>3, <1>4, <1>5, <1>6, <1>7, <1>8, <1>9, <1>10, <1>11 DEF Next, Worker, Master

(* A result is published once, by the worker whose upload it is of.        *)
LEMMA PublishedIsPast ==
  ASSUME Inductive, SetLastFileResult
  PROVE  /\ worker.job \in Requests /\ ~Past(worker.job) /\ Past(worker.job)'
         /\ UNCHANGED outcome
         /\ Telling(fileResult') => outcome[worker.job] = fileResult'
<1>1. /\ TypeOK /\ JobAtHand /\ ResultAtHand /\ EveryPromiseIsHeld
      /\ None \notin Requests
  BY PipelineConstants DEF Inductive, PipelineConstants
<1>2. /\ worker.pc = "result" /\ fileResult' = worker.result /\ worker' = [worker EXCEPT !.pc = "finish"]
      /\ UNCHANGED <<jobs, promise, outcome>>
  BY DEF SetLastFileResult, At, Goto
<1>3. worker \in WorkerStates
  BY <1>1 DEF TypeOK
<1>4. worker.job \in Requests /\ worker'.job = worker.job /\ worker'.pc = "finish"
  BY <1>1, <1>2, <1>3 DEF WorkerStates, JobAtHand
<1>5. KindOf[worker.job] = "learn" /\ promise[worker.job] = "pending"
  BY <1>1, <1>2 DEF JobAtHand, ResultAtHand
<1>6. worker.job \notin Queued
  BY <1>1, <1>4 DEF EveryPromiseIsHeld, Taken
<1>7. Telling(fileResult') => outcome[worker.job] = fileResult'
  BY <1>1, <1>2 DEF ResultAtHand, Telling
<1> QED  BY <1>2, <1>4, <1>5, <1>6, <1>7 DEF Past, Queued

-----------------------------------------------------------------------------
(* The page's own state.                                                   *)
LEMMA PageTypes ==
  ASSUME PageTypeOK, AtAFile, [PageNext]_allVars
  PROVE  PageTypeOK' /\ AtAFile'
<1> DEFINE Places == {"submit", "response", "poll", "polled", "last", "lastPolled", "finished"}
           Marks  == {"pending", "processing", "success", "partial", "warning", "error"}
<1>1. /\ page \in [at : Places, file : 1..(Len(Files) + 1)]
      /\ shown \in [FileRequests -> Marks]
      /\ Len(Files) \in Nat /\ DOMAIN Files = 1..Len(Files)
  BY FilesAreUploads DEF PageTypeOK
<1>2. /\ \A x : StatusOf(x) \in {"success", "partial", "warning"}
      /\ \A m \in Marks : Show(m) => shown' \in [FileRequests -> Marks]
  BY <1>1 DEF StatusOf, Show
<1>3. Proceed /\ page.at \in {"submit", "response", "poll", "polled"}
        => page' \in [at : Places, file : 1..(Len(Files) + 1)] /\ AtAFile'
  <2> SUFFICES ASSUME Proceed, page.at \in {"submit", "response", "poll", "polled"}
               PROVE  page' \in [at : Places, file : 1..(Len(Files) + 1)] /\ AtAFile'
    OBVIOUS
  <2>1. page.file \in 1..Len(Files)
    BY <1>1 DEF AtAFile
  <2>2. CASE page.file < Len(Files)
    BY <1>1, <2>1, <2>2 DEF Proceed, AtAFile
  <2>3. CASE ~(page.file < Len(Files))
    BY <1>1, <2>1, <2>3 DEF Proceed, AtAFile
  <2> QED  BY <2>2, <2>3
<1>4. ASSUME NEW a \in Places, page' = [page EXCEPT !.at = a],
             a \in {"submit", "response", "poll", "polled"}
               => page.at \in {"submit", "response", "poll", "polled"}
      PROVE  page' \in [at : Places, file : 1..(Len(Files) + 1)] /\ AtAFile'
  BY <1>1, <1>4 DEF AtAFile
<1>5. CASE Submit
  <2>1. page.at = "submit" /\ page' = [page EXCEPT !.at = "response"] /\ Show("processing")
    BY <1>5 DEF Submit
  <2> QED  BY <1>2, <1>4, <2>1 DEF PageTypeOK
<1>6. CASE SubmitFails
  BY <1>2, <1>3, <1>6 DEF SubmitFails, PageTypeOK
<1>7. CASE TakeResponse
  <2>1. page.at = "response"
    BY <1>7 DEF TakeResponse
  <2>2. CASE page' = [page EXCEPT !.at = "poll"] /\ UNCHANGED shown
    BY <1>1, <1>4, <2>1, <2>2 DEF PageTypeOK
  <2>3. CASE Show("error") /\ Proceed
    BY <1>2, <1>3, <2>1, <2>3 DEF PageTypeOK
  <2> QED  BY <1>7, <2>2, <2>3 DEF TakeResponse
<1>8. CASE AskProgress
  <2>1. /\ \/ page.at = "poll" /\ page' = [page EXCEPT !.at = "polled"]
           \/ page.at = "last" /\ page' = [page EXCEPT !.at = "lastPolled"]
        /\ UNCHANGED shown
    BY <1>8 DEF AskProgress
  <2> QED  BY <1>1, <1>4, <2>1 DEF PageTypeOK
<1>9. CASE TakeProgress
  <2>1. CASE page.at = "polled" /\ page' = [page EXCEPT !.at = "poll"] /\ UNCHANGED shown
    BY <1>1, <1>4, <2>1 DEF PageTypeOK
  <2>2. CASE page.at = "polled" /\ Show(StatusOf(polling[PagePoll].result)) /\ Proceed
    BY <1>2, <1>3, <2>2 DEF PageTypeOK
  <2>3. CASE page' = [page EXCEPT !.at = "finished"] /\ UNCHANGED shown
    BY <1>1, <1>4, <2>3 DEF PageTypeOK
  <2> QED  BY <1>9, <2>1, <2>2, <2>3 DEF TakeProgress
<1>10. CASE ProgressFails
  <2>1. /\ \/ page.at = "polled" /\ page' = [page EXCEPT !.at = "poll"]
           \/ page' = [page EXCEPT !.at = "finished"]
        /\ UNCHANGED shown
    BY <1>10 DEF ProgressFails
  <2> QED  BY <1>1, <1>4, <2>1 DEF PageTypeOK
<1>11. CASE OtherStep \/ UNCHANGED allVars
  BY <1>1, <1>11 DEF OtherStep, allVars, pageVars, PageTypeOK, AtAFile
<1> QED
  BY <1>5, <1>6, <1>7, <1>8, <1>9, <1>10, <1>11 DEF PageNext, PageStep

(* Steps that publish, take or show nothing keep every owner.              *)
LEMMA OwnersKept ==
  ASSUME Inductive, [Next]_vars, NEW o, NEW k, NEW q, Owned(o, k, q),
         \A f \in ShownResults' : f \in ShownResults /\ shown'[f] = shown[f],
         Telling(fileResult') => fileResult' = fileResult,
         ReplyAtHand' => ReplyAtHand /\ polling'[PagePoll].result = polling[PagePoll].result
  PROVE  Owned(o, k, q)'
<1>1. \A r \in PastUploads : r \in PastUploads' /\ outcome'[r] = outcome[r]
  BY PastStays DEF PastUploads
<1>2. \A f \in ShownResults' :
        /\ o[f] \in PastUploads' /\ StatusOf(outcome'[o[f]]) = shown'[f]
        /\ \A g \in ShownResults' : o[f] = o[g] => f = g
  BY <1>1 DEF Owned
<1>3. Telling(fileResult') => /\ k \in PastUploads' /\ outcome'[k] = fileResult'
                              /\ \A f \in ShownResults' : o[f] # k
  BY <1>1 DEF Owned
<1>4. ReplyAtHand' => /\ q \in PastUploads' /\ outcome'[q] = polling'[PagePoll].result
                      /\ \A f \in ShownResults' : o[f] # q
  BY <1>1 DEF Owned
<1>5. Telling(fileResult') /\ ReplyAtHand' => k # q
  BY DEF Owned
<1> QED  BY <1>2, <1>3, <1>4, <1>5 DEF Owned, StatusOf, Telling

LEMMA OwnersNext ==
  ASSUME Inductive, PageTypeOK, AtAFile, ResultsAreOwned, [PageNext]_allVars
  PROVE  ResultsAreOwned'
<1>1. [Next]_vars
  BY PageStepsAreServers
<1>2. PICK o \in [FileRequests -> Requests], k \in Requests \cup {None}, q \in Requests \cup {None} :
        Owned(o, k, q)
  BY DEF ResultsAreOwned
<1>3. /\ shown \in [FileRequests -> {"pending", "processing", "success", "partial",
                                     "warning", "error"}]
      /\ page.at \in {"submit", "response", "poll", "polled", "last", "lastPolled", "finished"}
      /\ polling \in [Pollers -> PollStates] /\ PagePoll \in Pollers
  BY PageConstants DEF PageTypeOK, Inductive, TypeOK
<1>4. ASSUME \A f \in ShownResults' : f \in ShownResults /\ shown'[f] = shown[f],
             Telling(fileResult') => fileResult' = fileResult,
             ReplyAtHand' => ReplyAtHand /\ polling'[PagePoll].result = polling[PagePoll].result
      PROVE  ResultsAreOwned'
  BY <1>1, <1>2, <1>4, OwnersKept DEF ResultsAreOwned
<1>5. ASSUME NEW m \in {"processing", "error"}, Show(m)
      PROVE  \A f \in ShownResults' : f \in ShownResults /\ shown'[f] = shown[f]
  BY <1>3, <1>5 DEF ShownResults, Show
<1>6. UNCHANGED shown => \A f \in ShownResults' : f \in ShownResults /\ shown'[f] = shown[f]
  BY DEF ShownResults
<1>7. CASE Submit
  <2>1. Show("processing") /\ page'.at # "polled" /\ UNCHANGED fileResult
    BY <1>3, <1>7 DEF Submit, Enqueue, published, PageTypeOK
  <2> QED  BY <1>4, <1>5, <2>1 DEF ReplyAtHand
<1>8. CASE SubmitFails \/ TakeResponse
  <2>1. /\ Show("error") \/ UNCHANGED shown
        /\ page'.at # "polled" /\ UNCHANGED fileResult
    BY <1>3, <1>8 DEF SubmitFails, TakeResponse, Proceed, vars, published, PageTypeOK
  <2> QED  BY <1>4, <1>5, <1>6, <2>1 DEF ReplyAtHand
<1>9. CASE AskProgress
  <2>1. polling'[PagePoll].at = "locked" /\ UNCHANGED <<shown, fileResult>>
    BY <1>3, <1>9 DEF AskProgress, PollLock, published
  <2> QED  BY <1>4, <1>6, <2>1 DEF ReplyAtHand
<1>10. CASE ProgressFails
  <2>1. page'.at # "polled" /\ UNCHANGED <<shown, fileResult>>
    BY <1>3, <1>10 DEF ProgressFails, vars, published, PageTypeOK
  <2> QED  BY <1>4, <1>6, <2>1 DEF ReplyAtHand
<1>11. CASE TakeProgress
  <2>1. UNCHANGED vars /\ polling[PagePoll].at = "replied"
    BY <1>11 DEF TakeProgress
  <2>2. CASE UNCHANGED shown /\ page'.at # "polled"
    BY <1>4, <1>6, <2>1, <2>2 DEF ReplyAtHand, vars, published
  <2>3. CASE page.at = "polled" /\ Show(StatusOf(polling[PagePoll].result)) /\ Proceed
    <3> DEFINE result == polling[PagePoll].result
    <3>1. page'.at # "polled"
      BY <2>3 DEF Proceed
    <3>2. /\ UNCHANGED <<fileResult, outcome, promise, worker, jobs>>
          /\ PastUploads' = PastUploads
      BY <2>1 DEF vars, PastUploads, Past, Queued
    <3>3. /\ \A f \in FileRequests \ {File} : shown'[f] = shown[f]
          /\ File \in FileRequests => shown'[File] = StatusOf(result)
      BY <1>3, <2>3 DEF Show
    <3>4. CASE Telling(result)
      <4>1. /\ q \in PastUploads /\ outcome[q] = result
            /\ \A f \in ShownResults : o[f] # q
            /\ Telling(fileResult) => k # q
        BY <1>2, <2>1, <2>3, <3>4 DEF Owned, ReplyAtHand
      <4>2. PICK p \in [FileRequests -> Requests] :
              p = [f \in FileRequests |-> IF f = File THEN q ELSE o[f]]
        BY <4>1 DEF PastUploads
      <4>3. \A f \in ShownResults' : f \in FileRequests /\ (f # File => f \in ShownResults)
        BY <3>3 DEF ShownResults
      <4>4. \A f \in ShownResults' : /\ p[f] \in PastUploads
                                     /\ StatusOf(outcome[p[f]]) = shown'[f]
        BY <1>2, <3>3, <4>1, <4>2, <4>3 DEF Owned
      <4>5. \A f, g \in ShownResults' : p[f] = p[g] => f = g
        BY <1>2, <4>1, <4>2, <4>3 DEF Owned
      <4>6. Telling(fileResult) => /\ k \in PastUploads /\ outcome[k] = fileResult
                                   /\ \A f \in ShownResults' : p[f] # k
        BY <1>2, <4>1, <4>2, <4>3 DEF Owned
      <4>7. Owned(p, k, q)'
        BY <3>1, <3>2, <4>4, <4>5, <4>6 DEF Owned, ReplyAtHand, StatusOf, Telling
      <4> QED  BY <1>2, <4>7 DEF ResultsAreOwned
    <3>5. CASE ~Telling(result)
      <4>1. StatusOf(result) = "success"
        BY <3>5 DEF StatusOf, Telling
      <4>2. \A f \in ShownResults' : f \in ShownResults /\ shown'[f] = shown[f]
        BY <3>3, <4>1 DEF ShownResults
      <4> QED  BY <1>4, <3>1, <3>2, <4>2 DEF ReplyAtHand
    <3> QED  BY <3>4, <3>5
  <2>4. CASE page'.at = "poll" \/ page'.at = "finished"
    BY <1>4, <1>6, <2>1, <2>2, <2>3, <2>4, <1>11 DEF TakeProgress
  <2> QED  BY <1>3, <1>11, <2>2, <2>3 DEF TakeProgress, PageTypeOK
<1>12. CASE OtherStep
  <2>1. UNCHANGED <<page, shown>>
    BY <1>12 DEF OtherStep, pageVars
  <2>2. ShownResults' = ShownResults /\ \A f \in ShownResults : shown'[f] = shown[f]
    BY <2>1 DEF ShownResults
  <2>3. CASE UNCHANGED <<fileResult, polling>>
    BY <1>4, <2>1, <2>2, <2>3 DEF ReplyAtHand
  <2>4. ASSUME NEW p \in Pollers \ {PagePoll}, Poll(p) PROVE ResultsAreOwned'
    <3>1. /\ polling'[PagePoll] = polling[PagePoll]
          /\ fileResult' \in {fileResult, "OK"}
      BY <1>3, <2>4 DEF Poll, PollLock, PollReply, published
    <3> QED  BY <1>4, <2>1, <2>2, <3>1 DEF ReplyAtHand, Telling
  <2>5. CASE SetLastFileResult
    <3>1. PICK w \in Requests :
            /\ w \notin PastUploads /\ w \in PastUploads'
            /\ UNCHANGED <<outcome, polling>>
            /\ Telling(fileResult') => outcome[w] = fileResult'
      <4>1. worker'.job = worker.job
        BY <2>5 DEF SetLastFileResult, Goto, At, Inductive, TypeOK, WorkerStates
      <4> QED  BY <2>5, <4>1, PublishedIsPast DEF PastUploads, SetLastFileResult
    <3>2. \A r \in PastUploads : r \in PastUploads'
      BY <1>1, PastStays DEF PastUploads
    <3>3. ReplyAtHand' = ReplyAtHand
      BY <2>1, <3>1 DEF ReplyAtHand, Telling
    <3>4. \A f \in ShownResults' : /\ o[f] \in PastUploads' /\ o[f] # w
                                   /\ StatusOf(outcome'[o[f]]) = shown'[f]
                                   /\ \A g \in ShownResults' : o[f] = o[g] => f = g
      BY <1>2, <2>2, <3>1, <3>2 DEF Owned
    <3>5. ReplyAtHand' => /\ q \in PastUploads' /\ outcome'[q] = polling'[PagePoll].result
                          /\ q # w /\ \A f \in ShownResults' : o[f] # q
      BY <1>2, <2>2, <3>1, <3>2, <3>3 DEF Owned
    <3>6. Owned(o, w, q)'
      BY <3>1, <3>4, <3>5 DEF Owned, StatusOf, Telling
    <3> QED  BY <1>2, <3>1, <3>6 DEF ResultsAreOwned
  <2>6. CASE PollReply(PagePoll)
    <3>1. /\ polling'[PagePoll].result = fileResult /\ ~Telling(fileResult')
          /\ UNCHANGED <<outcome, promise, worker, jobs>>
      BY <1>3, <2>6 DEF PollReply, Telling, PollStates
    <3>2. PastUploads' = PastUploads
      BY <3>1 DEF PastUploads, Past, Queued
    <3>3. Owned(o, q, k)'
      BY <1>2, <2>2, <3>1, <3>2 DEF Owned, ReplyAtHand, StatusOf, Telling
    <3> QED  BY <1>2, <3>3 DEF ResultsAreOwned
  <2>7. CASE \/ \E r \in Requests \ FileRequests : Enqueue(r)
             \/ \E r \in Requests : Handler(r) \/ TableTimeout(r)
             \/ Master \/ MasterThrows \/ MasterDies
    BY <2>3, <2>7 DEF Enqueue, Handler, WriteAccepted, WriteAnswer, TableTimeout, Master,
       MasterTrain, MasterAnswer, MasterEpoch, MasterTrained, MasterThrows, MasterDies, published
  <2>8. CASE Worker /\ ~SetLastFileResult
    BY <2>3, <2>8 DEF Worker, Dequeue, WorkerSend, RecvProgress, RecvDone, RecvFailed,
       SetTrainingStarted, SetMemoryUsage, SetTrainingDone, Fulfil, Shutdown, Exit, published
  <2> QED  BY <1>12, <2>4, <2>5, <2>6, <2>7, <2>8 DEF OtherStep
<1>13. CASE UNCHANGED allVars
  BY <1>4, <1>6, <1>13 DEF allVars, pageVars, vars, published, ReplyAtHand
<1> QED
  BY <1>7, <1>8, <1>9, <1>10, <1>11, <1>12, <1>13 DEF PageNext, PageStep
-----------------------------------------------------------------------------
LEMMA PageInitially == PageInit => Init /\ PageTypeOK /\ AtAFile /\ ResultsAreOwned
<1> SUFFICES ASSUME PageInit PROVE Init /\ PageTypeOK /\ AtAFile /\ ResultsAreOwned
  OBVIOUS
<1>1. /\ Init
      /\ page = [at |-> IF Files = <<>> THEN "last" ELSE "submit", file |-> 1]
      /\ shown = [r \in FileRequests |-> "pending"]
  BY DEF PageInit
<1>2. Len(Files) \in Nat /\ DOMAIN Files = 1..Len(Files) /\ (Files # <<>> => Len(Files) >= 1)
  BY PageConstants, EmptySeq
<1>3. PageTypeOK /\ AtAFile
  BY <1>1, <1>2 DEF PageTypeOK, AtAFile
<1>4. ShownResults = {} /\ ~Telling(fileResult) /\ ~ReplyAtHand
  BY <1>1 DEF ShownResults, Telling, ReplyAtHand, Init
<1>5. [f \in FileRequests |-> f] \in [FileRequests -> Requests]
  BY FilesAreUploads
<1>6. Owned([f \in FileRequests |-> f], None, None)
  BY <1>4 DEF Owned
<1> QED  BY <1>1, <1>3, <1>5, <1>6 DEF ResultsAreOwned

(* The page's invariant, with the server's.                                *)
PageInductive == Inductive /\ PageTypeOK /\ AtAFile /\ ResultsAreOwned

LEMMA PageSpecInductive == PageSpec => []PageInductive
<1>1. PageInit => PageInductive
  BY PageInitially, InitInductive DEF PageInductive
<1>2. PageInductive /\ [PageNext]_allVars => PageInductive'
  <2> SUFFICES ASSUME PageInductive, [PageNext]_allVars PROVE PageInductive'
    OBVIOUS
  <2>1. [Next]_vars
    BY PageStepsAreServers DEF PageInductive
  <2> QED  BY <2>1, NextInductive, PageTypes, OwnersNext DEF PageInductive
<1> QED  BY <1>1, <1>2, PTL DEF PageSpec

(* UploadPage's type invariant, for any list of files: the index of the    *)
(* file never runs past the list.                                          *)
THEOREM PageTypeCorrect == PageSpec => []PageTypeOK
<1>1. PageInductive => PageTypeOK
  BY DEF PageInductive
<1> QED  BY <1>1, PageSpecInductive, PTL

(* Every duplicate or partial duplicate the page shows was the result of   *)
(* an upload of its own, whoever else uploads and polls: results are never *)
(* made up and none is shown for two files.                                *)
THEOREM ShownResultsAreReal == PageSpec => []ResultsAreReal
<1>1. PageInductive => ResultsAreReal
  <2> SUFFICES ASSUME PageInductive PROVE ResultsAreReal
    OBVIOUS
  <2>1. PICK o \in [FileRequests -> Requests] : \A f \in ShownResults :
          /\ o[f] \in PastUploads /\ StatusOf(outcome[o[f]]) = shown[f]
          /\ \A g \in ShownResults : o[f] = o[g] => f = g
    BY DEF PageInductive, ResultsAreOwned, Owned
  <2> DEFINE owner == [f \in ShownResults |-> o[f]]
  <2>2. owner \in [ShownResults -> {r \in Requests : KindOf[r] = "learn"}]
    BY <2>1 DEF PastUploads, Past
  <2>3. /\ \A f, g \in ShownResults : owner[f] = owner[g] => f = g
        /\ \A f \in ShownResults : StatusOf(outcome[owner[f]]) = shown[f]
    BY <2>1
  <2> HIDE DEF owner
  <2> QED  BY <2>2, <2>3 DEF ResultsAreReal
<1> QED  BY <1>1, PageSpecInductive, PTL
=============================================================================
