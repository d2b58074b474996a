---------------------------- MODULE AdminPipeline ----------------------------
(***************************************************************************)
(* The way of an administrator's request: a handler thread per connection  *)
(* (src/src/admin.cpp) queues a job and waits for its promise; the admin   *)
(* worker (src/src/worker_admin.cpp) takes one job at a time, exchanges    *)
(* messages with the master over a stream socket and fulfils the promise;  *)
(* the master's admin thread (src/src/worker_master.cpp) answers.  GET     *)
(* /progress reads what the worker publishes about training on the way.    *)
(*                                                                         *)
(* A request is one connection.  Its connection carries the responses that *)
(* its threads write, in the order they write them.  A message carries the *)
(* request it is about; the program does not send that, and relies on the  *)
(* two ends staying in step.                                               *)
(***************************************************************************)
EXTENDS Naturals, Sequences, FiniteSets

CONSTANTS
  Requests,      \* the connections that will be made
  KindOf,        \* [Requests -> Kinds]
  Pollers,       \* connections that ask GET /progress, again and again
  Epochs,        \* TRAIN_PROGRESS messages per training
  MasterMayDie,  \* whether the master process may end while the others run
  MasterMayThrow,\* whether its store may throw anything
  None

Kinds == {"learn",    \* POST /           TRAIN
          "uml",      \* POST /train_uml  TRAIN_UML
          "save",     \* POST /serialize  SERIALIZE
          "blocks",   \* GET /list_uml    LIST_UML
          "types",    \* GET /src_types   SRC_TYPES, and LIST_TABLES
          "table",    \* POST /get_table  GET_TABLE
          "stop"}     \* POST /stop       SHUTDOWN

ASSUME PipelineConstants ==
  /\ KindOf \in [Requests -> Kinds]
  /\ Epochs \in Nat /\ MasterMayDie \in BOOLEAN /\ MasterMayThrow \in BOOLEAN
  /\ None \notin Requests \cup Pollers

(* UploadResult of a document; create_uml_container's 0, 1 and 2.          *)
UploadResults == {"OK", "PARTIAL", "DUPLICATE"}
UmlResults    == {"failed", "created", "exists"}

VARIABLES
  threads,   \* per request, which of its threads still run: main, waiter
  replies,   \* per request, the responses written to its connection
  jobs,      \* jobs_: the queue of requests
  promise,   \* per request: none, pending, value, duplicate, exception or broken
  worker,    \* the worker thread: where it is, its job, the result it holds
  admin,     \* the admin process: is it up, and has runChild left its server
  toMaster, fromMaster,   \* the two directions of the socket pair
  master,    \* the master: is it up, does its admin thread serve, the job that
             \*   thread trains, epochs left
  outcome,   \* per request, the result the master computed for it
  training,  \* is_training_
  memory,    \* memory_usage_: the upload after which it was measured
  fileResult,\* last_file_result_, OK standing for 0
  polling    \* per poller: what it read under progress_mtx_, or its reply

vars == <<threads, replies, jobs, promise, worker, admin, toMaster, fromMaster,
          master, outcome, training, memory, fileResult, polling>>

published == <<training, memory, fileResult>>
socket    == <<toMaster, fromMaster>>

(* progress_mtx_ is held by a poll between its two steps, and by the       *)
(* worker only within single steps.                                        *)
ProgressFree == \A p \in Pollers : polling[p].at # "locked"

(* The server accepts connections.                                         *)
Open == admin.up /\ ~admin.stopped

(* The master's admin thread is in its loop.                               *)
Serving == master.up /\ master.serving
-----------------------------------------------------------------------------
(* Handler threads.                                                        *)

(* A request arrives and its job is queued.  post_root starts the waiter   *)
(* before it writes "accepted", post_train_uml after; post_shutdown's      *)
(* waiter writes nothing; the others only wait.                            *)
ThreadsOf(r) == CASE KindOf[r] = "learn"           -> {"main", "waiter"}
                  [] KindOf[r] \in {"uml", "stop"} -> {"main"}
                  [] OTHER                         -> {"waiter"}

(* Mutant of Enqueue: a request to stop goes before all others.            *)
EnqueueStopFirst(r) ==
  /\ Open /\ promise[r] = "none"
  /\ jobs' = IF KindOf[r] = "stop" THEN <<r>> \o jobs ELSE Append(jobs, r)
  /\ promise' = [promise EXCEPT ![r] = "pending"]
  /\ threads' = [threads EXCEPT ![r] = ThreadsOf(r)]
  /\ UNCHANGED <<replies, worker, admin, socket, master, outcome, published, polling>>

(* Nothing in a handler looks at stop_: of a connection accepted before    *)
(* the stop, the job is queued after it, and lost with the queue.          *)
Enqueue(r) ==
  /\ admin.up /\ promise[r] = "none"
  /\ \/ Open  /\ jobs' = Append(jobs, r) /\ promise' = [promise EXCEPT ![r] = "pending"]
     \/ ~Open /\ UNCHANGED jobs         /\ promise' = [promise EXCEPT ![r] = "broken"]
  /\ threads' = [threads EXCEPT ![r] = ThreadsOf(r)]
  /\ UNCHANGED <<replies, worker, admin, socket, master, outcome, published, polling>>

Write(r, response) == replies' = [replies EXCEPT ![r] = Append(@, response)]

(* The handler's own response, "accepted" or "Service stopping...".        *)
WriteAccepted(r) ==
  /\ admin.up /\ "main" \in threads[r]
  /\ Write(r, IF KindOf[r] = "stop" THEN "ok" ELSE "accepted")
  /\ threads' = [threads EXCEPT ![r] = IF KindOf[r] = "uml" THEN {"waiter"}
                                       ELSE @ \ {"main"}]
  /\ UNCHANGED <<jobs, promise, worker, admin, socket, master, outcome, published, polling>>

Thrown(r) == promise[r] \in {"exception", "broken"}

(* Mutant of AnswerOf: the failed future is written as it is.              *)
AnswerUnchecked(r) == <<promise[r]>>

(* future.get() returns or throws.  post_train_uml answers an exception    *)
(* with nothing but a log line, get_src_types and get_list_uml with a      *)
(* default list.                                                           *)
AnswerOf(r) == CASE ~Thrown(r)                        -> <<promise[r]>>
                 [] KindOf[r] = "uml"                 -> <<>>
                 [] KindOf[r] \in {"types", "blocks"} -> <<"default">>
                 [] OTHER                             -> <<"error">>

WriteAnswer(r) ==
  /\ admin.up /\ "waiter" \in threads[r]
  /\ promise[r] \notin {"none", "pending"}
  /\ replies' = [replies EXCEPT ![r] = @ \o AnswerOf(r)]
  /\ threads' = [threads EXCEPT ![r] = @ \ {"waiter"}]
  /\ UNCHANGED <<jobs, promise, worker, admin, socket, master, outcome, published, polling>>

(* Mutant of TableTimeout: the handler goes on after the 504.              *)
TableTimeoutNoReturn(r) ==
  /\ admin.up /\ "waiter" \in threads[r] /\ KindOf[r] = "table"
  /\ promise[r] = "pending" /\ replies[r] = <<>>
  /\ Write(r, "timeout")
  /\ UNCHANGED <<threads, jobs, promise, worker, admin, socket, master, outcome,
                 published, polling>>

(* future.wait_for(10s) gives up: 504.  The job stays queued.              *)
TableTimeout(r) ==
  /\ admin.up /\ "waiter" \in threads[r] /\ KindOf[r] = "table"
  /\ promise[r] = "pending"
  /\ Write(r, "timeout")
  /\ threads' = [threads EXCEPT ![r] = {}]
  /\ UNCHANGED <<jobs, promise, worker, admin, socket, master, outcome, published, polling>>

(* get_progress takes progress_mtx_ and reads what that lock guards, then  *)
(* takes and clears the result, writes and releases the lock.              *)
PollLock(p) ==
  /\ admin.up /\ ProgressFree
  /\ polling' = [polling EXCEPT ![p] =
                   [at |-> "locked", training |-> training,
                    memory |-> IF training THEN None ELSE memory, result |-> "OK"]]
  /\ UNCHANGED <<threads, replies, jobs, promise, worker, admin, socket, master,
                 outcome, published>>

(* Mutant of PollReply: the result is read but not cleared.                *)
PollReplyKeeps(p) ==
  /\ admin.up /\ polling[p].at = "locked"
  /\ polling' = [polling EXCEPT ![p].at = "replied", ![p].result = fileResult]
  /\ UNCHANGED <<threads, replies, jobs, promise, worker, admin, socket, master,
                 outcome, training, memory, fileResult>>

PollReply(p) ==
  /\ admin.up /\ polling[p].at = "locked"
  /\ polling' = [polling EXCEPT ![p].at = "replied", ![p].result = fileResult]
  /\ fileResult' = "OK"
  /\ UNCHANGED <<threads, replies, jobs, promise, worker, admin, socket, master,
                 outcome, training, memory>>
-----------------------------------------------------------------------------
(* The worker thread.                                                      *)
At(pc) == admin.up /\ worker.pc = pc

Goto(pc) == worker' = [worker EXCEPT !.pc = pc]

Idle == [pc |-> "dequeue", job |-> None, result |-> "OK"]

FirstStep(r) == CASE KindOf[r] = "uml"  -> "start"
                  [] KindOf[r] = "stop" -> "stop"
                  [] OTHER              -> "send"

Dequeue ==
  /\ At("dequeue") /\ jobs # <<>>
  /\ jobs' = Tail(jobs)
  /\ worker' = [worker EXCEPT !.pc = FirstStep(Head(jobs)), !.job = Head(jobs)]
  /\ UNCHANGED <<threads, replies, promise, admin, socket, master, outcome,
                 published, polling>>

(* sock.send; a write to a master that is gone kills the process (SIGPIPE).*)
WorkerSend ==
  /\ At("send")
  /\ IF master.up
     THEN /\ toMaster' = Append(toMaster, worker.job)
          /\ Goto(IF KindOf[worker.job] = "learn" THEN "start" ELSE "recv")
          /\ UNCHANGED admin
     ELSE /\ admin' = [admin EXCEPT !.up = FALSE]
          /\ UNCHANGED <<toMaster, worker>>
  /\ UNCHANGED <<threads, replies, jobs, promise, fromMaster, master, outcome,
                 published, polling>>

(* set_training_started: a document's TRAIN was sent before, a TRAIN_UML   *)
(* is sent after.                                                          *)
SetTrainingStarted ==
  /\ At("start") /\ ProgressFree
  /\ training' = TRUE
  /\ Goto(IF KindOf[worker.job] = "uml" THEN "send" ELSE "recv")
  /\ UNCHANGED <<threads, replies, jobs, promise, admin, socket, master, outcome,
                 memory, fileResult, polling>>

RecvProgress ==
  /\ At("recv") /\ fromMaster # <<>> /\ Head(fromMaster).cmd = "progress"
  /\ ProgressFree
  /\ training' = TRUE
  /\ fromMaster' = Tail(fromMaster)
  /\ UNCHANGED <<threads, replies, jobs, promise, worker, admin, toMaster, master,
                 outcome, memory, fileResult, polling>>

(* Mutants of RecvDone: the end of a document's training is published at   *)
(* once, or never.                                                         *)
RecvDoneAt(learnt) ==
  /\ At("recv") /\ fromMaster # <<>> /\ Head(fromMaster).cmd = "done"
  /\ worker' = [worker EXCEPT
       !.pc = CASE KindOf[worker.job] = "learn" -> learnt
                [] KindOf[worker.job] = "uml"   -> "finish"
                [] OTHER                        -> "fulfil",
       !.result = Head(fromMaster).result]
  /\ fromMaster' = Tail(fromMaster)
  /\ UNCHANGED <<threads, replies, jobs, promise, admin, toMaster, master, outcome,
                 published, polling>>
RecvDoneAndFinish == RecvDoneAt("finish")
RecvDoneNoFinish  == RecvDoneAt("fulfil")

(* The last message of a job: results of a TRAIN are published in four     *)
(* steps, those of a TRAIN_UML in two, the others fulfil the promise.      *)
RecvDone ==
  /\ At("recv") /\ fromMaster # <<>> /\ Head(fromMaster).cmd = "done"
  /\ worker' = [worker EXCEPT
       !.pc = CASE KindOf[worker.job] = "learn" -> "memory"
                [] KindOf[worker.job] = "uml"   -> "finish"
                [] OTHER                        -> "fulfil",
       !.result = Head(fromMaster).result]
  /\ fromMaster' = Tail(fromMaster)
  /\ UNCHANGED <<threads, replies, jobs, promise, admin, toMaster, master, outcome,
                 published, polling>>

SetMemoryUsage ==
  /\ At("memory")
  /\ memory' = worker.job
  /\ Goto("result")
  /\ UNCHANGED <<threads, replies, jobs, promise, admin, socket, master, outcome,
                 training, fileResult, polling>>

SetLastFileResult ==
  /\ At("result")
  /\ fileResult' = worker.result
  /\ Goto("finish")
  /\ UNCHANGED <<threads, replies, jobs, promise, admin, socket, master, outcome,
                 training, memory, polling>>

SetTrainingDone ==
  /\ At("finish") /\ ProgressFree
  /\ training' = FALSE
  /\ Goto("fulfil")
  /\ UNCHANGED <<threads, replies, jobs, promise, admin, socket, master, outcome,
                 memory, fileResult, polling>>

(* Mutant of Fulfil: the failure of a container is logged and dropped.     *)
FulfilSuccess ==
  /\ At("fulfil")
  /\ promise' = IF worker.result = "failed" THEN promise
                ELSE [promise EXCEPT ![worker.job] =
                        IF worker.result = "exists" THEN "duplicate" ELSE "value"]
  /\ worker' = Idle
  /\ UNCHANGED <<threads, replies, jobs, admin, socket, master, outcome, published,
                 polling>>

Fulfil ==
  /\ At("fulfil")
  /\ promise' = [promise EXCEPT ![worker.job] =
                   CASE worker.result = "exists" -> "duplicate"
                     [] worker.result = "failed" -> "exception"
                     [] OTHER                    -> "value"]
  /\ worker' = Idle
  /\ UNCHANGED <<threads, replies, jobs, admin, socket, master, outcome, published,
                 polling>>

(* Mutants of RecvFailed: the catch block swallows the error, reports      *)
(* success, or queues the job again.                                       *)
RecvFailedSwallowed ==
  /\ At("recv") /\ fromMaster = <<>> /\ ~master.up
  /\ worker' = Idle
  /\ UNCHANGED <<threads, replies, jobs, promise, admin, socket, master, outcome,
                 published, polling>>

RecvFailedAsSuccess ==
  /\ At("recv") /\ fromMaster = <<>> /\ ~master.up
  /\ worker' = [worker EXCEPT !.pc = "fulfil", !.result = "OK"]
  /\ UNCHANGED <<threads, replies, jobs, promise, admin, socket, master, outcome,
                 published, polling>>

RecvFailedRetried ==
  /\ At("recv") /\ fromMaster = <<>> /\ ~master.up
  /\ jobs' = Append(jobs, worker.job) /\ worker' = Idle
  /\ UNCHANGED <<threads, replies, promise, admin, socket, master, outcome,
                 published, polling>>

(* runChild returns or throws: the server goes out of scope and with it    *)
(* the queue, which breaks the promises of the jobs that still wait.       *)
Leave(promises) ==
  /\ promise' = [r \in Requests |-> IF promises[r] = "pending" THEN "broken"
                                    ELSE promises[r]]
  /\ jobs' = <<>>
  /\ worker' = [Idle EXCEPT !.pc = "gone"]
  /\ admin' = [admin EXCEPT !.stopped = TRUE]

(* recv finds the master gone.  The cases with a try block pass the error  *)
(* to the promise and go on, TRAIN_UML ending the training state first and *)
(* TRAIN leaving it as it is; the others leave runChild.                   *)
RecvFailed ==
  /\ At("recv") /\ fromMaster = <<>> /\ ~master.up
  /\ IF KindOf[worker.job] \in {"types", "table"}
     THEN Leave(promise)
     ELSE /\ worker' = [worker EXCEPT !.result = "failed",
               !.pc = IF KindOf[worker.job] = "uml" THEN "finish" ELSE "fulfil"]
          /\ UNCHANGED <<jobs, promise, admin>>
  /\ UNCHANGED <<threads, replies, socket, master, outcome, published, polling>>

(* SHUTDOWN: fulfil, stop the server, leave.                               *)
Shutdown ==
  /\ At("stop")
  /\ Leave([promise EXCEPT ![worker.job] = "value"])
  /\ UNCHANGED <<threads, replies, socket, master, outcome, published, polling>>

(* exit: handler threads that have not written their answer never do.      *)
Exit ==
  /\ At("gone")
  /\ admin' = [admin EXCEPT !.up = FALSE]
  /\ UNCHANGED <<threads, replies, jobs, promise, worker, socket, master, outcome,
                 published, polling>>
-----------------------------------------------------------------------------
(* The master's admin thread.                                              *)
Done(r, result) == [cmd |-> "done", for |-> r, result |-> result]
Progress(r)     == [cmd |-> "progress", for |-> r, result |-> "OK"]

(* add_document runs its epochs, calling the progress callback after each; *)
(* a full duplicate is answered without any.                               *)
MasterTrain(result) ==
  LET r == Head(toMaster)
  IN  /\ Serving /\ master.job = None
      /\ toMaster # <<>> /\ KindOf[r] = "learn"
      /\ toMaster' = Tail(toMaster)
      /\ outcome' = [outcome EXCEPT ![r] = result]
      /\ master' = [master EXCEPT !.job = r,
                      !.left = IF result = "DUPLICATE" THEN 0 ELSE Epochs]
      /\ UNCHANGED <<threads, replies, jobs, promise, worker, admin, fromMaster,
                     published, polling>>

MasterEpoch ==
  /\ Serving /\ master.job # None /\ master.left > 0
  /\ fromMaster' = Append(fromMaster, Progress(master.job))
  /\ master' = [master EXCEPT !.left = @ - 1]
  /\ UNCHANGED <<threads, replies, jobs, promise, worker, admin, toMaster, outcome,
                 published, polling>>

(* Mutant of MasterTrained: TRAIN_DONE is sent, and sent again.            *)
MasterTrainedTwice ==
  /\ Serving /\ master.job # None /\ master.left = 0
  /\ fromMaster' = fromMaster \o <<Done(master.job, outcome[master.job]),
                                  Done(master.job, outcome[master.job])>>
  /\ master' = [master EXCEPT !.job = None]
  /\ UNCHANGED <<threads, replies, jobs, promise, worker, admin, toMaster, outcome,
                 published, polling>>

MasterTrained ==
  /\ Serving /\ master.job # None /\ master.left = 0
  /\ fromMaster' = Append(fromMaster, Done(master.job, outcome[master.job]))
  /\ master' = [master EXCEPT !.job = None]
  /\ UNCHANGED <<threads, replies, jobs, promise, worker, admin, toMaster, outcome,
                 published, polling>>

(* Every other command is answered with one message.                       *)
MasterAnswer(result) ==
  LET r == Head(toMaster)
  IN  /\ Serving /\ master.job = None
      /\ toMaster # <<>> /\ KindOf[r] # "learn"
      /\ toMaster' = Tail(toMaster)
      /\ result \in IF KindOf[r] = "uml" THEN UmlResults ELSE {"OK"}
      /\ outcome' = [outcome EXCEPT ![r] = result]
      /\ fromMaster' = Append(fromMaster, Done(r, result))
      /\ UNCHANGED <<threads, replies, jobs, promise, worker, admin, master,
                     published, polling>>

(* An exception ends the admin thread and clears running, in the midst of  *)
(* a training or of another command; the cases of lists and tables catch   *)
(* theirs.  The process stays, and the worker gets no answer.              *)
MasterThrows ==
  /\ MasterMayThrow /\ Serving
  /\ \/ master.job # None /\ UNCHANGED toMaster
     \/ /\ master.job = None /\ toMaster # <<>>
        /\ KindOf[Head(toMaster)] \notin {"blocks", "table"}
        /\ toMaster' = Tail(toMaster)
  /\ master' = [master EXCEPT !.serving = FALSE, !.job = None]
  /\ UNCHANGED <<threads, replies, jobs, promise, worker, admin, fromMaster, outcome,
                 published, polling>>

(* The process ends: by its failed read (a child is gone), from outside, or*)
(* because the client thread finds running cleared after its next message. *)
MasterDies ==
  /\ MasterMayDie \/ ~master.serving
  /\ master.up
  /\ master' = [master EXCEPT !.up = FALSE]
  /\ UNCHANGED <<threads, replies, jobs, promise, worker, admin, socket, outcome,
                 published, polling>>
-----------------------------------------------------------------------------
Init ==
  /\ threads = [r \in Requests |-> {}]
  /\ replies = [r \in Requests |-> <<>>]
  /\ jobs = <<>>
  /\ promise = [r \in Requests |-> "none"]
  /\ worker = Idle
  /\ admin = [up |-> TRUE, stopped |-> FALSE]
  /\ toMaster = <<>> /\ fromMaster = <<>>
  /\ master = [up |-> TRUE, serving |-> TRUE, job |-> None, left |-> 0]
  /\ outcome = [r \in Requests |-> "none"]
  /\ training = FALSE /\ memory = None /\ fileResult = "OK"
  /\ polling = [p \in Pollers |-> [at |-> "replied", training |-> FALSE,
                                   memory |-> None, result |-> "OK"]]

Worker == \/ Dequeue \/ WorkerSend \/ RecvProgress \/ RecvDone \/ RecvFailed
          \/ SetTrainingStarted \/ SetMemoryUsage \/ SetLastFileResult
          \/ SetTrainingDone \/ Fulfil \/ Shutdown \/ Exit

Master == \/ \E result \in UploadResults : MasterTrain(result)
          \/ \E result \in UmlResults \cup {"OK"} : MasterAnswer(result)
          \/ MasterEpoch \/ MasterTrained

Handler(r) == WriteAccepted(r) \/ WriteAnswer(r)
Poll(p)    == PollLock(p) \/ PollReply(p)

Next == \/ \E r \in Requests : Enqueue(r) \/ Handler(r) \/ TableTimeout(r)
        \/ \E p \in Pollers : Poll(p)
        \/ Worker \/ Master \/ MasterThrows \/ MasterDies

(* The threads keep running.  The worker competes with polls for           *)
(* progress_mtx_; polls arrive half a second apart and hold it for one     *)
(* short write, so it gets the lock in the end, which is more than weak    *)
(* fairness says.                                                          *)
Fairness ==
  /\ SF_vars(Worker) /\ WF_vars(Master)
  /\ \A r \in Requests : WF_vars(Handler(r))
  /\ \A p \in Pollers : WF_vars(PollReply(p))

Spec == Init /\ [][Next]_vars
FairSpec == Spec /\ Fairness
-----------------------------------------------------------------------------
(* The worker answered.                                                    *)
Finished(r) == promise[r] \notin {"none", "pending", "broken"}
Queued == {jobs[i] : i \in DOMAIN jobs}
Taken  == {worker.job} \ {None}

Results   == UploadResults \cup UmlResults
Responses == {"accepted", "ok", "value", "duplicate", "default", "error", "timeout"}
Messages  == [cmd : {"progress", "done"}, for : Requests, result : Results]

WorkerStates == [pc : {"dequeue", "send", "start", "recv", "memory", "result",
                       "finish", "fulfil", "stop", "gone"},
                 job : Requests \cup {None}, result : Results]
MasterStates == [up : BOOLEAN, serving : BOOLEAN, job : Requests \cup {None},
                 left : 0..Epochs]
PollStates   == [at : {"locked", "replied"}, training : BOOLEAN,
                 memory : Requests \cup {None}, result : Results]

(* Type invariant.                                                         *)
TypeOK ==
  /\ threads \in [Requests -> SUBSET {"main", "waiter"}]
  /\ replies \in [Requests -> Seq(Responses)]
  /\ jobs \in Seq(Requests)
  /\ promise \in [Requests -> {"none", "pending", "value", "duplicate",
                           "exception", "broken"}]
  /\ worker \in WorkerStates
  /\ admin \in [up : BOOLEAN, stopped : BOOLEAN]
  /\ toMaster \in Seq(Requests)
  /\ fromMaster \in Seq(Messages)
  /\ master \in MasterStates
  /\ outcome \in [Requests -> Results \cup {"none"}]
  /\ training \in BOOLEAN
  /\ memory \in Requests \cup {None}
  /\ fileResult \in Results
  /\ polling \in [Pollers -> PollStates]

(* The stream carries nothing about any job but the worker's, and nothing  *)
(* at all when the worker takes the next one: no answer, however late or   *)
(* however many messages it has, is taken for the answer to another job.   *)
InStep ==
  /\ \A i \in DOMAIN fromMaster : fromMaster[i].for = worker.job
  /\ master.up =>
       /\ \A i \in DOMAIN toMaster : toMaster[i] = worker.job
       /\ master.job \in {None, worker.job}
  /\ worker.pc = "dequeue" => fromMaster = <<>>

(* Every promise that is waited for is held by one job, in the queue or in *)
(* the worker's hands: none is dropped without an answer, none is answered *)
(* twice (set_value would throw), and nobody waits when the server closed. *)
EveryPromiseIsHeld ==
  /\ \A i, j \in DOMAIN jobs : jobs[i] = jobs[j] => i = j
  /\ Queued \cap Taken = {}
  /\ admin.up => {r \in Requests : promise[r] = "pending"} = Queued \cup Taken

(* An upload, a container or a save is reported as done only when the      *)
(* master has carried it out, and a container as a duplicate only when it  *)
(* was one, also when the master dies in between.                          *)
SuccessIsReal ==
  \A r \in Requests :
    /\ promise[r] = "value" /\ KindOf[r] # "stop"
         => outcome[r] \notin {"none", "failed", "exists"} /\ master.job # r
    /\ promise[r] = "duplicate" => outcome[r] = "exists"

(* A connection gets one answer besides "accepted": a table that arrives   *)
(* after the 504, or an error after an answer, is never written.           *)
OneAnswer ==
  \A r \in Requests :
    Cardinality({i \in DOMAIN replies[r] : replies[r][i] # "accepted"}) <= 1

(* The end of a document's training is published after its memory usage,   *)
(* so a poll never pairs "training":false with the memory of an earlier    *)
(* upload once the training of a later one was shown.                      *)
MemoryBeforeDone ==
  [][training /\ ~training' /\ KindOf[worker.job] = "learn" => memory' = worker.job]_vars

(* Every job queued before anyone asks to stop is answered, whatever comes *)
(* behind it, as long as the master serves: SHUTDOWN waits its turn.       *)
AnsweredBeforeStop ==
  \A r \in Requests :
    (promise[r] = "pending" /\ \A s \in Requests : KindOf[s] = "stop" => promise[s] = "none")
      ~> (Finished(r) \/ ~Serving)

(* The pipeline is a first-come first-served job service: the job in the   *)
(* worker's hands is the head of the line.                                 *)
Service == INSTANCE JobService
             WITH waiting <- IF ~Open THEN <<>> ELSE
                               (IF worker.job = None THEN <<>> ELSE <<worker.job>>) \o jobs,
                  served <- {r \in Requests : Finished(r)},
                  open <- Open

IsJobService == Service!Spec

(* With nobody stopping the service, every connection is answered and all  *)
(* its threads end, unless an exception has ended the master's thread.     *)
EveryoneIsAnswered ==
  \A r \in Requests :
    promise[r] = "pending" ~> (threads[r] = {} /\ Finished(r)) \/ ~Serving

(* Whatever polls do to its lock, a training that is shown ends, unless    *)
(* the master no longer serves.                                            *)
TrainingEnds == training ~> ~training \/ ~Serving
=============================================================================
