---------------------------- MODULE ClientPipeline ----------------------------
(***************************************************************************)
(* The way of a question: a handler thread of the client server            *)
(* (src/src/client.cpp) puts it into the queue of its kind and waits for   *)
(* its promise; the client worker (src/src/worker_client.cpp) takes the    *)
(* most urgent kind first, sends one message to the master and waits for   *)
(* one; the master's client thread (src/src/worker_master.cpp) answers.    *)
(*                                                                         *)
(* A request is a visitor who may ask again when he was answered.  What    *)
(* the other side of the master does is in Lifecycle.                      *)
(***************************************************************************)
EXTENDS Naturals, Sequences, FiniteSets

CONSTANTS
  Requests,       \* the visitors
  KindOf,         \* [Requests -> Kinds]
  StoreMayThrow,  \* whether an operation of the store may end in an exception
  None

Kinds == {"list",     \* GET  /list_uml    0x0C
          "compose",  \* POST /compose     0x0E, and /build_project
          "search",   \* POST /search_uml  0x0A
          "prompt"}   \* POST /ask         0x04, and /v1/chat

ASSUME ClientConstants ==
  /\ KindOf \in [Requests -> Kinds]
  /\ StoreMayThrow \in BOOLEAN
  /\ None \notin Requests

VARIABLES
  queues,    \* per kind: list_uml_jobs_, compose_jobs_, uml_search_jobs_, jobs_
  promise,   \* per request: none, pending, value, exception or broken
  client,    \* the client process: is it up, where its worker is, its job
  toMaster, fromMaster,   \* the two directions of the socket pair
  thread,    \* the master's client thread: where it is, the request it works on
  master     \* the master process: is it up, and the threads' running flag

clientVars == <<queues, promise, client, toMaster, fromMaster, thread, master>>
-----------------------------------------------------------------------------
(* Handler threads.  A promise is forgotten when its answer was written.   *)
Ask(r) ==
  /\ client.up /\ client.pc # "gone" /\ promise[r] = "none"
  /\ queues' = [queues EXCEPT ![KindOf[r]] = Append(@, r)]
  /\ promise' = [promise EXCEPT ![r] = "pending"]
  /\ UNCHANGED <<client, toMaster, fromMaster, thread, master>>

Reply(r) ==
  /\ client.up /\ promise[r] \notin {"none", "pending"}
  /\ promise' = [promise EXCEPT ![r] = "none"]
  /\ UNCHANGED <<queues, client, toMaster, fromMaster, thread, master>>
-----------------------------------------------------------------------------
(* The worker.                                                             *)
At(pc) == client.up /\ client.pc = pc

(* Mutant of Urgent: prompts go first.                                     *)
UrgentPromptFirst(k) ==
  queues[k] # <<>> /\ (k # "prompt" => queues["prompt"] = <<>>)

(* The kind dequeue_any takes from: the first of these that is waited for. *)
Urgent(k) ==
  /\ queues[k] # <<>>
  /\ k # "list" => queues["list"] = <<>>
  /\ k \in {"search", "prompt"} => queues["compose"] = <<>>
  /\ k = "prompt" => queues["search"] = <<>>

(* Mutants of Dequeue: the job stays in its queue; it was moved elsewhere. *)
DequeuePeek ==
  \E k \in Kinds :
    /\ At("dequeue") /\ Urgent(k)
    /\ client' = [client EXCEPT !.pc = "send", !.job = Head(queues[k])]
    /\ UNCHANGED <<queues, promise, toMaster, fromMaster, thread, master>>

DequeueMoved ==
  \E k \in Kinds :
    /\ At("dequeue") /\ Urgent(k)
    /\ queues' = [queues EXCEPT ![k] = Tail(@)]
    /\ client' = [client EXCEPT !.pc = "send", !.job = None]
    /\ UNCHANGED <<promise, toMaster, fromMaster, thread, master>>

Dequeue ==
  \E k \in Kinds :
    /\ At("dequeue") /\ Urgent(k)
    /\ queues' = [queues EXCEPT ![k] = Tail(@)]
    /\ client' = [client EXCEPT !.pc = "send", !.job = Head(queues[k])]
    /\ UNCHANGED <<promise, toMaster, fromMaster, thread, master>>

(* A write to a master that is gone kills the process (SIGPIPE).           *)
WorkerSend ==
  /\ At("send")
  /\ IF master.up
     THEN /\ toMaster' = Append(toMaster, client.job)
          /\ client' = [client EXCEPT !.pc = "recv"]
     ELSE /\ client' = [client EXCEPT !.up = FALSE]
          /\ UNCHANGED toMaster
  /\ UNCHANGED <<queues, promise, fromMaster, thread, master>>

WorkerRecv ==
  /\ At("recv") /\ fromMaster # <<>>
  /\ fromMaster' = Tail(fromMaster)
  /\ promise' = [promise EXCEPT ![client.job] = "value"]
  /\ client' = [client EXCEPT !.pc = "dequeue", !.job = None]
  /\ UNCHANGED <<queues, toMaster, thread, master>>

(* The loop ends: with the server go the promises that still wait.         *)
Leave(promises) ==
  /\ promise' = [r \in Requests |-> IF promises[r] = "pending" THEN "broken"
                                    ELSE promises[r]]
  /\ queues' = [k \in Kinds |-> <<>>]
  /\ client' = [client EXCEPT !.pc = "gone", !.job = None]

(* Mutants of RecvFailed: a read without data counts as failed; the error  *)
(* is logged and the worker goes on.                                       *)
RecvFailedEarly ==
  /\ At("recv") /\ fromMaster = <<>>
  /\ Leave([promise EXCEPT ![client.job] = "exception"])
  /\ UNCHANGED <<toMaster, fromMaster, thread, master>>

RecvFailedGoesOn ==
  /\ At("recv") /\ fromMaster = <<>> /\ ~master.up
  /\ client' = [client EXCEPT !.pc = "dequeue", !.job = None]
  /\ UNCHANGED <<queues, promise, toMaster, fromMaster, thread, master>>

(* The master is gone: the job gets the exception and the loop ends.       *)
RecvFailed ==
  /\ At("recv") /\ fromMaster = <<>> /\ ~master.up
  /\ Leave([promise EXCEPT ![client.job] = "exception"])
  /\ UNCHANGED <<toMaster, fromMaster, thread, master>>

Exit ==
  /\ At("gone")
  /\ client' = [client EXCEPT !.up = FALSE]
  /\ UNCHANGED <<queues, promise, toMaster, fromMaster, thread, master>>
-----------------------------------------------------------------------------
(* The master's client thread.                                             *)
ThreadAt(pc) == master.up /\ thread.pc = pc

ThreadCheck ==
  /\ ThreadAt("check")
  /\ thread' = [thread EXCEPT !.pc = IF master.running THEN "recv" ELSE "ended"]
  /\ UNCHANGED <<queues, promise, client, toMaster, fromMaster, master>>

ThreadRecv ==
  /\ ThreadAt("recv") /\ toMaster # <<>>
  /\ toMaster' = Tail(toMaster)
  /\ thread' = [pc |-> "work", job |-> Head(toMaster)]
  /\ UNCHANGED <<queues, promise, client, fromMaster, master>>

(* Mutant of ThreadAnswer: after the answer the error is sent as well.     *)
ThreadAnswerTwice(heard) ==
  /\ ThreadAt("work")
  /\ IF heard THEN fromMaster' = fromMaster \o <<thread.job, thread.job>> /\ UNCHANGED master
              ELSE master' = [master EXCEPT !.up = FALSE] /\ UNCHANGED fromMaster
  /\ thread' = [pc |-> "check", job |-> None]
  /\ UNCHANGED <<queues, promise, client, toMaster>>

(* The store's answer, or its error for a list or a composition, is sent;  *)
(* when nobody holds the other end the write kills the master.             *)
ThreadAnswer(heard) ==
  /\ ThreadAt("work")
  /\ IF heard THEN fromMaster' = Append(fromMaster, thread.job) /\ UNCHANGED master
              ELSE master' = [master EXCEPT !.up = FALSE] /\ UNCHANGED fromMaster
  /\ thread' = [pc |-> "check", job |-> None]
  /\ UNCHANGED <<queues, promise, client, toMaster>>

(* Any other exception ends this thread, and the other one after its next  *)
(* message.  A failed read is one of them, when nobody holds the other end.*)
ThreadFails(heard) ==
  /\ \/ StoreMayThrow /\ ThreadAt("work") /\ KindOf[thread.job] \in {"prompt", "search"}
     \/ ThreadAt("recv") /\ toMaster = <<>> /\ ~heard
  /\ thread' = [pc |-> "ended", job |-> None]
  /\ master' = [master EXCEPT !.running = FALSE]
  /\ UNCHANGED <<queues, promise, client, toMaster, fromMaster>>
-----------------------------------------------------------------------------
ClientInit ==
  /\ queues = [k \in Kinds |-> <<>>]
  /\ promise = [r \in Requests |-> "none"]
  /\ client = [up |-> TRUE, pc |-> "dequeue", job |-> None]
  /\ toMaster = <<>> /\ fromMaster = <<>>
  /\ thread = [pc |-> "check", job |-> None]
  /\ master = [up |-> TRUE, running |-> TRUE]

ClientWorker == Dequeue \/ WorkerSend \/ WorkerRecv \/ RecvFailed \/ Exit

ClientThread(heard) ==
  ThreadCheck \/ ThreadRecv \/ ThreadAnswer(heard) \/ ThreadFails(heard)
-----------------------------------------------------------------------------
InQueue(k) == {queues[k][i] : i \in DOMAIN queues[k]}
Held == (UNION {InQueue(k) : k \in Kinds}) \cup ({client.job} \ {None})

(* Type invariant.                                                         *)
ClientTypeOK ==
  /\ queues \in [Kinds -> Seq(Requests)]
  /\ promise \in [Requests -> {"none", "pending", "value", "exception", "broken"}]
  /\ client \in [up : BOOLEAN, pc : {"dequeue", "send", "recv", "gone"},
                 job : Requests \cup {None}]
  /\ toMaster \in Seq(Requests) /\ fromMaster \in Seq(Requests)
  /\ thread \in [pc : {"check", "recv", "work", "ended"}, job : Requests \cup {None}]
  /\ master \in [up : BOOLEAN, running : BOOLEAN]

(* No visitor gets the answer to another's question: while the client      *)
(* process lives its streams carry at most one message, about the worker's *)
(* job, and none when the worker looks for the next one.                   *)
ClientInStep ==
  client.up =>
    /\ Len(fromMaster) <= 1 /\ \A i \in DOMAIN fromMaster : fromMaster[i] = client.job
    /\ master.up => /\ \A i \in DOMAIN toMaster : toMaster[i] = client.job
                    /\ thread.job \in {None, client.job}
    /\ client.pc = "dequeue" => fromMaster = <<>>

(* While the server is open, exactly the jobs in the four queues and the   *)
(* worker's are waited for, and each is in one place.                      *)
QuestionsAreHeld ==
  client.up =>
    /\ {r \in Requests : promise[r] = "pending"} = Held
    /\ \A k \in Kinds : Cardinality(InQueue(k)) = Len(queues[k])
    /\ \A k \in Kinds : client.job \notin InQueue(k)

(* A visitor is told of a failure of the service only when the master is   *)
(* gone, never because of other visitors or of what the store throws.      *)
FailureIsTheMasters ==
  \A r \in Requests : promise[r] \in {"exception", "broken"} => ~master.up
=============================================================================
