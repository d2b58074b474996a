------------------------------ MODULE IpcLink ------------------------------
(***************************************************************************)
(* The admin worker's loop and the master's admin thread over the two byte *)
(* streams of their socket pair: a request down, progress and an answer    *)
(* up.  Jobs are packed, repacked and unpacked as in Wire.  (The client's  *)
(* pair has the same shape, without progress.)                             *)
(***************************************************************************)
EXTENDS Wire

CONSTANTS
  Jobs,          \* the jobs handlers may enqueue, records as Wire reads them
  MaxJobs,       \* bound on the jobs of a run
  MaxProgress,   \* bound on the progress messages of one training
  ReplySize,     \* bytes of an answer's payload
  MayDie,        \* the processes that may be killed: "worker", "master"
  Capacity       \* bytes the kernel holds between the two ends

VARIABLES
  dSent, dStream, dWritten, dTaken, dBuffer, dReceived, dOpen,  \* down
  uSent, uStream, uWritten, uTaken, uBuffer, uReceived, uOpen,  \* up
  worker,      \* the worker's loop: idle, wait for messages or dead
  asked,       \* the jobs it took from its queue
  heard,       \* how many messages it has handled
  answered,    \* how many of the jobs have ended
  master,      \* the admin thread: recv, work or dead
  executed,    \* the jobs it has read
  steps        \* progress messages it sent for the last of them

down == <<dSent, dStream, dWritten, dTaken, dBuffer, dReceived, dOpen>>
up   == <<uSent, uStream, uWritten, uTaken, uBuffer, uReceived, uOpen>>
own  == <<worker, asked, heard, answered, master, executed, steps>>
vars == <<down, up, own>>

(* The commands of JobTypeAdmin that travel here.                          *)
Command == [train |-> 0, progress |-> 1, train_done |-> 2, uml |-> 4,
            uml_done |-> 5, list |-> 10, table |-> 11]
KindOf(cmd)  == CHOOSE k \in DOMAIN Command : Command[k] = cmd
AnswerTo(k)  == CASE k = "train" -> "train_done" [] k = "uml" -> "uml_done" [] OTHER -> k

Request(j) == [cmd |-> Command[j.kind], payload |-> Payload(j)]
Percent    == [cmd |-> Command.progress, payload |-> <<1>>]
Answer(k)  == [cmd |-> Command[AnswerTo(k)], payload |-> [i \in 1..ReplySize |-> 1]]

Requests == {Request(j) : j \in Jobs}
Meaning  == [m \in Requests |-> Unpacked(KindOf(m.cmd), m.payload)]
Replies  == {Percent} \cup {Answer(k) : k \in {"train", "uml", "list", "table"}}

Down == INSTANCE IpcChannel WITH Messages <- Requests, sent <- dSent,
          stream <- dStream, written <- dWritten, taken <- dTaken,
          buffer <- dBuffer, received <- dReceived, open <- dOpen
Up   == INSTANCE IpcChannel WITH Messages <- Replies, sent <- uSent,
          stream <- uStream, written <- uWritten, taken <- uTaken,
          buffer <- uBuffer, received <- uReceived, open <- uOpen

ASSUME LinkConstants ==
  /\ MaxJobs \in Nat \ {0} /\ MaxProgress \in Nat /\ ReplySize \in Nat
  /\ MayDie \subseteq {"worker", "master"}
  /\ Jobs \subseteq JobShape
  /\ Down!ChannelConstants /\ Up!ChannelConstants

-----------------------------------------------------------------------------
(* The worker.  It reads only after write_all has returned.                *)
Ask(j) ==
  /\ worker = "idle" /\ Len(asked) < MaxJobs
  /\ Down!Send(Request(j))
  /\ worker' = "wait"
  /\ asked' = Append(asked, j)
  /\ UNCHANGED <<heard, answered, master, executed, steps>> /\ UNCHANGED up

WorkerWrite == (\E k \in Down!Bytes : Down!Write(k)) /\ UNCHANGED up /\ UNCHANGED own

WorkerRead ==
  /\ worker = "wait" /\ Down!Flushed
  /\ Len(uReceived) = heard
  /\ \E k \in Up!Bytes : Up!Read(k)
  /\ UNCHANGED down /\ UNCHANGED own

(* Progress is shown and the loop goes on; the answer ends the job.        *)
Hear ==
  /\ worker = "wait" /\ Len(uReceived) > heard
  /\ heard' = heard + 1
  /\ IF uReceived[heard + 1].cmd = Command.progress
     THEN UNCHANGED <<worker, answered>>
     ELSE worker' = "idle" /\ answered' = answered + 1
  /\ UNCHANGED <<asked, master, executed, steps>>
  /\ UNCHANGED down /\ UNCHANGED up

-----------------------------------------------------------------------------
(* The admin thread of the master.                                         *)
MasterRead ==
  /\ master = "recv" /\ Up!Flushed
  /\ Len(dReceived) = Len(executed)
  /\ \E k \in Down!Bytes : Down!Read(k)
  /\ UNCHANGED up /\ UNCHANGED own

(* The switch over the command.  What cannot be read gets no answer, or,   *)
(* for a container, the answer 0 at once: that is the work of no time.     *)
Execute ==
  /\ master = "recv" /\ Len(dReceived) > Len(executed)
  /\ LET m   == dReceived[Len(executed) + 1]
         job == Meaning[m]
     IN /\ executed' = Append(executed, job)
        /\ master' = IF job = NoJob /\ m.cmd # Command.uml THEN "recv" ELSE "work"
  /\ steps' = 0
  /\ UNCHANGED <<worker, asked, heard, answered>>
  /\ UNCHANGED down /\ UNCHANGED up

(* progress_cb, called under the store's lock.                             *)
Progress ==
  /\ master = "work" /\ Up!Flushed
  /\ executed[Len(executed)].kind = "train" /\ steps < MaxProgress
  /\ Up!Send(Percent)
  /\ steps' = steps + 1
  /\ UNCHANGED <<worker, asked, heard, answered, master, executed>> /\ UNCHANGED down

Finish ==
  /\ master = "work" /\ Up!Flushed
  /\ Up!Send(Answer(KindOf(dReceived[Len(executed)].cmd)))
  /\ master' = "recv"
  /\ UNCHANGED <<worker, asked, heard, answered, executed, steps>> /\ UNCHANGED down

MasterWrite == (\E k \in Up!Bytes : Up!Write(k)) /\ UNCHANGED down /\ UNCHANGED own

-----------------------------------------------------------------------------
(* A process is killed, at any byte.  Both its descriptors go with it.     *)
KillMaster ==
  /\ "master" \in MayDie /\ master # "dead"
  /\ master' = "dead"
  /\ Down!Die("reader") /\ Up!Die("writer")
  /\ UNCHANGED <<worker, asked, heard, answered, executed, steps>>

KillWorker ==
  /\ "worker" \in MayDie /\ worker # "dead"
  /\ worker' = "dead"
  /\ Down!Die("writer")
  /\ uOpen' = uOpen \ {"reader"}
  /\ UNCHANGED <<uSent, uStream, uWritten, uTaken, uBuffer, uReceived>>
  /\ UNCHANGED <<asked, heard, answered, master, executed, steps>>

(* recv throws in the master: it leaves with std::exit(0).                 *)
MasterEnds ==
  /\ master = "recv" /\ Up!Flushed /\ Len(dReceived) = Len(executed)
  /\ Down!EndOfStream /\ Up!Die("writer")
  /\ master' = "dead"
  /\ UNCHANGED <<worker, asked, heard, answered, executed, steps>>

(* recv throws in the worker.  A training, a container and a save catch it *)
(* for the job alone, the others end the process.                          *)
WorkerLoses ==
  /\ worker = "wait" /\ Down!Flushed /\ Len(uReceived) = heard
  /\ IF asked[Len(asked)].kind \in {"train", "uml"}
     THEN worker' = "idle" /\ answered' = answered + 1 /\ UNCHANGED down
     ELSE worker' = "dead" /\ UNCHANGED answered /\ Down!Die("writer")
  /\ Up!EndOfStream
  /\ UNCHANGED <<asked, heard, master, executed, steps>>

(* write(2) to a stream nobody reads: SIGPIPE.                             *)
WorkerPipe ==
  /\ worker = "wait" /\ Down!BrokenPipe
  /\ worker' = "dead"
  /\ uOpen' = uOpen \ {"reader"}
  /\ UNCHANGED <<uSent, uStream, uWritten, uTaken, uBuffer, uReceived>>
  /\ UNCHANGED <<asked, heard, answered, master, executed, steps>>

MasterPipe ==
  /\ master # "dead" /\ Up!BrokenPipe
  /\ dOpen' = dOpen \ {"reader"}
  /\ UNCHANGED <<dSent, dStream, dWritten, dTaken, dBuffer, dReceived>>
  /\ master' = "dead"
  /\ UNCHANGED <<worker, asked, heard, answered, executed, steps>>

-----------------------------------------------------------------------------
Init ==
  /\ Down!Init /\ Up!Init
  /\ worker = "idle" /\ asked = <<>> /\ heard = 0 /\ answered = 0
  /\ master = "recv" /\ executed = <<>> /\ steps = 0

Next ==
  \/ \E j \in Jobs : Ask(j)
  \/ WorkerWrite \/ WorkerRead \/ Hear
  \/ MasterRead \/ Execute \/ Progress \/ Finish \/ MasterWrite
  \/ KillMaster \/ KillWorker
  \/ MasterEnds \/ WorkerLoses \/ WorkerPipe \/ MasterPipe

Spec == Init /\ [][Next]_vars

(* Both processes keep running and the kernel moves bytes while it can.    *)
FairSpec ==
  /\ Spec
  /\ WF_vars(WorkerWrite) /\ WF_vars(WorkerRead) /\ WF_vars(Hear)
  /\ WF_vars(MasterRead) /\ WF_vars(Execute) /\ WF_vars(Finish) /\ WF_vars(MasterWrite)
  /\ WF_vars(MasterEnds) /\ WF_vars(WorkerLoses) /\ WF_vars(WorkerPipe) /\ WF_vars(MasterPipe)

-----------------------------------------------------------------------------
(* Neither stream loses, repeats, reorders or cuts a message, wherever a   *)
(* process is killed and whatever the sizes of the reads and writes        *)
(* (IpcSocket, src/src/ipc.cpp:27-63).                                     *)
BothAreFifo == Down!IsFifo /\ Up!IsFifo

HasNul(t)  == \E i \in DOMAIN t : t[i] = 0
Short(n)   == n < Base * Base

(* A job whose parts the formats can hold: texts that end at a NUL hold    *)
(* none, what is counted in 16 bits is less than 2^16, and a source has a  *)
(* type, since both sides make 1 of type 0.                                *)
Regular(j) == CASE j.kind = "train" -> ~HasNul(j.tags) /\ Short(Len(j.tags))
                [] j.kind = "table" -> ~HasNul(j.table) /\ ~HasNul(j.filter)
                [] j.kind = "uml"   -> /\ Short(Len(j.sources)) /\ Short(Len(j.events))
                                       /\ \A i \in DOMAIN j.sources : j.sources[i].type # 0
                [] OTHER            -> TRUE

(* What the master carries out is what the handler was given, through      *)
(* three formats and two repackings: a regular job arrives unchanged; tags *)
(* too long for their 16 bits are cut, but the rest of them is read as     *)
(* text and no byte of the two is lost (src/src/admin.cpp:435-441,         *)
(* src/src/worker_admin.cpp:31-44, src/src/worker_master.cpp:44-54).       *)
JobsArriveWhole ==
  \A i \in DOMAIN executed :
    LET job == asked[i]
    IN /\ Regular(job) => executed[i] = job
       /\ (job.kind = "train" /\ ~HasNul(job.tags)) =>
             /\ executed[i].flag = job.flag
             /\ executed[i].tags \o executed[i].text = job.tags \o job.text

(* With both streams bounded, a request or an answer longer than the       *)
(* buffers never leaves both sides writing or both reading: every job the  *)
(* worker takes ends, or one of the two processes does                     *)
(* (src/src/worker_admin.cpp:10-190, src/src/worker_master.cpp:30-270).    *)
EveryJobEnds ==
  \A n \in 1..MaxJobs :
    Len(asked) >= n ~> (answered >= n \/ "dead" \in {worker, master})
=============================================================================
