------------------------------- MODULE Lifecycle -------------------------------
(***************************************************************************)
(* The three processes together: who notices whose end.  The client side   *)
(* is ClientPipeline; of the admin side it keeps that there is one command *)
(* at a time (AdminPipeline's InStep), whichever it is.  The progress      *)
(* messages of a training add nothing: each is one more write like that of *)
(* the answer, which fails when nobody holds the other end.                *)
(*                                                                         *)
(* The admin process was forked first and keeps its copy of the client's   *)
(* end of the client's socket pair (src/src/worker_admin.cpp closes the    *)
(* master's two ends only), the client was forked after the master closed  *)
(* the admin's end.  So the end of the client is not seen as an end of     *)
(* stream while the admin process lives, the end of the admin is.          *)
(***************************************************************************)
EXTENDS ClientPipeline

CONSTANT MayCrash    \* processes that may be killed: master, admin, client

ASSUME LifecycleConstants == MayCrash \subseteq {"master", "admin", "client"}

VARIABLES
  admin,        \* the admin process: is it up, and does its worker wait
  command,      \* between admin worker and master: none, request or answer
  adminThread   \* the master's admin thread: check, recv, work or ended

vars == <<queues, promise, client, toMaster, fromMaster, thread, master,
          admin, command, adminThread>>

adminVars == <<admin, command, adminThread>>

(* Somebody holds the far end of the client's, and of the admin's, stream. *)
ClientHeard == client.up \/ admin.up

(* Mutant of AdminHeard: the client inherits the admin's end of the stream.*)
AdminHeardInherited == admin.up \/ client.up
AdminHeard  == admin.up

-----------------------------------------------------------------------------
(* The admin worker sends the next command; without a master SIGPIPE.      *)
AdminAsk ==
  /\ admin.up /\ ~admin.waits
  /\ IF master.up THEN /\ admin' = [admin EXCEPT !.waits = TRUE]
                       /\ command' = "request"
                  ELSE /\ admin' = [admin EXCEPT !.up = FALSE]
                       /\ UNCHANGED command
  /\ UNCHANGED <<clientVars, adminThread>>

AdminTake ==
  /\ admin.up /\ admin.waits /\ command = "answer"
  /\ admin' = [admin EXCEPT !.waits = FALSE]
  /\ command' = "none"
  /\ UNCHANGED <<clientVars, adminThread>>

(* Its recv fails: some jobs are answered with the error, others end it.   *)
AdminRecvFailed ==
  /\ admin.up /\ admin.waits /\ command # "answer" /\ ~master.up
  /\ \E up \in BOOLEAN : admin' = [up |-> up, waits |-> FALSE]
  /\ UNCHANGED <<clientVars, command, adminThread>>

(* SHUTDOWN, between two commands.                                         *)
AdminStop ==
  /\ admin.up /\ ~admin.waits
  /\ admin' = [admin EXCEPT !.up = FALSE]
  /\ UNCHANGED <<clientVars, command, adminThread>>
-----------------------------------------------------------------------------
(* The master's admin thread.                                              *)
AdminThreadAt(pc) == master.up /\ adminThread = pc

AdminThreadCheck ==
  /\ AdminThreadAt("check")
  /\ adminThread' = IF master.running THEN "recv" ELSE "ended"
  /\ UNCHANGED <<clientVars, admin, command>>

AdminThreadRecv ==
  /\ AdminThreadAt("recv") /\ command = "request"
  /\ command' = "none" /\ adminThread' = "work"
  /\ UNCHANGED <<clientVars, admin>>

AdminThreadAnswer ==
  /\ AdminThreadAt("work")
  /\ IF AdminHeard THEN command' = "answer" /\ UNCHANGED master
                   ELSE master' = [master EXCEPT !.up = FALSE] /\ UNCHANGED command
  /\ adminThread' = "check"
  /\ UNCHANGED <<queues, promise, client, toMaster, fromMaster, thread, admin>>

AdminThreadFails ==
  /\ StoreMayThrow /\ AdminThreadAt("work")
  /\ adminThread' = "ended"
  /\ master' = [master EXCEPT !.running = FALSE]
  /\ UNCHANGED <<queues, promise, client, toMaster, fromMaster, thread, admin, command>>

(* The master ends and takes both children with it.                        *)
KillAll ==
  /\ master' = [master EXCEPT !.up = FALSE]
  /\ client' = [client EXCEPT !.up = FALSE]
  /\ admin'  = [admin EXCEPT !.up = FALSE]
  /\ UNCHANGED <<queues, promise, toMaster, fromMaster, thread, command, adminThread>>

(* "child process terminated, shutting down"                               *)
AdminThreadEof ==
  AdminThreadAt("recv") /\ command # "request" /\ ~AdminHeard /\ KillAll

(* Both threads are joined, run returns, the workers' destructors kill.    *)
Return == master.up /\ thread.pc = "ended" /\ adminThread = "ended" /\ KillAll
-----------------------------------------------------------------------------
Crash ==
  \/ /\ "master" \in MayCrash /\ master.up
     /\ master' = [master EXCEPT !.up = FALSE]
     /\ UNCHANGED <<queues, promise, client, toMaster, fromMaster, thread, adminVars>>
  \/ /\ "client" \in MayCrash /\ client.up
     /\ client' = [client EXCEPT !.up = FALSE]
     /\ UNCHANGED <<queues, promise, toMaster, fromMaster, thread, master, adminVars>>
  \/ /\ "admin" \in MayCrash /\ admin.up
     /\ admin' = [admin EXCEPT !.up = FALSE]
     /\ UNCHANGED <<clientVars, command, adminThread>>

Init == /\ ClientInit
        /\ admin = [up |-> TRUE, waits |-> FALSE]
        /\ command = "none" /\ adminThread = "check"

ClientSide == ClientWorker \/ ClientThread(ClientHeard)

AdminThread == \/ AdminThreadCheck \/ AdminThreadRecv \/ AdminThreadAnswer
               \/ AdminThreadFails \/ AdminThreadEof

Next == \/ (\E r \in Requests : Ask(r) \/ Reply(r)) /\ UNCHANGED adminVars
        \/ ClientSide /\ UNCHANGED adminVars
        \/ AdminAsk \/ AdminTake \/ AdminRecvFailed \/ AdminStop
        \/ AdminThread \/ Return \/ Crash

(* Threads and processes keep running.  Nobody has to ask, and nothing has *)
(* to fail.                                                                *)
Fairness ==
  /\ WF_vars(ClientWorker /\ UNCHANGED adminVars)
  /\ WF_vars(ClientThread(ClientHeard) /\ UNCHANGED adminVars)
  /\ \A r \in Requests : WF_vars(Reply(r) /\ UNCHANGED adminVars)
  /\ WF_vars(AdminTake) /\ WF_vars(AdminRecvFailed)
  /\ WF_vars(AdminThread) /\ WF_vars(Return)

Spec == Init /\ [][Next]_vars
FairSpec == Spec /\ Fairness
-----------------------------------------------------------------------------
(* The end of the admin process, be it asked for or not, ends the master,  *)
(* unless an exception of the store ended the thread that would notice.    *)
(* Who stops the service by POST /stop may wait for its process.           *)
MasterEndsWithAdmin == ~admin.up ~> ~master.up \/ adminThread = "ended"

(* Nobody goes on waiting for a master that is gone: the first question    *)
(* that needs it ends the client process, and with it all that wait.       *)
NobodyWaitsForTheDead ==
  \A r \in Requests :
    (~master.up /\ promise[r] = "pending") ~> (promise[r] # "pending" \/ ~client.up)

(* Whatever else is asked, and however often, a list is not starved, until *)
(* an exception stopped one of the master's threads.                       *)
ListsAreServed ==
  \A r \in Requests :
    (KindOf[r] = "list" /\ promise[r] = "pending")
      ~> (promise[r] # "pending" \/ ~client.up \/ ~master.running)
=============================================================================
