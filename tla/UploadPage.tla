----------------------------- MODULE UploadPage -----------------------------
(***************************************************************************)
(* The admin page uploading a list of files (static/admin/admin.js, the    *)
(* function processAllFiles) against the admin server: it posts a file,    *)
(* takes the first response of the connection for the answer, then asks    *)
(* /progress until that says "training":false and goes on to the next      *)
(* file.  Requests that are not of the page come from other browsers.      *)
(***************************************************************************)
EXTENDS AdminPipeline

CONSTANTS
  Files,     \* the sequence of uploads, each a request of kind learn
  PagePoll   \* the poller the page is

ASSUME PageConstants ==
  /\ Files \in Seq({r \in Requests : KindOf[r] = "learn"})
  /\ PagePoll \in Pollers

VARIABLES
  page,    \* what processAllFiles waits for, and the index of its file
  shown    \* fileStatuses[i].status

pageVars == <<page, shown>>
allVars  == <<vars, pageVars>>

FileRequests == {Files[i] : i \in DOMAIN Files}
File         == Files[page.file]

(* The loop of processAllFiles: the next file, or the last fetchProgress.  *)
Proceed ==
  page' = IF page.file < Len(Files)
          THEN [at |-> "submit", file |-> page.file + 1]
          ELSE [at |-> "last", file |-> page.file]

Show(status) == shown' = [shown EXCEPT ![File] = status]

Submit ==
  /\ page.at = "submit"
  /\ Enqueue(File)
  /\ page' = [page EXCEPT !.at = "response"]
  /\ Show("processing")

(* Mutant of SubmitFails: an error ends neither the wait nor the loop.     *)
SubmitFailsAndStays ==
  /\ ~admin.up
  /\ page.at \in {"submit", "response"} /\ (page.at = "response" => replies[File] = <<>>)
  /\ Show("error")
  /\ UNCHANGED <<vars, page>>

(* The page cannot reach the server, or the connection breaks.             *)
SubmitFails ==
  /\ \/ page.at = "submit" /\ ~Open
     \/ page.at = "response" /\ replies[File] = <<>> /\ ~admin.up
  /\ Show("error") /\ Proceed
  /\ UNCHANGED vars

(* fetch() delivers the first response on the connection; any status but   *)
(* "accepted" is thrown as an error.                                       *)
TakeResponse ==
  /\ page.at = "response" /\ replies[File] # <<>>
  /\ IF Head(replies[File]) = "accepted"
     THEN page' = [page EXCEPT !.at = "poll"] /\ UNCHANGED shown
     ELSE Show("error") /\ Proceed
  /\ UNCHANGED vars

AskProgress ==
  /\ page.at \in {"poll", "last"}
  /\ PollLock(PagePoll)
  /\ page' = [page EXCEPT !.at = IF page.at = "poll" THEN "polled" ELSE "lastPolled"]
  /\ UNCHANGED shown

(* Mutant of StatusOf: the code of the result is shown.                    *)
StatusAsSent(result) == result

(* pollTrainingProgress, and the result of the last fetchProgress, which   *)
(* is not used.                                                            *)
StatusOf(result) == CASE result = "DUPLICATE" -> "warning"
                      [] result = "PARTIAL"   -> "partial"
                      [] OTHER                -> "success"

TakeProgress ==
  /\ polling[PagePoll].at = "replied"
  /\ \/ /\ page.at = "polled" /\ polling[PagePoll].training
        /\ page' = [page EXCEPT !.at = "poll"] /\ UNCHANGED shown
     \/ /\ page.at = "polled" /\ ~polling[PagePoll].training
        /\ Show(StatusOf(polling[PagePoll].result)) /\ Proceed
     \/ /\ page.at = "lastPolled"
        /\ page' = [page EXCEPT !.at = "finished"] /\ UNCHANGED shown
  /\ UNCHANGED vars

(* fetchProgress finds the server gone and returns null: after that        *)
(* pollTrainingProgress goes on polling, and the last call is ignored.     *)
ProgressFails ==
  /\ \/ page.at = "last" /\ ~Open
     \/ page.at \in {"polled", "lastPolled"} /\ polling[PagePoll].at = "locked" /\ ~admin.up
  /\ page' = [page EXCEPT !.at = IF page.at = "polled" THEN "poll" ELSE "finished"]
  /\ UNCHANGED <<vars, shown>>

PageStep == \/ Submit \/ SubmitFails \/ TakeResponse
            \/ AskProgress \/ TakeProgress \/ ProgressFails

(* The server's steps and other browsers' requests.                        *)
OtherStep ==
  /\ \/ \E r \in Requests \ FileRequests : Enqueue(r)
     \/ \E r \in Requests : Handler(r) \/ TableTimeout(r)
     \/ \E p \in Pollers \ {PagePoll} : Poll(p)
     \/ PollReply(PagePoll)
     \/ Worker \/ Master \/ MasterThrows \/ MasterDies
  /\ UNCHANGED pageVars

PageInit ==
  /\ Init
  /\ page = [at |-> IF Files = <<>> THEN "last" ELSE "submit", file |-> 1]
  /\ shown = [r \in FileRequests |-> "pending"]

PageNext == PageStep \/ OtherStep

PageSpec == PageInit /\ [][PageNext]_allVars

(* The browser's timers keep firing, and like the worker it gets the lock  *)
(* from the other polls in the end; for the server as in Fairness.         *)
PageFairSpec ==
  /\ PageSpec
  /\ SF_allVars(PageStep)
  /\ SF_allVars(Worker /\ UNCHANGED pageVars)
  /\ WF_allVars(Master /\ UNCHANGED pageVars)
  /\ \A r \in Requests : WF_allVars(Handler(r) /\ UNCHANGED pageVars)
  /\ \A p \in Pollers : WF_allVars(PollReply(p) /\ UNCHANGED pageVars)
-----------------------------------------------------------------------------
PageFinished == page.at = "finished"

(* Type invariant.                                                         *)
PageTypeOK ==
  /\ page \in [at : {"submit", "response", "poll", "polled", "last", "lastPolled",
                     "finished"}, file : 1..(Len(Files) + 1)]
  /\ shown \in [FileRequests -> {"pending", "processing", "success", "partial",
                                 "warning", "error"}]

(* As long as admin process and master serve, the page comes to its end:   *)
(* no file is polled for ever.                                             *)
PageComesToAnEnd == [](admin.up /\ Serving) => <>PageFinished

(* When the server stops or dies before it has answered the upload of a    *)
(* file, the page marks that file and all that follow and comes to its end.*)
PageEndsWithTheServer ==
  /\ ~admin.up
  /\ \/ page.at = "submit"
     \/ page.at = "response" /\ replies[File] = <<>>
  ~> PageFinished

(* A duplicate or partial duplicate shown for a file was the result of an  *)
(* upload that finished: results are never made up or shown twice.         *)
ShownResults == {f \in FileRequests : shown[f] \in {"partial", "warning"}}

ResultsAreReal ==
  \E owner \in [ShownResults -> {r \in Requests : KindOf[r] = "learn"}] :
    /\ \A f, g \in ShownResults : owner[f] = owner[g] => f = g
    /\ \A f \in ShownResults : StatusOf(outcome[owner[f]]) = shown[f]

(* admin.js: "All documents learned."                                      *)
FinishedMeansLearned ==
  PageFinished /\ (\A f \in FileRequests : shown[f] # "error")
    => \A f \in FileRequests : promise[f] = "value"
=============================================================================
