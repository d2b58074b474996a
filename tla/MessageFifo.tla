---------------------------- MODULE MessageFifo ----------------------------
(***************************************************************************)
(* What an IpcSocket pair promises in one direction: the messages come out *)
(* whole, each once, in the order they went in, and as long as both ends   *)
(* are up every one of them comes out.  Bytes, buffers and partial reads   *)
(* are not seen here.                                                      *)
(***************************************************************************)
EXTENDS Naturals, Sequences

CONSTANT Messages

VARIABLES sent,       \* the messages given to send, in order
          received,   \* the messages recv has returned, in order
          open        \* the ends still open: "writer", "reader"

vars == <<sent, received, open>>

Ends == {"writer", "reader"}

Init == sent = <<>> /\ received = <<>> /\ open = Ends

Send(m) ==
  /\ "writer" \in open
  /\ sent' = Append(sent, m)
  /\ UNCHANGED <<received, open>>

Receive ==
  /\ "reader" \in open
  /\ Len(received) < Len(sent)
  /\ received' = Append(received, sent[Len(received) + 1])
  /\ UNCHANGED <<sent, open>>

Close(end) ==
  /\ end \in open
  /\ open' = open \ {end}
  /\ UNCHANGED <<sent, received>>

Next == \/ \E m \in Messages : Send(m)
        \/ Receive
        \/ \E end \in Ends : Close(end)

SafeSpec == Init /\ [][Next]_vars

Spec == SafeSpec /\ WF_vars(Receive /\ open = Ends)
=============================================================================
