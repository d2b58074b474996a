----------------------------- MODULE Connections -----------------------------
(***************************************************************************)
(* What the network means: one row of weights per word and one per chunk,  *)
(* whatever arrays, indices and threads they are kept with.  A weight      *)
(* remembers where it was born, and how many samples were learned by it.   *)
(***************************************************************************)
EXTENDS Naturals, Sequences, FiniteSets

VARIABLES live,   \* [chunks, inputs, outputs] of the running process
          kept    \* the same in the file

vars == <<live, kept>>

Extends(new, old) == DOMAIN old \subseteq DOMAIN new /\ \A x \in DOMAIN old : new[x] = old[x]

Unlearned(row) == \A j \in DOMAIN row : row[j].seen = 0

(* New words and chunks come with weights of their own; nobody else's      *)
(* change.                                                                 *)
Grow ==
  /\ Extends(live'.chunks, live.chunks)
  /\ Extends(live'.inputs, live.inputs)
  /\ Extends(live'.outputs, live.outputs)
  /\ \A w \in DOMAIN live'.inputs \ DOMAIN live.inputs : Unlearned(live'.inputs[w])
  /\ \A c \in DOMAIN live'.outputs \ DOMAIN live.outputs : Unlearned(live'.outputs[c])
  /\ UNCHANGED kept

Learned(row, n) == [j \in DOMAIN row |-> [row[j] EXCEPT !.seen = @ + n]]

(* A word weighs in a chunk when it or its tags have it, and when it is a  *)
(* word of its own, not only a pair of words, in some chunk: only those    *)
(* are counted, and what is not counted weighs nothing (Vocabulary::idf).  *)
Weighs(w, c) ==
  /\ w \in live.chunks[c].words
  /\ \E d \in DOMAIN live.chunks : w \in live.chunks[d].tokens

(* One pass: every chunk is learned once by each of its words and once     *)
(* under its own label.                                                    *)
Train ==
  /\ live' = [live EXCEPT
       !.inputs  = [w \in DOMAIN live.inputs |-> Learned(live.inputs[w],
                      Cardinality({c \in DOMAIN live.chunks : Weighs(w, c)}))],
       !.outputs = [c \in DOMAIN live.outputs |-> Learned(live.outputs[c], 1)]]
  /\ UNCHANGED kept

(* What is read back may have inputs for words that had none.              *)
Save ==
  /\ UNCHANGED live
  /\ kept'.chunks = live.chunks /\ kept'.outputs = live.outputs
  /\ Extends(kept'.inputs, live.inputs)
  /\ \A w \in DOMAIN kept'.inputs \ DOMAIN live.inputs : Unlearned(kept'.inputs[w])

Reopen == live' = kept /\ UNCHANGED kept

Init == /\ live.chunks = <<>> /\ live.inputs = <<>>
        /\ \A c \in DOMAIN live.outputs : Unlearned(live.outputs[c])
        /\ kept = live

Next == Grow \/ Train \/ Save \/ Reopen

Spec == Init /\ [][Next]_vars
=============================================================================
