------------------------------ MODULE Learning ------------------------------
(***************************************************************************)
(* What DocStore leaves out: the vocabulary with its indices, the network  *)
(* with its flat arrays, the threads of train_batch, and the sizes that    *)
(* load_state recovers from the saved arrays.  add_document holds the      *)
(* store's lock throughout, so that beside it only its own threads run.    *)
(*                                                                         *)
(* Chunks that repeat within a document, ids without a chunk and files     *)
(* that cannot be written are DocStore's matter and left out here.         *)
(***************************************************************************)
EXTENDS Texts, Vocabulary, Network

CONSTANTS
  Docs,        \* documents: sequences of lines, a line a sequence of tokens
  Samples,     \* texts whose splitting is checked
  TagLists,    \* the tag phrases of an upload: sequences of sequences of tokens
  Epochs       \* 100 in add_document

ASSUME LearningConstants ==
  /\ Epochs \in Nat
  /\ Docs \cup Samples \subseteq Seq(Seq(Token)) /\ TagLists \subseteq Seq(Seq(Token))
  /\ \A doc \in Docs : IsInjective(SplitIntoChunks(doc))

VARIABLES
  vocab,    \* the Vocabulary
  net,      \* the NeuralNetwork
  tables,   \* the database: chunks in the order of their ids, vocab, model
  file,     \* the persistent copy of the database
  upload,   \* add_document: what it does, its epochs left, its cached vectors
  threads   \* the threads of train_batch: the samples each has, its gradients

vars == <<vocab, net, tables, file, upload, threads>>

Idle == [doing |-> "nothing", left |-> 0, flag |-> FALSE, inputs |-> <<>>]

NoModel == [w1 |-> <<>>, b1 |-> <<>>, w2 |-> <<>>, b2 |-> <<>>]
-----------------------------------------------------------------------------
(* load_state: the model table has no sizes, only arrays.                  *)
Sized(model) ==
  LET hn == Len(model.b1)
  IN  [in  |-> IF hn > 0 THEN Len(model.w1) \div hn ELSE 0, out |-> Len(model.b2),
       w1 |-> model.w1, b1 |-> model.b1, w2 |-> model.w2, b2 |-> model.b2]

IsModel(n) == n.w1 # <<>> /\ n.w2 # <<>> /\ n.in > 0 /\ n.out > 0

LoadedVocab(d) ==
  [words |-> [i \in DOMAIN d.rows |-> d.rows[i].word],
   index |-> [w \in {d.rows[i].word : i \in DOMAIN d.rows} |->
                (CHOOSE i \in DOMAIN d.rows : d.rows[i].word = w) - 1],
   df    |-> [i \in DOMAIN d.rows |-> d.rows[i].df],
   docs  |-> Len(d.chunks)]

LoadedNet(d) ==
  LET n == Sized(d.model)
  IN  ExpandInputs(IF IsModel(n) THEN n
                   ELSE NewNet(Larger(1, Len(d.rows)), Larger(1, Len(d.chunks))),
                   Len(d.rows))

(* save_state.                                                             *)
Saved(d, v, n) ==
  [d EXCEPT !.rows = [i \in DOMAIN v.words |-> [word |-> v.words[i], df |-> v.df[i]]],
            !.model = [w1 |-> n.w1, b1 |-> n.b1, w2 |-> n.w2, b2 |-> n.b2]]
-----------------------------------------------------------------------------
(* add_document up to its epochs: unique_chunks, and their tokens (clean_text*)
(* makes blanks of newlines).                                              *)
Stored == {tables.chunks[i].text : i \in DOMAIN tables.chunks}

AddNew(fresh, text) == IF text \in Stored THEN fresh ELSE Append(fresh, text)

NewChunks(doc) == FoldLeft(AddNew, <<>>, SplitIntoChunks(doc))

Tokens(text) == FlattenSeq(text)

Upload(doc, tags, flag) ==
  LET fresh  == NewChunks(doc)
      texts  == [i \in DOMAIN fresh |-> Tokens(fresh[i])]
      tagged == FoldLeft(AddWords, vocab, tags)
      full   == FoldLeft(AddWords, tagged, texts)
      chunks == tables.chunks \o
                [i \in DOMAIN fresh |-> [text |-> fresh[i], tags |-> ToSet(tags)]]
      wide   == IF Len(full.words) > Len(tagged.words)
                THEN ExpandInputs(net, Len(full.words)) ELSE net
  IN  /\ upload.doing = "nothing"
      /\ fresh # <<>>
      /\ vocab' = FoldLeft(CountDocument, full, texts)
      /\ net' = ExpandOutputs(wide, Len(chunks))
      /\ tables' = [tables EXCEPT !.chunks = chunks]
      /\ upload' = [doing |-> "epochs", left |-> Epochs, flag |-> flag,
                    inputs |-> [id \in DOMAIN chunks |-> ChunkVector(vocab',
                                    [chunks[id] EXCEPT !.text = Tokens(@)])]]
      /\ UNCHANGED <<file, threads>>

(* train_batch returns at once when a vector has another size than the     *)
(* input layer.                                                            *)
SkipBatch ==
  /\ upload.doing = "epochs" /\ upload.left > 0
  /\ \E id \in DOMAIN upload.inputs : Len(upload.inputs[id]) # net.in
  /\ upload' = [upload EXCEPT !.left = @ - 1]
  /\ UNCHANGED <<vocab, net, tables, file, threads>>

(* Otherwise it starts its threads: sample n, from 0, is row n + 1 of the  *)
(* cache, and its label is n.                                              *)
StartBatch ==
  LET N == Len(upload.inputs)
  IN  /\ upload.doing = "epochs" /\ upload.left > 0
      /\ \A id \in DOMAIN upload.inputs : Len(upload.inputs[id]) = net.in
      /\ threads' = [t \in 0..NumThreads - 1 |->
           [next |-> IF t \in Launched(N) THEN First(N, t) ELSE N,
            end  |-> IF t \in Launched(N) THEN Beyond(N, t) ELSE N,
            done |-> t \notin Launched(N), sum |-> NoGradient(net)]]
      /\ upload' = [upload EXCEPT !.doing = "batch"]
      /\ UNCHANGED <<vocab, net, tables, file>>

LearnSample(t) ==
  LET n == threads[t].next
  IN  /\ upload.doing = "batch"
      /\ n < threads[t].end
      /\ threads' = [threads EXCEPT ![t].next = n + 1,
                       ![t].sum = Accumulated(@, net, upload.inputs[n + 1], n)]
      /\ UNCHANGED <<vocab, net, tables, file, upload>>

(* The thread hands its sums over and ends.                                *)
EndThread(t) ==
  /\ upload.doing = "batch"
  /\ threads[t].next = threads[t].end /\ ~threads[t].done
  /\ threads' = [threads EXCEPT ![t].done = TRUE]
  /\ UNCHANGED <<vocab, net, tables, file, upload>>

(* After the joins, the sums of all threads change the weights.            *)
EndBatch ==
  /\ upload.doing = "batch"
  /\ \A t \in DOMAIN threads : threads[t].done
  /\ net' = FoldLeft(Updated, net, [i \in 1..NumThreads |-> threads[i - 1].sum])
  /\ upload' = [upload EXCEPT !.doing = "epochs", !.left = @ - 1]
  /\ threads' = <<>>
  /\ UNCHANGED <<vocab, tables, file>>

EndUpload ==
  /\ upload.doing = "epochs" /\ upload.left = 0
  /\ tables' = Saved(tables, vocab, net)
  /\ file' = IF upload.flag THEN tables' ELSE file
  /\ upload' = Idle
  /\ UNCHANGED <<vocab, net, threads>>

(* Serialization asked for, or following a new UML container.              *)
Serialize ==
  /\ upload.doing = "nothing"
  /\ file' = tables
  /\ UNCHANGED <<vocab, net, tables, upload, threads>>

(* The process ends, wherever it is, and is started again.                 *)
Restart ==
  /\ tables' = file
  /\ vocab' = LoadedVocab(file)
  /\ net' = LoadedNet(file)
  /\ upload' = Idle
  /\ threads' = <<>>
  /\ UNCHANGED file
-----------------------------------------------------------------------------
Init ==
  /\ tables = [chunks |-> <<>>, rows |-> <<>>, model |-> NoModel]
  /\ file = tables
  /\ vocab = LoadedVocab(tables)
  /\ net = LoadedNet(tables)
  /\ upload = Idle
  /\ threads = <<>>

Next ==
  \/ \E doc \in Docs, tags \in TagLists, flag \in BOOLEAN : Upload(doc, tags, flag)
  \/ SkipBatch \/ StartBatch \/ EndBatch \/ EndUpload
  \/ \E t \in DOMAIN threads : LearnSample(t) \/ EndThread(t)
  \/ Serialize \/ Restart

Spec == Init /\ [][Next]_vars
-----------------------------------------------------------------------------
(* What an empty store takes of a document is the document: its lines in   *)
(* their order, cut where the limit asks for it and nowhere else, with no  *)
(* line lost but blank ones (split_into_chunks, store.cpp:434).            *)
ChunksKeepTheText ==
  tables.chunks = <<>> =>
    \A lines \in Docs \cup Samples : IsSplitting(lines, NewChunks(lines))

(* Shape of the network: the arrays are as long as the sizes say, in memory*)
(* and when the sizes are read off the saved arrays again.                 *)
NetShape(n) ==
  /\ n.in \in Nat \ {0} /\ n.out \in Nat \ {0}
  /\ Len(n.w1) = n.in * Hidden /\ Len(n.b1) = Hidden
  /\ Len(n.w2) = Hidden * n.out /\ Len(n.b2) = n.out

(* Type invariant.                                                         *)
LearningTypeOK ==
  /\ NetShape(net)
  /\ \A d \in {tables, file} : d.model = NoModel \/ NetShape(Sized(d.model))
  /\ \A id \in DOMAIN upload.inputs : Len(upload.inputs[id]) = Len(vocab.words)
  /\ DOMAIN threads \in {{}, 0..NumThreads - 1}

(* word2idx and words say the same, and what the database would be loaded  *)
(* as is what runs, whatever was added since in which order.               *)
IndexIsInverse ==
  /\ DOMAIN vocab.index = ToSet(vocab.words) /\ Len(vocab.df) = Len(vocab.words)
  /\ \A i \in DOMAIN vocab.words : vocab.index[vocab.words[i]] = i - 1
  /\ upload = Idle => LoadedVocab(tables) = vocab

(* The rows of weights that a word, and a chunk, stands for.               *)
InputRows(v, n) ==
  [w \in {v.words[i] : i \in 1..Smaller(n.in, Len(v.words))} |->
     [j \in 1..Hidden |-> At(n.w1, v.index[w] * Hidden + j - 1)]]

OutputRows(n) ==
  [c \in 1..n.out |->
     [j \in 0..Hidden |-> IF j = 0 THEN [born |-> <<3, c>>, seen |-> n.b2[c]]
                                   ELSE At(n.w2, (j - 1) * n.out + c - 1)]]

Meaning(d, v, n) ==
  [chunks |-> [c \in DOMAIN d.chunks |->
     LET tokens == Tokens(d.chunks[c].text)
     IN  [words |-> UNION {ToSet(t) \cup ToSet(Bigrams(t)) : t \in {tokens} \cup d.chunks[c].tags},
          tokens |-> ToSet(tokens)]],
   inputs |-> InputRows(v, n), outputs |-> OutputRows(n)]

Net == INSTANCE Connections WITH
         live <- Meaning(tables, vocab, net),
         kept <- Meaning(file, LoadedVocab(file), LoadedNet(file))

(* Words and chunks have the weights they were given and trained with: no  *)
(* growth of the arrays, no share of the threads, no save and no restart   *)
(* gives a row to another word or chunk, and a pass learns every chunk     *)
(* exactly once.                                                           *)
IsConnections == Net!Spec
=============================================================================
