------------------------------ MODULE DocStore ------------------------------
(***************************************************************************)
(* The document store of the master process (src/src/store.cpp): an        *)
(* in-memory SQLite database, the vocabulary and the network trained over  *)
(* it, and the file that serialize() copies the database to.  Every        *)
(* operation that writes holds the store's lock from its first statement   *)
(* to its last, so each is one action.                                     *)
(*                                                                         *)
(* Texts are chunk texts, Tags are tag phrases as add_document leaves them *)
(* (split at ';', trimmed, blanks turned into '_').  What the vocabulary   *)
(* makes of either is a constant function: its valid words and bigrams.    *)
(* A vocabulary is the set of its words; the index of a word is saved and  *)
(* loaded as it is, and no property below depends on it.                   *)
(***************************************************************************)
EXTENDS Naturals, Sequences, FiniteSets

CONSTANTS
  Texts,        \* chunk texts
  Tags,         \* tag phrases
  Words,        \* vocabulary entries
  TextWords,    \* [Texts -> SUBSET Words]: what add_words takes from a text
  TextTokens,   \* [Texts -> SUBSET (Words \X Nat)]: the words add_document counts
                \* in it, each with the positions where it stands
  TagWords,     \* [Tags -> SUBSET Words]: what add_words takes from a tag
  Docs,         \* uploaded documents: their chunk sequences
  UmlNames,     \* names of UML containers
  FeedbackIds,  \* chunk ids that IPC command 0x06 (add_tag) may carry
  MaxVocab,     \* Vocabulary::MAX_VOCAB
  DiskFaults    \* whether serialize() may fail to write

ASSUME StoreConstants ==
  /\ Docs \subseteq Seq(Texts)
  /\ Texts \cap {"Tag matched but chunk not found", "No chunk found"} = {}
  /\ TextWords \in [Texts -> SUBSET Words]
  /\ TextTokens \in [Texts -> SUBSET (Words \X Nat)]
  /\ \A t \in Texts : IsFiniteSet(TextTokens[t])
       \* a token that is in the vocabulary is valid, and add_words takes it
  /\ \A t \in Texts : \A o \in TextTokens[t] : o[1] \in TextWords[t]
  /\ TagWords \in [Tags -> SUBSET Words]
  /\ IsFiniteSet(Words)
  /\ FeedbackIds \subseteq Nat
  /\ MaxVocab \in Nat
  /\ DiskFaults \in BOOLEAN

VARIABLES
  db,      \* the in-memory database: tables chunks, chunk_tags, vocab, model, uml
  vocab,   \* the vocabulary object: its words, df and doc_count
  net,     \* the network: input and output sizes, chunk ids it was trained on
  disk,    \* the persistent database file
  result   \* last_upload_result_

vars == <<db, vocab, net, disk, result>>

Max2(a, b) == IF a >= b THEN a ELSE b

(* An empty model table loads as sizes 0, which load_state rejects.        *)
NoModel == [in |-> 0, out |-> 0, learned |-> {}]

EmptyDb == [chunks |-> <<>>, tags |-> {}, words |-> {},
            df |-> [w \in Words |-> 0], model |-> NoModel, uml |-> {}]

Ids(d)    == DOMAIN d.chunks
Stored(d) == {d.chunks[id] : id \in Ids(d)}
-----------------------------------------------------------------------------
(* Mutant of LoadedVocab: the document frequencies are not loaded.         *)
LoadedVocabWithoutDf(d) ==
  [words |-> d.words, df |-> [w \in Words |-> 0], docs |-> Cardinality(Ids(d))]

(* Loading: what load_state makes of a database.                           *)
LoadedVocab(d) == [words |-> d.words, df |-> d.df, docs |-> Cardinality(Ids(d))]

LoadedNet(d) ==
  LET m == IF d.model.in > 0 /\ d.model.out > 0
           THEN d.model
           ELSE [in |-> Max2(1, Cardinality(d.words)),
                 out |-> Max2(1, Cardinality(Ids(d))), learned |-> {}]
  IN  [m EXCEPT !.in = Max2(m.in, Cardinality(d.words))]

(* Mutant of Persisted: the file is written before the tables are.         *)
PersistedTooEarly(d) == IF DiskFaults THEN {db, disk} ELSE {db}

(* What serialize() leaves in the file: the backup replaces the whole file *)
(* in one SQLite transaction, and a failure is logged and swallowed.       *)
Persisted(d) == IF DiskFaults THEN {d, disk} ELSE {d}

(* Mutants of Saved: the model is saved before it is expanded; the vocab   *)
(* table is not written.                                                   *)
SavedBeforeExpansion(d, v, n) == [d EXCEPT !.words = v.words, !.df = v.df, !.model = net]
SavedModelOnly(d, v, n) == [d EXCEPT !.model = n]

(* save_state: the vocabulary and the network as database tables.          *)
Saved(d, v, n) == [d EXCEPT !.words = v.words, !.df = v.df, !.model = n]

(* Mutant of Trained: the cache is not rebuilt, only new rows are learned. *)
TrainedNewRowsOnly(n, size, ids) ==
  IF ids # {} /\ size = n.in
  THEN [n EXCEPT !.learned = @ \cup (ids \ Ids(db))]
  ELSE n

(* One pass of train_batch over the rebuilt cache.  With a vector that is  *)
(* not as long as the input layer, or with no vector, nothing is trained;  *)
(* a label beyond the output layer matches no output.                      *)
Trained(n, size, ids) ==
  IF ids # {} /\ size = n.in
  THEN [n EXCEPT !.learned = {id \in ids : id \in 1..n.out}]
  ELSE n
-----------------------------------------------------------------------------
(* add_document, in its parts.                                             *)

(* Positions of the chunks that are not in the table: unique_chunks.       *)
Fresh(doc) == {i \in DOMAIN doc : doc[i] \notin Stored(db)}

LastId == IF Ids(db) = {} THEN 0
          ELSE CHOOSE id \in Ids(db) : \A other \in Ids(db) : other <= id

(* Mutant of RowId: MAX(id) instead of MAX(id) + 1.                        *)
RowIdFromLast(doc, i) == LastId + Cardinality({j \in Fresh(doc) : j < i})

(* next_id when the insert loop reaches position i of unique_chunks.       *)
RowId(doc, i) == LastId + 1 + Cardinality({j \in Fresh(doc) : j < i})

(* chunks.text is UNIQUE: a later copy within the document is not inserted *)
(* although its id is used up and its tags are.                            *)
Inserted(doc) ==
  {i \in Fresh(doc) : \A j \in Fresh(doc) : j < i => doc[j] # doc[i]}

RowIds(doc, P) == {RowId(doc, i) : i \in P}

ChunksWith(doc) ==
  [id \in Ids(db) \cup RowIds(doc, Inserted(doc)) |->
     IF id \in Ids(db) THEN db.chunks[id]
     ELSE doc[CHOOSE i \in Inserted(doc) : RowId(doc, i) = id]]

(* Mutant of Grown: no MAX_VOCAB.                                          *)
GrownWithoutLimit(words, more) == {words \cup more}

(* add_words up to MAX_VOCAB; which words fit depends on their order in    *)
(* the text, so any choice that fills the vocabulary is possible.          *)
Grown(words, more) ==
  {g \in SUBSET (words \cup more) :
     /\ words \subseteq g
     /\ \/ g = words \cup more /\ Cardinality(g) <= MaxVocab
        \/ Cardinality(g) = MaxVocab}

WordsOfTags(T)   == UNION {TagWords[t] : t \in T}
WordsOfText(doc) == UNION {TextWords[doc[i]] : i \in Fresh(doc)}

(* Where the texts of a family have a word.                                *)
Occurrences(w, text) ==
  UNION {{i} \X {o \in TextTokens[text[i]] : o[1] = w} : i \in DOMAIN text}

(* Vocabulary::add_document for each unique chunk: df counts occurrences.  *)
CountedVocab(doc, words) ==
  [words |-> words,
   df    |-> [w \in Words |-> IF w \in words
                THEN vocab.df[w] +
                     Cardinality(Occurrences(w, [i \in Fresh(doc) |-> doc[i]]))
                ELSE vocab.df[w]],
   docs  |-> vocab.docs + Cardinality(Fresh(doc))]

(* Mutants of GrownNet: outputs for the next id and not for the rows; the  *)
(* input layer grown by what was added and not to what there is.           *)
GrownNetForNextId(tagged, words, rows) ==
  [net EXCEPT !.in = IF Cardinality(words) > Cardinality(tagged)
                     THEN Max2(net.in, Cardinality(words)) ELSE net.in,
              !.out = Max2(net.out, rows + 1)]

GrownNetByDifference(tagged, words, rows) ==
  [net EXCEPT !.in = net.in + (Cardinality(words) - Cardinality(tagged)),
              !.out = Max2(net.out, rows)]

(* The input layer grows only when the texts added words, the output layer *)
(* with the number of rows.                                                *)
GrownNet(tagged, words, rows) ==
  [net EXCEPT
     !.in  = IF Cardinality(words) > Cardinality(tagged)
             THEN Max2(net.in, Cardinality(words)) ELSE net.in,
     !.out = Max2(net.out, rows)]

RejectDuplicate(doc) ==
  /\ Fresh(doc) = {}
  /\ result' = "DUPLICATE"
  /\ UNCHANGED <<db, vocab, net, disk>>

StoreDocument(doc, T, serialization) ==
  /\ Fresh(doc) # {}
  /\ result' = IF Fresh(doc) = DOMAIN doc THEN "OK" ELSE "PARTIAL"
  /\ \E tagged \in Grown(vocab.words, WordsOfTags(T)) :
       \E words \in Grown(tagged, WordsOfText(doc)) :
         LET chunks == ChunksWith(doc)
             ids    == DOMAIN chunks
             grown  == GrownNet(tagged, words, Cardinality(ids))
         IN  /\ vocab' = CountedVocab(doc, words)
             /\ net' = Trained(grown, Cardinality(words), ids)
             /\ db' = Saved([db EXCEPT !.chunks = chunks,
                               !.tags = @ \cup (RowIds(doc, Fresh(doc)) \X T)],
                            vocab', net')
  /\ IF serialization THEN disk' \in Persisted(db') ELSE UNCHANGED disk

AddDocument(doc, T, serialization) ==
  \/ RejectDuplicate(doc)
  \/ StoreDocument(doc, T, serialization)
-----------------------------------------------------------------------------
(* The other writers.                                                      *)
AddTag(tag, id) ==
  LET grown == [net EXCEPT !.out = Max2(net.out, Cardinality(Ids(db)))]
  IN  /\ net' = Trained(grown, Cardinality(vocab.words), Ids(db))
      /\ db' = Saved([db EXCEPT !.tags = @ \cup {<<id, tag>>}], vocab, net')
      /\ UNCHANGED <<vocab, disk, result>>

Serialize == disk' \in Persisted(db) /\ UNCHANGED <<db, vocab, net, result>>

(* A new container is followed by serialize() of the whole database; a     *)
(* name that exists changes nothing.                                       *)
CreateUmlContainer(name) ==
  /\ name \notin db.uml
  /\ db' = [db EXCEPT !.uml = @ \cup {name}]
  /\ disk' \in Persisted(db')
  /\ UNCHANGED <<vocab, net, result>>

(* The process ends, in whatever way, and the constructor runs again:      *)
(* load_from_persistent, then load_state.                                  *)
Restart ==
  /\ db' = disk
  /\ vocab' = LoadedVocab(disk)
  /\ net' = LoadedNet(disk)
  /\ result' = "OK"
  /\ UNCHANGED disk
-----------------------------------------------------------------------------
Init ==
  /\ db = EmptyDb
  /\ disk = EmptyDb
  /\ vocab = LoadedVocab(EmptyDb)
  /\ net = LoadedNet(EmptyDb)
  /\ result = "OK"

Next ==
  \/ \E doc \in Docs, T \in SUBSET Tags, serialization \in BOOLEAN :
       AddDocument(doc, T, serialization)
  \/ \E tag \in Tags, id \in FeedbackIds : AddTag(tag, id)
  \/ Serialize
  \/ \E name \in UmlNames : CreateUmlContainer(name)
  \/ Restart

Spec == Init /\ [][Next]_vars
-----------------------------------------------------------------------------
(* What get_answer can say to a prompt whose words and bigrams match the   *)
(* tags T: the chunk of the first tag row (SQL leaves the order open), or  *)
(* else what the network's outputs stand for.                              *)
Lookup(id, missing) == IF id \in Ids(db) THEN db.chunks[id] ELSE missing

Answers(T) ==
  LET candidates == {row[1] : row \in {r \in db.tags : r[2] \in T}}
  IN  IF candidates # {}
      THEN {Lookup(id, "Tag matched but chunk not found") : id \in candidates}
      ELSE IF Cardinality(vocab.words) # net.in THEN {"Model mismatch"}
      ELSE {Lookup(idx + 1, "No chunk found") : idx \in 0..net.out - 1}
-----------------------------------------------------------------------------
(* Types.                                                                  *)
NetType == [in : Nat, out : Nat, learned : SUBSET Nat]

DbOK(d) ==
  /\ d \in [chunks : {d.chunks}, tags : SUBSET (Nat \X Tags),
            words : SUBSET Words, df : [Words -> Nat],
            model : NetType, uml : SUBSET UmlNames]
  /\ d.chunks \in [Ids(d) -> Texts]
  /\ Ids(d) \subseteq Nat \ {0} /\ IsFiniteSet(Ids(d))

(* Type invariant: the database and the file are sets of well-formed rows, *)
(* the network's layers are never empty.                                   *)
TypeOK ==
  /\ DbOK(db) /\ DbOK(disk)
  /\ vocab \in [words : SUBSET Words, df : [Words -> Nat], docs : Nat]
  /\ net \in NetType /\ net.in > 0 /\ net.out > 0
  /\ result \in {"OK", "PARTIAL", "DUPLICATE"}

(* No document holds the same chunk twice.  split_into_chunks does not     *)
(* promise this: a file of repeating lines splits into equal chunks.       *)
NoRepeats == \A doc \in Docs : \A i, j \in DOMAIN doc : doc[i] = doc[j] => i = j

(* get_answer never reaches "Tag matched but chunk not found" or "No chunk *)
(* found": whatever is tagged or predicted, through any order of uploads,  *)
(* saves and restarts, is a row of the chunks table.                       *)
NoDanglingAnswer ==
  \A T \in SUBSET Tags :
    Answers(T) \cap {"Tag matched but chunk not found", "No chunk found"} = {}

(* The ids of the chunks, the network's outputs and the saved outputs stay *)
(* in step, in memory and in the file: the labels id - 1 that add_document *)
(* trains on are exactly the outputs.                                      *)
OutputsAreChunks ==
  /\ Ids(db) = 1..db.model.out /\ Ids(disk) = 1..disk.model.out
  /\ net.out = Max2(1, db.model.out)

(* doc_count and df describe the chunks that are stored, also after a      *)
(* restart took some of them away; idf() is computed from both.            *)
StatisticsExact ==
  /\ vocab.docs = Cardinality(Ids(db))
  /\ \A w \in vocab.words :
       vocab.df[w] = Cardinality(Occurrences(w, db.chunks))

(* train_batch learns nothing when vocabulary and network differ in size,  *)
(* and the upload is answered OK all the same.  What was skipped is caught *)
(* up with: an upload learns every stored chunk, its own and those skipped *)
(* before, if its text has a new word or if the sizes agree and nothing is *)
(* new.  And get_answer, which asks the network only when the sizes agree, *)
(* then asks one that has learned every chunk, until a restart makes the   *)
(* sizes agree without learning.                                           *)
SizesAgree == net.in = Cardinality(vocab.words)
AllLearned == net.learned = Ids(db)

NewTags == {row[2] : row \in db'.tags \ db.tags}

EveryChunkLearned ==
  /\ [][/\ Ids(db') \ Ids(db) # {}
        /\ \/ vocab'.words \ (vocab.words \cup WordsOfTags(NewTags)) # {}
           \/ SizesAgree /\ vocab'.words = vocab.words
        => AllLearned' \/ Restart]_vars
  /\ [][(SizesAgree => AllLearned) => (SizesAgree' => AllLearned') \/ Restart]_vars

(* The saved tables are the ones the running objects were last saved to, so*)
(* a backup at any time is as good as one right after a save: only inputs  *)
(* added by load_state may be missing in the saved model, and it adds them *)
(* again.                                                                  *)
SavedStateIsCurrent ==
  /\ db.words = vocab.words /\ db.df = vocab.df
  /\ db.model.out > 0 => LoadedNet(db).out = net.out /\ net.in \in {db.model.in, LoadedNet(db).in}

(* The vocabulary is never smaller than the input layer (the "Vocabulary   *)
(* shrunk" warning of load_state is unreachable) and never above MAX_VOCAB.*)
InputsWithinVocabulary ==
  /\ net.in <= Max2(1, Cardinality(vocab.words))
  /\ disk.model.in <= Max2(1, Cardinality(disk.words))
  /\ Cardinality(vocab.words) <= MaxVocab

(* A vocabulary and a network of different sizes, which get_answer refuses *)
(* to answer from, are made to match by a new start, and by an upload with *)
(* at least one new word in its text, whatever mismatch they find.         *)
MismatchIsRepaired ==
  /\ [][Restart => net'.in = Max2(1, Cardinality(vocab'.words))]_vars
  /\ [][\A doc \in Docs, T \in SUBSET Tags, s \in BOOLEAN :
          /\ vocab'.words \ (vocab.words \cup WordsOfTags(T)) # {}
          /\ AddDocument(doc, T, s)
          => net'.in = Cardinality(vocab'.words)]_vars

(* get_answer: "Model mismatch. Please re-upload documents."               *)
ReuploadMatches ==
  [][\A doc \in Docs, T \in SUBSET Tags, s \in BOOLEAN :
       AddDocument(doc, T, s) /\ Fresh(doc) = {} /\ doc # <<>>
         => net'.in = Cardinality(vocab'.words)]_vars

(* The store is a durable library of chunk texts and container names.      *)
ItemsOf(d) == ({"text"} \X Stored(d)) \cup ({"uml"} \X d.uml)

Library == INSTANCE DurableLibrary
             WITH Items <- ({"text"} \X Texts) \cup ({"uml"} \X UmlNames),
                  live <- ItemsOf(db), kept <- ItemsOf(disk)

IsDurableLibrary == Library!Spec
=============================================================================
