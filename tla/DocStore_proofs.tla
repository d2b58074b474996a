-------------------------- MODULE DocStore_proofs --------------------------
(***************************************************************************)
(* Proofs about the document store: its type invariant, and that it is a   *)
(* durable library, for all texts, words, documents and faults; that its   *)
(* vocabulary, input layer and saved tables stay in step; and, for         *)
(* documents without repeated chunks, that ids, outputs, labels and counts *)
(* do, and what is stored is learned, at once or later.                    *)
(***************************************************************************)
EXTENDS DocStore, FunctionTheorems, FiniteSetTheorems, TLAPS

(* Of these, what is said of finite sets of numbers.                       *)
INSTANCE FoldTheorems WITH Op <- Max2

-----------------------------------------------------------------------------
(***************************************************************************)
(* The operators of the store.                                             *)
(***************************************************************************)
VocabType == [words : SUBSET Words, df : [Words -> Nat], docs : Nat]

(* Any set of positions in a document is a finite set of numbers.          *)
LEMMA PositionsFinite ==
  ASSUME NEW doc \in Docs, NEW P, P \subseteq DOMAIN doc
  PROVE  P \subseteq Nat \ {0} /\ IsFiniteSet(P) /\ Cardinality(P) \in Nat
<1>1. doc \in Seq(Texts)
  BY StoreConstants DEF StoreConstants
<1>2. DOMAIN doc = 1..Len(doc) /\ Len(doc) \in Nat
  BY <1>1
<1>3. IsFiniteSet(DOMAIN doc)
  BY <1>2, FS_Interval
<1> QED  BY <1>2, <1>3, FS_Subset, FS_CardinalityType

(* A set of words is finite, and its cardinality is a number.              *)
LEMMA WordsFinite ==
  ASSUME NEW W \in SUBSET Words
  PROVE  IsFiniteSet(W) /\ Cardinality(W) \in Nat
BY StoreConstants, FS_Subset, FS_CardinalityType DEF StoreConstants

(* SELECT MAX(id): no row has a larger id.                                 *)
LEMMA LastIdIsLast ==
  ASSUME DbOK(db)
  PROVE  /\ LastId \in Nat
         /\ \A id \in Ids(db) : id <= LastId
         /\ Ids(db) # {} => LastId \in Ids(db)
<1>1. Ids(db) \subseteq Nat /\ IsFiniteSet(Ids(db))
  BY DEF DbOK
<1>2. CASE Ids(db) = {}
  BY <1>2 DEF LastId
<1>3. CASE Ids(db) # {}
  <2>1. \E id \in Ids(db) : \A other \in Ids(db) : other <= id
    BY <1>1, <1>3, LargestExists
  <2> QED  BY <1>1, <1>3, <2>1 DEF LastId
<1> QED  BY <1>2, <1>3

(* The id given to a position is a number above every id in the table.     *)
LEMMA RowIdIsNew ==
  ASSUME DbOK(db), NEW doc \in Docs, NEW i \in DOMAIN doc
  PROVE  RowId(doc, i) \in Nat \ {0} /\ RowId(doc, i) \notin Ids(db)
<1> DEFINE before == {j \in Fresh(doc) : j < i}
<1>1. Cardinality(before) \in Nat
  <2>1. before \subseteq DOMAIN doc
    BY DEF Fresh
  <2> HIDE DEF before
  <2> QED  BY <2>1, PositionsFinite
<1>2. RowId(doc, i) = LastId + 1 + Cardinality(before)
  BY DEF RowId
<1>3. LastId \in Nat /\ \A id \in Ids(db) : id <= LastId
  BY LastIdIsLast
<1>4. Ids(db) \subseteq Nat
  BY DEF DbOK
<1> QED  BY <1>1, <1>2, <1>3, <1>4

(* The ids given to a set of positions are finitely many numbers.          *)
LEMMA RowIdsFinite ==
  ASSUME DbOK(db), NEW doc \in Docs, NEW P, P \subseteq DOMAIN doc
  PROVE  RowIds(doc, P) \subseteq Nat \ {0} /\ IsFiniteSet(RowIds(doc, P))
<1> DEFINE f == [i \in P |-> RowId(doc, i)]
<1>1. f \in Surjection(P, RowIds(doc, P))
  BY Fun_IsSurj DEF RowIds
<1>2. IsFiniteSet(P)
  BY PositionsFinite
<1>3. IsFiniteSet(RowIds(doc, P))
  BY <1>1, <1>2, FS_Surjection
<1>4. RowIds(doc, P) \subseteq Nat \ {0}
  BY RowIdIsNew DEF RowIds
<1> QED  BY <1>3, <1>4

(* The insert loop adds rows of the document and changes none.             *)
LEMMA ChunksWithAdds ==
  ASSUME DbOK(db), NEW doc \in Docs
  PROVE  LET c == ChunksWith(doc) IN
         /\ DOMAIN c = Ids(db) \cup RowIds(doc, Inserted(doc))
         /\ DOMAIN c \subseteq Nat \ {0} /\ IsFiniteSet(DOMAIN c)
         /\ c \in [DOMAIN c -> Texts]
         /\ \A id \in Ids(db) : c[id] = db.chunks[id]
<1> DEFINE c == ChunksWith(doc)
<1>0. Inserted(doc) \subseteq DOMAIN doc
  BY DEF Inserted, Fresh
<1>1. DOMAIN c = Ids(db) \cup RowIds(doc, Inserted(doc))
  BY DEF ChunksWith
<1>2. DOMAIN c \subseteq Nat \ {0} /\ IsFiniteSet(DOMAIN c)
  <2>1. RowIds(doc, Inserted(doc)) \subseteq Nat \ {0} /\ IsFiniteSet(RowIds(doc, Inserted(doc)))
    BY <1>0, RowIdsFinite
  <2>2. Ids(db) \subseteq Nat \ {0} /\ IsFiniteSet(Ids(db))
    BY DEF DbOK
  <2> QED  BY <1>1, <2>1, <2>2, FS_Union
<1>3. ASSUME NEW id \in DOMAIN c PROVE c[id] \in Texts
  <2>1. CASE id \in Ids(db)
    BY <2>1 DEF ChunksWith, DbOK
  <2>2. CASE id \notin Ids(db)
    <3>1. id \in RowIds(doc, Inserted(doc))
      BY <1>1, <2>2
    <3>2. \E i \in Inserted(doc) : RowId(doc, i) = id
      BY <3>1 DEF RowIds
    <3> DEFINE k == CHOOSE i \in Inserted(doc) : RowId(doc, i) = id
    <3>3. k \in DOMAIN doc
      BY <3>2, <1>0
    <3>4. c[id] = doc[k]
      BY <2>2 DEF ChunksWith
    <3>5. doc \in Seq(Texts)
      BY StoreConstants DEF StoreConstants
    <3> QED  BY <3>3, <3>4, <3>5
  <2> QED  BY <2>1, <2>2
<1>4. c = [id \in DOMAIN c |-> c[id]]
  BY DEF ChunksWith
<1>5. \A id \in Ids(db) : c[id] = db.chunks[id]
  BY DEF ChunksWith
<1> QED  BY <1>1, <1>2, <1>3, <1>4, <1>5

(* What an upload can add to the vocabulary are words.                     *)
LEMMA WordsOfUpload ==
  ASSUME NEW doc \in Docs, NEW T \in SUBSET Tags
  PROVE  WordsOfTags(T) \in SUBSET Words /\ WordsOfText(doc) \in SUBSET Words
<1>1. \A t \in Tags : TagWords[t] \in SUBSET Words
  BY StoreConstants DEF StoreConstants
<1>2. \A i \in Fresh(doc) : doc[i] \in Texts
  <2>1. doc \in Seq(Texts) /\ Fresh(doc) \subseteq DOMAIN doc
    BY StoreConstants DEF StoreConstants, Fresh
  <2> QED  BY <2>1
<1>3. \A t \in Texts : TextWords[t] \in SUBSET Words
  BY StoreConstants DEF StoreConstants
<1> QED  BY <1>1, <1>2, <1>3 DEF WordsOfTags, WordsOfText

(* add_words only adds words, and only the words of the text.              *)
LEMMA GrownGrows ==
  ASSUME NEW words \in SUBSET Words, NEW more \in SUBSET Words,
         NEW g \in Grown(words, more)
  PROVE  g \in SUBSET Words /\ words \subseteq g
BY DEF Grown

(* save_state writes a well-formed database that keeps all other tables.   *)
LEMMA SavedType ==
  ASSUME NEW d, DbOK(d), NEW n \in NetType,
         NEW v \in VocabType
  PROVE  /\ DbOK(Saved(d, v, n))
         /\ Saved(d, v, n).chunks = d.chunks
         /\ Saved(d, v, n).tags = d.tags
         /\ Saved(d, v, n).uml = d.uml
         /\ Saved(d, v, n).words = v.words
         /\ Saved(d, v, n).model = n
BY DEF DbOK, Saved, Ids, VocabType

(* A training pass changes nothing but what the network has learned.       *)
LEMMA TrainedType ==
  ASSUME NEW n \in NetType, NEW size, NEW ids \in SUBSET Nat
  PROVE  /\ Trained(n, size, ids) \in NetType
         /\ Trained(n, size, ids).in = n.in
         /\ Trained(n, size, ids).out = n.out
BY DEF Trained, NetType

(* The expansions give layers that are no smaller and have room for rows.  *)
LEMMA GrownNetType ==
  ASSUME net \in NetType, NEW tagged \in SUBSET Words, NEW words \in SUBSET Words,
         NEW rows \in Nat
  PROVE  LET n == GrownNet(tagged, words, rows) IN
         /\ n \in NetType /\ n.in >= net.in /\ n.out = Max2(net.out, rows)
         /\ n.in = IF Cardinality(words) > Cardinality(tagged)
                   THEN Max2(net.in, Cardinality(words)) ELSE net.in
<1> DEFINE a == IF Cardinality(words) > Cardinality(tagged)
                THEN Max2(net.in, Cardinality(words)) ELSE net.in
           b == Max2(net.out, rows)
<1>1. net.in \in Nat /\ net.out \in Nat
  BY DEF NetType
<1>2. a \in Nat /\ a >= net.in /\ b \in Nat
  BY <1>1, WordsFinite DEF Max2
<1>3. GrownNet(tagged, words, rows) = [net EXCEPT !.in = a, !.out = b]
  BY DEF GrownNet
<1> HIDE DEF a, b
<1>4. /\ GrownNet(tagged, words, rows) \in NetType
      /\ GrownNet(tagged, words, rows).in = a
      /\ GrownNet(tagged, words, rows).out = b
  BY <1>2, <1>3 DEF NetType
<1> QED  BY <1>2, <1>4 DEF a, b

(* The occurrences of a word in finitely many texts are finitely many.     *)
LEMMA OccurrencesFinite ==
  ASSUME NEW w, NEW text, IsFiniteSet(DOMAIN text),
         \A i \in DOMAIN text : text[i] \in Texts
  PROVE  IsFiniteSet(Occurrences(w, text))
<1> DEFINE at == [i \in DOMAIN text |-> {i} \X {o \in TextTokens[text[i]] : o[1] = w}]
           parts == {{i} \X {o \in TextTokens[text[i]] : o[1] = w} : i \in DOMAIN text}
<1>1. ASSUME NEW i \in DOMAIN text PROVE IsFiniteSet(at[i])
  <2>1. IsFiniteSet(TextTokens[text[i]])
    BY StoreConstants DEF StoreConstants
  <2>2. {o \in TextTokens[text[i]] : o[1] = w} \in SUBSET TextTokens[text[i]]
    OBVIOUS
  <2>3. IsFiniteSet({o \in TextTokens[text[i]] : o[1] = w})
    BY <2>1, <2>2, FS_Subset
  <2>4. IsFiniteSet({i})
    BY FS_Singleton
  <2> QED  BY <2>3, <2>4, FS_Product
<1>2. at \in Surjection(DOMAIN text, parts)
  BY DEF Surjection
<1>3. IsFiniteSet(parts)
  <2> HIDE DEF at, parts
  <2> QED  BY <1>2, FS_Surjection
<1>4. \A part \in parts : IsFiniteSet(part)
  BY <1>1
<1>5. Occurrences(w, text) = UNION parts
  BY DEF Occurrences
<1> HIDE DEF parts
<1> QED  BY <1>3, <1>4, <1>5, FS_UNION

(* A word has a number of occurrences in finitely many texts.              *)
LEMMA OccurrencesNumber ==
  ASSUME NEW w, NEW text, IsFiniteSet(DOMAIN text),
         \A i \in DOMAIN text : text[i] \in Texts
  PROVE  Cardinality(Occurrences(w, text)) \in Nat
BY OccurrencesFinite, FS_CardinalityType

(* The statistics of a vocabulary stay numbers.                            *)
LEMMA CountedVocabType ==
  ASSUME vocab \in VocabType, NEW doc \in Docs, NEW words \in SUBSET Words
  PROVE  /\ CountedVocab(doc, words) \in VocabType
         /\ CountedVocab(doc, words).words = words
<1> DEFINE text == [i \in Fresh(doc) |-> doc[i]]
           count(w) == Cardinality(Occurrences(w, text))
           df == [w \in Words |-> IF w \in words THEN vocab.df[w] + count(w)
                                  ELSE vocab.df[w]]
           docs == vocab.docs + Cardinality(Fresh(doc))
<1>1. vocab.df \in [Words -> Nat] /\ vocab.docs \in Nat
  BY DEF VocabType
<1>2. docs \in Nat
  <2>1. Cardinality(Fresh(doc)) \in Nat
    BY PositionsFinite DEF Fresh
  <2> QED  BY <1>1, <2>1
<1>3. ASSUME NEW w PROVE count(w) \in Nat
  <2>1. Fresh(doc) \subseteq DOMAIN doc /\ IsFiniteSet(Fresh(doc))
    BY PositionsFinite DEF Fresh
  <2>2. doc \in Seq(Texts)
    BY StoreConstants DEF StoreConstants
  <2>3. /\ DOMAIN text = Fresh(doc)
        /\ \A i \in DOMAIN text : text[i] \in Texts
    BY <2>1, <2>2
  <2> HIDE DEF text
  <2> QED  BY <2>1, <2>3, OccurrencesNumber
<1>4. df \in [Words -> Nat]
  <2> HIDE DEF count, text
  <2> QED  BY <1>1, <1>3
<1>5. CountedVocab(doc, words) = [words |-> words, df |-> df, docs |-> docs]
  BY DEF CountedVocab
<1> HIDE DEF df, docs
<1> QED  BY <1>2, <1>4, <1>5 DEF VocabType

(* load_state makes a network with layers that are not empty.              *)
LEMMA LoadedType ==
  ASSUME NEW d, DbOK(d)
  PROVE  /\ LoadedVocab(d) \in VocabType
         /\ LoadedNet(d) \in NetType /\ LoadedNet(d).in > 0 /\ LoadedNet(d).out > 0
<1>1. d.words \in SUBSET Words /\ d.df \in [Words -> Nat] /\ d.model \in NetType
  BY DEF DbOK
<1>2. Cardinality(d.words) \in Nat /\ Cardinality(Ids(d)) \in Nat
  BY <1>1, WordsFinite, FS_CardinalityType DEF DbOK
<1> QED  BY <1>1, <1>2 DEF LoadedVocab, LoadedNet, NetType, VocabType, Max2

(***************************************************************************)
(* The type invariant.                                                     *)
(***************************************************************************)
(* What an upload with new chunks does, apart from its cardinalities.      *)
LEMMA StoreDocumentTypes ==
  ASSUME TypeOK, NEW doc \in Docs, NEW T \in SUBSET Tags,
         NEW s \in BOOLEAN, StoreDocument(doc, T, s)
  PROVE  /\ DbOK(db') /\ vocab' \in VocabType
         /\ net' \in NetType /\ net'.in > 0 /\ net'.out > 0
         /\ net'.in >= net.in
         /\ db'.chunks = ChunksWith(doc) /\ db'.uml = db.uml
         /\ db'.tags = db.tags \cup (RowIds(doc, Fresh(doc)) \X T)
         /\ db'.words = vocab'.words /\ db'.model = net'
         /\ net'.out = Max2(net.out, Cardinality(DOMAIN ChunksWith(doc)))
         /\ disk' \in {disk, db'}
<1> DEFINE chunks == ChunksWith(doc)
           more == RowIds(doc, Fresh(doc)) \X T
           d == [db EXCEPT !.chunks = chunks, !.tags = @ \cup more]
<1>0. PICK tagged \in Grown(vocab.words, WordsOfTags(T)) :
        \E words \in Grown(tagged, WordsOfText(doc)) :
          /\ vocab' = CountedVocab(doc, words)
          /\ net' = Trained(GrownNet(tagged, words, Cardinality(DOMAIN chunks)),
                            Cardinality(words), DOMAIN chunks)
          /\ db' = Saved(d, vocab', net')
  BY DEF StoreDocument
<1>1. PICK words \in Grown(tagged, WordsOfText(doc)) :
          /\ vocab' = CountedVocab(doc, words)
          /\ net' = Trained(GrownNet(tagged, words, Cardinality(DOMAIN chunks)),
                            Cardinality(words), DOMAIN chunks)
          /\ db' = Saved(d, vocab', net')
  BY <1>0
<1> DEFINE grown == GrownNet(tagged, words, Cardinality(DOMAIN chunks))
<1>2. /\ vocab.words \in SUBSET Words /\ net \in NetType /\ DbOK(db)
      /\ net.in > 0 /\ net.out > 0
  BY DEF TypeOK
<1>3. tagged \in SUBSET Words /\ words \in SUBSET Words
  <2>1. tagged \in SUBSET Words
    BY <1>2, WordsOfUpload, GrownGrows
  <2> QED  BY <2>1, WordsOfUpload, GrownGrows
<1>4. /\ DOMAIN chunks \subseteq Nat \ {0} /\ IsFiniteSet(DOMAIN chunks)
      /\ chunks \in [DOMAIN chunks -> Texts]
      /\ Cardinality(DOMAIN chunks) \in Nat
  BY <1>2, ChunksWithAdds, FS_CardinalityType
<1>5. vocab' \in VocabType
  <2>1. vocab \in VocabType
    BY DEF TypeOK, VocabType
  <2> QED  BY <1>1, <1>3, <2>1, CountedVocabType
<1>6. /\ grown \in NetType /\ grown.in > 0 /\ grown.out > 0
      /\ grown.in >= net.in /\ grown.out = Max2(net.out, Cardinality(DOMAIN chunks))
  <2>1. /\ grown \in NetType /\ grown.in >= net.in
        /\ grown.out = Max2(net.out, Cardinality(DOMAIN chunks))
    BY <1>2, <1>3, <1>4, GrownNetType
  <2> QED  BY <1>2, <1>4, <2>1 DEF NetType, Max2
<1>7. /\ net' \in NetType /\ net'.in > 0 /\ net'.out > 0
      /\ net'.in >= net.in /\ net'.out = Max2(net.out, Cardinality(DOMAIN chunks))
  <2>1. DOMAIN chunks \in SUBSET Nat
    BY <1>4
  <2> QED  BY <1>1, <1>6, <2>1, TrainedType
<1>8. DbOK(d) /\ d.chunks = chunks /\ d.uml = db.uml /\ d.tags = db.tags \cup more
  <2>1. more \in SUBSET (Nat \X Tags)
    BY <1>2, RowIdsFinite DEF Fresh
  <2>2. /\ db \in [chunks : {db.chunks}, tags : SUBSET (Nat \X Tags),
                    words : SUBSET Words, df : [Words -> Nat],
                    model : NetType, uml : SUBSET UmlNames]
    BY <1>2 DEF DbOK
  <2> HIDE DEF chunks, more
  <2>3. /\ d.chunks = chunks /\ d.uml = db.uml /\ d.tags = db.tags \cup more
        /\ d \in [chunks : {d.chunks}, tags : SUBSET (Nat \X Tags),
                  words : SUBSET Words, df : [Words -> Nat],
                  model : NetType, uml : SUBSET UmlNames]
    BY <2>1, <2>2
  <2> QED  BY <1>4, <2>3 DEF DbOK, Ids
<1>9. /\ DbOK(db') /\ db'.chunks = chunks /\ db'.uml = db.uml
      /\ db'.tags = db.tags \cup more /\ db'.words = vocab'.words /\ db'.model = net'
  <2> HIDE DEF d
  <2> QED  BY <1>1, <1>5, <1>7, <1>8, SavedType
<1>10. disk' \in {disk, db'}
  BY DEF StoreDocument, Persisted
<1> QED  BY <1>5, <1>7, <1>9, <1>10

(* The words and the sizes that an upload with new chunks leaves.          *)
LEMMA StoreDocumentSizes ==
  ASSUME TypeOK, NEW doc \in Docs, NEW T \in SUBSET Tags,
         NEW s \in BOOLEAN, StoreDocument(doc, T, s)
  PROVE  \E tagged \in SUBSET Words, words \in SUBSET Words :
           /\ tagged \in Grown(vocab.words, WordsOfTags(T))
           /\ words \in Grown(tagged, WordsOfText(doc))
           /\ vocab' = CountedVocab(doc, words)
           /\ net'.in = IF Cardinality(words) > Cardinality(tagged)
                        THEN Max2(net.in, Cardinality(words)) ELSE net.in
           /\ net'.learned =
                LET ids == DOMAIN ChunksWith(doc) IN
                IF ids # {} /\ Cardinality(words) = net'.in
                THEN {id \in ids : id \in 1..net'.out} ELSE net.learned
           /\ db'.words = vocab'.words /\ db'.df = vocab'.df
<1> DEFINE chunks == ChunksWith(doc)
           ids == DOMAIN chunks
           rows == Cardinality(ids)
<1>1. PICK tagged \in Grown(vocab.words, WordsOfTags(T)) :
        \E words \in Grown(tagged, WordsOfText(doc)) :
          /\ vocab' = CountedVocab(doc, words)
          /\ net' = Trained(GrownNet(tagged, words, rows), Cardinality(words), ids)
          /\ \E d : DOMAIN d = DOMAIN db /\ db' = Saved(d, vocab', net')
  BY DEF StoreDocument
<1>2. PICK words \in Grown(tagged, WordsOfText(doc)) :
          /\ vocab' = CountedVocab(doc, words)
          /\ net' = Trained(GrownNet(tagged, words, rows), Cardinality(words), ids)
          /\ \E d : DOMAIN d = DOMAIN db /\ db' = Saved(d, vocab', net')
  BY <1>1
<1>3. /\ tagged \in SUBSET Words /\ words \in SUBSET Words
  BY <1>1, <1>2, WordsOfUpload, GrownGrows DEF TypeOK
<1>4. rows \in Nat /\ ids \in SUBSET Nat
  BY ChunksWithAdds, FS_CardinalityType DEF TypeOK
<1> DEFINE n == GrownNet(tagged, words, rows)
<1>5. /\ n \in NetType /\ n.learned = net.learned
      /\ n.in = IF Cardinality(words) > Cardinality(tagged)
                THEN Max2(net.in, Cardinality(words)) ELSE net.in
  <2>1. net \in NetType
    BY DEF TypeOK
  <2>2. n.learned = net.learned
    BY <2>1 DEF GrownNet, NetType
  <2> QED  BY <1>3, <1>4, <2>1, <2>2, GrownNetType
<1> HIDE DEF n
<1>6. net'.in = n.in /\ net'.out = n.out
  BY <1>2, <1>4, <1>5, TrainedType DEF n
<1>7. net'.learned = IF ids # {} /\ Cardinality(words) = net'.in
                     THEN {id \in ids : id \in 1..net'.out} ELSE net.learned
  BY <1>2, <1>5, <1>6 DEF Trained, NetType, n
<1>8. db'.words = vocab'.words /\ db'.df = vocab'.df
  <2>1. PICK d : DOMAIN d = DOMAIN db /\ db' = Saved(d, vocab', net')
    BY <1>2
  <2>2. DOMAIN db = {"chunks", "tags", "words", "df", "model", "uml"}
    BY DEF TypeOK, DbOK
  <2> QED  BY <2>1, <2>2 DEF Saved
<1> QED  BY <1>1, <1>2, <1>3, <1>5, <1>6, <1>7, <1>8

(* Every action keeps the types, one step per action.                      *)
LEMMA NextTypes == TypeOK /\ [Next]_vars => TypeOK'
<1> SUFFICES ASSUME TypeOK, [Next]_vars PROVE TypeOK'
  OBVIOUS
<1>0. /\ DbOK(db) /\ DbOK(disk) /\ vocab \in VocabType /\ net \in NetType
      /\ net.in > 0 /\ net.out > 0 /\ result \in {"OK", "PARTIAL", "DUPLICATE"}
  BY DEF TypeOK, VocabType
<1>1. ASSUME NEW doc \in Docs, NEW T \in SUBSET Tags, NEW s \in BOOLEAN,
             AddDocument(doc, T, s)
      PROVE  TypeOK'
  <2>1. CASE RejectDuplicate(doc)
    BY <1>0, <2>1 DEF RejectDuplicate, TypeOK, VocabType, DbOK, Ids
  <2>2. CASE StoreDocument(doc, T, s)
    <3>1. /\ DbOK(db') /\ vocab' \in VocabType /\ net' \in NetType
          /\ net'.in > 0 /\ net'.out > 0 /\ disk' \in {disk, db'}
      BY <2>2, StoreDocumentTypes
    <3>2. DbOK(disk')
      BY <1>0, <3>1
    <3>3. result' \in {"OK", "PARTIAL", "DUPLICATE"}
      BY <2>2 DEF StoreDocument
    <3> QED  BY <3>1, <3>2, <3>3 DEF TypeOK, VocabType, DbOK, Ids
  <2> QED  BY <1>1, <2>1, <2>2 DEF AddDocument
<1>2. ASSUME NEW tag \in Tags, NEW id \in FeedbackIds, AddTag(tag, id)
      PROVE  TypeOK'
  <2> DEFINE grown == [net EXCEPT !.out = Max2(net.out, Cardinality(Ids(db)))]
             d == [db EXCEPT !.tags = @ \cup {<<id, tag>>}]
  <2>1. Cardinality(Ids(db)) \in Nat /\ Ids(db) \in SUBSET Nat
    BY <1>0, FS_CardinalityType DEF DbOK
  <2>2. grown \in NetType /\ grown.in > 0 /\ grown.out > 0
    BY <1>0, <2>1 DEF NetType, Max2
  <2>3. net' = Trained(grown, Cardinality(vocab.words), Ids(db))
    BY <1>2 DEF AddTag
  <2>4. net' \in NetType /\ net'.in > 0 /\ net'.out > 0
    <3> HIDE DEF grown
    <3> QED  BY <2>1, <2>2, <2>3, TrainedType
  <2>5. DbOK(d)
    <3>1. <<id, tag>> \in Nat \X Tags
      BY StoreConstants DEF StoreConstants
    <3> QED  BY <1>0, <3>1 DEF DbOK, Ids
  <2>6. db' = Saved(d, vocab, net')
    BY <1>2 DEF AddTag
  <2>7. DbOK(db')
    <3> HIDE DEF d
    <3> QED  BY <1>0, <2>4, <2>5, <2>6, SavedType
  <2> QED  BY <1>0, <1>2, <2>4, <2>7 DEF AddTag, TypeOK, VocabType, DbOK, Ids
<1>3. CASE Serialize
  BY <1>0, <1>3 DEF Serialize, Persisted, TypeOK, VocabType, DbOK, Ids
<1>4. ASSUME NEW name \in UmlNames, CreateUmlContainer(name)
      PROVE  TypeOK'
  <2>1. DbOK([db EXCEPT !.uml = @ \cup {name}])
    BY <1>0 DEF DbOK, Ids
  <2>2. DbOK(db') /\ disk' \in {disk, db'}
    BY <1>4, <2>1 DEF CreateUmlContainer, Persisted
  <2> QED  BY <1>0, <1>4, <2>2 DEF CreateUmlContainer, TypeOK, VocabType, DbOK, Ids
<1>5. CASE Restart
  BY <1>0, <1>5, LoadedType DEF Restart, TypeOK, VocabType, DbOK, Ids
<1>6. CASE UNCHANGED vars
  BY <1>0, <1>6 DEF vars, TypeOK, VocabType, DbOK, Ids
<1> QED  BY <1>1, <1>2, <1>3, <1>4, <1>5, <1>6 DEF Next

(* The store's tables, vocabulary, network and file are well formed after  *)
(* any sequence of uploads, tags, saves, containers and restarts, whether  *)
(* or not documents repeat chunks, words fit or the disk takes its writes. *)
THEOREM TypeCorrect == Spec => []TypeOK
<1>1. Init => TypeOK
  <2> SUFFICES ASSUME Init PROVE TypeOK
    OBVIOUS
  <2>1. DbOK(EmptyDb)
    <3>1. Ids(EmptyDb) = {} /\ EmptyDb.chunks = <<>>
      BY DEF EmptyDb, Ids
    <3>2. EmptyDb.chunks \in [Ids(EmptyDb) -> Texts]
      BY <3>1
    <3>3. IsFiniteSet(Ids(EmptyDb))
      BY <3>1, FS_EmptySet
    <3>4. NoModel \in NetType
      BY DEF NoModel, NetType
    <3>5. EmptyDb \in [chunks : {EmptyDb.chunks}, tags : SUBSET (Nat \X Tags),
                       words : SUBSET Words, df : [Words -> Nat],
                       model : NetType, uml : SUBSET UmlNames]
      BY <3>4 DEF EmptyDb
    <3> QED  BY <3>1, <3>2, <3>3, <3>5 DEF DbOK
  <2> QED  BY <2>1, LoadedType DEF Init, TypeOK, VocabType
<1> QED  BY <1>1, NextTypes, PTL DEF Spec
-----------------------------------------------------------------------------
(***************************************************************************)
(* The store implements a durable library.                                 *)
(***************************************************************************)
(* The items of a well-formed database are items of the library.           *)
LEMMA ItemsAreItems ==
  ASSUME NEW d, DbOK(d)
  PROVE  ItemsOf(d) \in SUBSET (({"text"} \X Texts) \cup ({"uml"} \X UmlNames))
<1>1. Stored(d) \subseteq Texts /\ d.uml \subseteq UmlNames
  BY DEF DbOK, Stored, Ids
<1> QED  BY <1>1 DEF ItemsOf

(* A database with more rows and containers has more items.                *)
LEMMA MoreRowsMoreItems ==
  ASSUME NEW d, NEW e, Ids(d) \subseteq Ids(e), d.uml \subseteq e.uml,
         \A id \in Ids(d) : e.chunks[id] = d.chunks[id]
  PROVE  ItemsOf(d) \subseteq ItemsOf(e)
<1>1. Stored(d) \subseteq Stored(e)
  BY DEF Stored
<1> QED  BY <1>1 DEF ItemsOf

(* Every step of the store is a step of the library or leaves it as it is. *)
LEMMA NextIsLibrary == TypeOK /\ TypeOK' /\ [Next]_vars => [Library!Next]_Library!vars
<1> SUFFICES ASSUME TypeOK, TypeOK', [Next]_vars PROVE [Library!Next]_Library!vars
  OBVIOUS
<1> DEFINE live == ItemsOf(db)
           kept == ItemsOf(disk)
           Items == ({"text"} \X Texts) \cup ({"uml"} \X UmlNames)
<1>0. DbOK(db) /\ DbOK(disk) /\ live' \in SUBSET Items
  <2>1. DbOK(db') /\ DbOK(db) /\ DbOK(disk)
    BY DEF TypeOK, DbOK, Ids
  <2> QED  BY <2>1, ItemsAreItems DEF ItemsOf, Stored, Ids
<1>1. ASSUME live \subseteq live', disk' \in {disk, db'}
      PROVE  \E S \in SUBSET Items : Library!Learn(S)
  <2>1. live' = live \cup live'
    BY <1>1
  <2>2. kept' \in {kept, live'}
    BY <1>1 DEF ItemsOf, Stored, Ids
  <2>3. Library!Learn(live')
    BY <2>1, <2>2 DEF Library!Learn
  <2> QED  BY <1>0, <2>3
<1>2. ASSUME UNCHANGED <<live, kept>>
      PROVE  UNCHANGED Library!vars
  BY <1>2 DEF Library!vars
<1>3. ASSUME NEW doc \in Docs, NEW T \in SUBSET Tags, NEW s \in BOOLEAN,
             AddDocument(doc, T, s)
      PROVE  [Library!Next]_Library!vars
  <2>1. CASE RejectDuplicate(doc)
    BY <1>2, <2>1 DEF RejectDuplicate
  <2>2. CASE StoreDocument(doc, T, s)
    <3>1. /\ db'.chunks = ChunksWith(doc) /\ db'.uml = db.uml
          /\ disk' \in {disk, db'}
      BY <2>2, StoreDocumentTypes
    <3>2. live \subseteq live'
      <4>1. /\ Ids(db) \subseteq DOMAIN (db'.chunks)
            /\ \A id \in Ids(db) : db'.chunks[id] = db.chunks[id]
        BY <1>0, <3>1, ChunksWithAdds
      <4>2. Stored(db) \subseteq Stored(db')
        BY <4>1 DEF Stored, Ids
      <4> QED  BY <3>1, <4>2 DEF ItemsOf, Stored, Ids
    <3> QED  BY <1>1, <3>1, <3>2 DEF Library!Next
  <2> QED  BY <1>3, <2>1, <2>2 DEF AddDocument
<1>4. ASSUME NEW tag \in Tags, NEW id \in FeedbackIds, AddTag(tag, id)
      PROVE  UNCHANGED Library!vars
  <2>1. db'.chunks = db.chunks /\ db'.uml = db.uml /\ disk' = disk
    BY <1>0, <1>4 DEF AddTag, Saved, DbOK
  <2> QED  BY <1>2, <2>1 DEF ItemsOf, Stored, Ids
<1>5. CASE Serialize
  <2>1. live' = live
    BY <1>5 DEF Serialize
  <2>2. kept' = live \/ kept' = kept
    BY <1>5 DEF Serialize, Persisted, ItemsOf, Stored, Ids
  <2> QED  BY <1>2, <2>1, <2>2 DEF Library!Next, Library!Save
<1>6. ASSUME NEW name \in UmlNames, CreateUmlContainer(name)
      PROVE  [Library!Next]_Library!vars
  <2>1. db'.chunks = db.chunks /\ db.uml \subseteq db'.uml
    BY <1>0, <1>6 DEF CreateUmlContainer, DbOK
  <2>2. live \subseteq live'
    BY <2>1 DEF ItemsOf, Stored, Ids
  <2> QED  BY <1>1, <1>6, <2>2 DEF CreateUmlContainer, Persisted, Library!Next
<1>7. CASE Restart
  <2>1. live' = kept /\ kept' = kept
    BY <1>7 DEF Restart, ItemsOf, Stored, Ids
  <2> QED  BY <2>1 DEF Library!Next, Library!Reopen
<1>8. CASE UNCHANGED vars
  BY <1>2, <1>8 DEF vars, ItemsOf, Stored, Ids
<1> QED  BY <1>3, <1>4, <1>5, <1>6, <1>7, <1>8 DEF Next

(* Through uploads, saves, failed writes and restarts the store is a       *)
(* durable library: no accepted chunk or container is lost while the       *)
(* process runs, and a start brings back exactly the last copy.            *)
THEOREM StoreIsLibrary == Spec => IsDurableLibrary
<1>1. Init => Library!Init
  <2> SUFFICES ASSUME Init PROVE ItemsOf(EmptyDb) = {}
    BY DEF Init, Library!Init
  <2>1. DOMAIN EmptyDb.chunks = {} /\ EmptyDb.uml = {}
    BY DEF EmptyDb
  <2> QED  BY <2>1 DEF ItemsOf, Stored, Ids
<1> QED  BY <1>1, TypeCorrect, NextIsLibrary, PTL DEF Spec, IsDurableLibrary, Library!Spec
-----------------------------------------------------------------------------
(***************************************************************************)
(* Ids, outputs and labels stay in step when no document repeats a chunk.  *)
(***************************************************************************)
(* Members of a finite set of numbers have different ranks.                *)
LEMMA RanksDiffer ==
  ASSUME NEW F \in SUBSET Nat, IsFiniteSet(F), NEW i \in F, NEW k \in F, i < k
  PROVE  Cardinality({j \in F : j < i}) # Cardinality({j \in F : j < k})
<1> DEFINE below(n) == {j \in F : j < n}
<1>1. i \in Nat /\ k \in Nat /\ \A j \in F : j \in Nat
  OBVIOUS
<1>2. below(i) \subseteq below(k)
  <2>1. \A j \in F : j < i => j < k
    BY <1>1
  <2> QED  BY <2>1
<1>3. i \in below(k) /\ i \notin below(i)
  BY <1>1
<1>4. IsFiniteSet(below(i)) /\ IsFiniteSet(below(k))
  BY FS_Subset
<1> HIDE DEF below
<1>5. Cardinality(below(i)) # Cardinality(below(k))
  BY <1>2, <1>3, <1>4, FS_Subset
<1> QED  BY <1>5 DEF below

(* The ranks of the members of a finite set of numbers are 0, 1, 2, ...    *)
LEMMA RanksFillInterval ==
  ASSUME NEW F \in SUBSET Nat, IsFiniteSet(F)
  PROVE  {Cardinality({j \in F : j < i}) : i \in F} = 0..(Cardinality(F) - 1)
<1> DEFINE below(i) == {j \in F : j < i}
           r == [i \in F |-> Cardinality(below(i))]
           n == Cardinality(F)
           I == 0..(n - 1)
<1>1. n \in Nat
  BY FS_CardinalityType
<1>2. \A i \in F : IsFiniteSet(below(i)) /\ Cardinality(below(i)) \in Nat
  BY FS_Subset, FS_CardinalityType
<1>3. ASSUME NEW i \in F PROVE Cardinality(below(i)) \in I
  <2>1. below(i) \subseteq F /\ i \notin below(i)
    OBVIOUS
  <2>2. Cardinality(below(i)) <= n /\ Cardinality(below(i)) # n
    <3> HIDE DEF below
    <3> QED  BY <2>1, FS_Subset
  <2> QED  BY <1>1, <1>2, <2>2
<1>4. ASSUME NEW i \in F, NEW k \in F, i < k
      PROVE  Cardinality(below(i)) # Cardinality(below(k))
  BY <1>4, RanksDiffer
<1>5. r \in Injection(F, I)
  <2>1. r \in [F -> I]
    BY <1>3
  <2>2. ASSUME NEW a \in F, NEW b \in F, r[a] = r[b] PROVE a = b
    <3>1. a \in Nat /\ b \in Nat
      OBVIOUS
    <3>2. r[a] = Cardinality(below(a)) /\ r[b] = Cardinality(below(b))
      OBVIOUS
    <3> HIDE DEF r, below
    <3>3. ~(a < b)
      BY <1>4, <2>2, <3>2
    <3>4. ~(b < a)
      BY <1>4, <2>2, <3>2
    <3> QED  BY <3>1, <3>3, <3>4
  <2> HIDE DEF r, I
  <2> QED  BY <2>1, <2>2, Fun_IsInj
<1>6. IsFiniteSet(I) /\ Cardinality(I) = n
  <2> HIDE DEF n
  <2>1. n - 1 \in Int /\ 0 \in Int
    BY <1>1
  <2>2. IsFiniteSet(I) /\ Cardinality(I) = IF 0 > n - 1 THEN 0 ELSE (n - 1) - 0 + 1
    BY <2>1, FS_Interval
  <2> QED  BY <1>1, <2>2
<1>7. r \in Surjection(F, I)
  <2> HIDE DEF r, I
  <2> QED  BY <1>5, <1>6, FS_Injection
<1>8. \A x \in I : \E i \in F : r[i] = x
  BY <1>7 DEF Surjection
<1> QED  BY <1>3, <1>8

(* No id is given to two positions of unique_chunks.                       *)
LEMMA RowIdsDiffer ==
  ASSUME DbOK(db), NEW doc \in Docs, NEW i \in Fresh(doc), NEW k \in Fresh(doc),
         RowId(doc, i) = RowId(doc, k)
  PROVE  i = k
<1> DEFINE F == Fresh(doc)
           rank(n) == Cardinality({j \in F : j < n})
<1>1. F \subseteq DOMAIN doc
  BY DEF Fresh
<1>2. F \in SUBSET Nat /\ IsFiniteSet(F)
  BY <1>1, PositionsFinite
<1>3. rank(i) \in Nat /\ rank(k) \in Nat
  <2>1. \A n \in F : {j \in F : j < n} \subseteq DOMAIN doc
    BY <1>1
  <2> HIDE DEF F
  <2> QED  BY <2>1, PositionsFinite DEF F
<1>4. RowId(doc, i) = LastId + 1 + rank(i) /\ RowId(doc, k) = LastId + 1 + rank(k)
  BY DEF RowId
<1>5. LastId \in Nat
  BY LastIdIsLast
<1>6. rank(i) = rank(k)
  <2>1. PICK a \in Nat, b \in Nat : a = rank(i) /\ b = rank(k)
    BY <1>3
  <2>2. LastId + 1 + a = LastId + 1 + b
    BY <1>4, <2>1
  <2>3. a = b
    BY <1>5, <2>2
  <2> QED  BY <2>1, <2>3
<1>7. i \in Nat /\ k \in Nat
  BY <1>2
<1>8. ~(i < k) /\ ~(k < i)
  <2> HIDE DEF F
  <2> QED  BY <1>2, <1>6, RanksDiffer DEF F
<1> QED  BY <1>7, <1>8

(* Without repeats every unique chunk is inserted.                         *)
LEMMA NoRepeatsInsertsAll ==
  ASSUME NoRepeats, NEW doc \in Docs
  PROVE  Inserted(doc) = Fresh(doc)
<1> SUFFICES ASSUME NEW i \in Fresh(doc), NEW j \in Fresh(doc), j < i, doc[j] = doc[i]
             PROVE  FALSE
  BY DEF Inserted
<1>1. Fresh(doc) \subseteq DOMAIN doc
  BY DEF Fresh
<1>2. i = j
  BY <1>1 DEF NoRepeats
<1>3. i \in Nat
  BY <1>1, PositionsFinite
<1> QED  BY <1>2, <1>3

(* An inserted position's text is in the row that has its id.              *)
LEMMA ChunksWithText ==
  ASSUME DbOK(db), NEW doc \in Docs, NEW i \in Inserted(doc)
  PROVE  ChunksWith(doc)[RowId(doc, i)] = doc[i]
<1> DEFINE id == RowId(doc, i)
           k == CHOOSE n \in Inserted(doc) : RowId(doc, n) = id
<1>1. Inserted(doc) \subseteq Fresh(doc) /\ Fresh(doc) \subseteq DOMAIN doc
  BY DEF Inserted, Fresh
<1>2. id \notin Ids(db) /\ id \in RowIds(doc, Inserted(doc))
  BY <1>1, RowIdIsNew DEF RowIds
<1>3. k \in Inserted(doc) /\ RowId(doc, k) = id
  <2>1. \E n \in Inserted(doc) : RowId(doc, n) = id
    OBVIOUS
  <2> HIDE DEF id
  <2> QED  BY <2>1
<1>4. ChunksWith(doc)[id] = doc[k]
  BY <1>2 DEF ChunksWith
<1>5. k = i
  <2> HIDE DEF k
  <2> QED  BY <1>1, <1>3, RowIdsDiffer
<1> QED  BY <1>4, <1>5

(* What the program is used with: documents without repeated chunks, and   *)
(* nobody sending command 0x06.                                            *)
CleanUse == NoRepeats /\ FeedbackIds = {}

(* OutputsAreChunks with what keeps it: every tag row has its chunk, the   *)
(* vocab table is the vocabulary, and a model without outputs is one that  *)
(* was never saved, of a store without words.                              *)
CleanDb(d) ==
  /\ \A row \in d.tags : row[1] \in Ids(d)
  /\ d.model.out > 0 => d.model.in > 0
  /\ d.model.out = 0 => d.words = {}

CleanInv ==
  /\ OutputsAreChunks
  /\ vocab.words = db.words
  /\ CleanDb(db) /\ CleanDb(disk)

(* Without repeats every unique chunk is inserted, under the next ids.     *)
LEMMA RowIdsAreNext ==
  ASSUME CleanUse, CleanInv, DbOK(db), NEW doc \in Docs, Fresh(doc) # {}
  PROVE  \E n \in Nat \ {0} :
           /\ Inserted(doc) = Fresh(doc)
           /\ RowIds(doc, Fresh(doc)) = (db.model.out + 1)..(db.model.out + n)
<1> DEFINE F == Fresh(doc)
           out == db.model.out
           rank(i) == Cardinality({j \in F : j < i})
           n == Cardinality(F)
<1>1. F \subseteq DOMAIN doc /\ F \in SUBSET Nat /\ IsFiniteSet(F) /\ n \in Nat \ {0}
  <2>1. F \subseteq DOMAIN doc
    BY DEF Fresh
  <2>2. F \in SUBSET Nat /\ IsFiniteSet(F) /\ n \in Nat
    BY <2>1, PositionsFinite
  <2> QED  BY <2>1, <2>2, FS_EmptySet
<1>2. Inserted(doc) = F
  BY NoRepeatsInsertsAll DEF CleanUse
<1>3. LastId = out /\ out \in Nat
  <2>1. out \in Nat
    BY DEF DbOK, NetType
  <2>2. Ids(db) = 1..out
    BY DEF CleanInv, OutputsAreChunks
  <2>3. LastId \in Nat /\ (\A id \in Ids(db) : id <= LastId)
        /\ (Ids(db) # {} => LastId \in Ids(db))
    BY LastIdIsLast
  <2>4. CASE out = 0
    BY <2>2, <2>4 DEF LastId
  <2>5. CASE out # 0
    <3>1. out \in Ids(db)
      BY <2>1, <2>2, <2>5
    <3> QED  BY <2>1, <2>2, <2>3, <3>1
  <2> QED  BY <2>1, <2>4, <2>5
<1>4. RowIds(doc, F) = {out + 1 + rank(i) : i \in F}
  BY <1>3 DEF RowIds, RowId
<1>5. {rank(i) : i \in F} = 0..(n - 1)
  <2> HIDE DEF F
  <2> QED  BY <1>1, RanksFillInterval
<1>6. ASSUME NEW id PROVE id \in RowIds(doc, F) <=> id \in (out + 1)..(out + n)
  <2> HIDE DEF F, n, out, rank
  <2>1. ASSUME NEW i \in F PROVE rank(i) \in 0..(n - 1)
    BY <1>5
  <2>2. ASSUME id \in RowIds(doc, F) PROVE id \in (out + 1)..(out + n)
    <3>1. PICK i \in F : id = out + 1 + rank(i)
      BY <1>4, <2>2
    <3> QED  BY <1>1, <1>3, <2>1, <3>1
  <2>3. ASSUME id \in (out + 1)..(out + n) PROVE id \in RowIds(doc, F)
    <3>1. id - out - 1 \in 0..(n - 1) /\ id \in Int
      BY <1>1, <1>3, <2>3
    <3>2. PICK i \in F : rank(i) = id - out - 1
      BY <1>5, <3>1
    <3>3. id = out + 1 + rank(i)
      BY <1>3, <3>1, <3>2
    <3> QED  BY <1>4, <3>3
  <2> QED  BY <2>2, <2>3
<1>7. RowIds(doc, F) = (out + 1)..(out + n)
  <2> HIDE DEF F, out, n
  <2> QED  BY <1>6
<1> QED  BY <1>1, <1>2, <1>7

(* An upload keeps the ids, the outputs and the tag rows in step.          *)
LEMMA StoreDocumentClean ==
  ASSUME CleanUse, CleanInv, TypeOK, NEW doc \in Docs, NEW T \in SUBSET Tags,
         NEW s \in BOOLEAN, StoreDocument(doc, T, s)
  PROVE  CleanInv'
<1>0. /\ DbOK(db) /\ DbOK(disk) /\ net \in NetType /\ db.model \in NetType
  BY DEF TypeOK, DbOK
<1>1. /\ db'.chunks = ChunksWith(doc)
      /\ db'.tags = db.tags \cup (RowIds(doc, Fresh(doc)) \X T)
      /\ db'.words = vocab'.words /\ db'.model = net'
      /\ net' \in NetType /\ net'.in > 0
      /\ net'.out = Max2(net.out, Cardinality(DOMAIN ChunksWith(doc)))
      /\ disk' \in {disk, db'}
  BY StoreDocumentTypes
<1> DEFINE out == db.model.out
<1>2. PICK n \in Nat \ {0} :
        /\ Inserted(doc) = Fresh(doc)
        /\ RowIds(doc, Fresh(doc)) = (out + 1)..(out + n)
  <2>1. Fresh(doc) # {}
    BY DEF StoreDocument
  <2> QED  BY <1>0, <2>1, RowIdsAreNext
<1>3. Ids(db) = 1..out /\ out \in Nat /\ net.out = Max2(1, out)
  BY <1>0 DEF CleanInv, OutputsAreChunks, NetType
<1>4. DOMAIN ChunksWith(doc) = 1..(out + n)
  <2>1. DOMAIN ChunksWith(doc) = Ids(db) \cup RowIds(doc, Inserted(doc))
    BY <1>0, ChunksWithAdds
  <2> HIDE DEF out
  <2>2. DOMAIN ChunksWith(doc) = (1..out) \cup ((out + 1)..(out + n))
    BY <1>2, <1>3, <2>1
  <2>3. (1..out) \cup ((out + 1)..(out + n)) = 1..(out + n)
    BY <1>3
  <2> QED  BY <2>2, <2>3
<1>5. net'.out = out + n
  <2>1. out + n \in Nat /\ out + n >= 1
    BY <1>3
  <2>2. Cardinality(1..(out + n)) = out + n
    <3> HIDE DEF out
    <3> QED  BY <2>1, FS_Interval
  <2>3. net'.out = Max2(Max2(1, out), out + n)
    BY <1>1, <1>3, <1>4, <2>2
  <2> HIDE DEF out
  <2> QED  BY <1>3, <2>3 DEF Max2
<1>6. /\ DOMAIN (db'.chunks) = 1..(db'.model.out) /\ db'.model.out > 0
      /\ net'.out = Max2(1, db'.model.out)
  <2> HIDE DEF out
  <2> QED  BY <1>1, <1>3, <1>4, <1>5 DEF Max2
<1>7. \A row \in db'.tags : row[1] \in DOMAIN (db'.chunks)
  <2> SUFFICES ASSUME NEW row \in db'.tags PROVE row[1] \in DOMAIN (db'.chunks)
    OBVIOUS
  <2>1. CASE row \in db.tags
    <3>1. row[1] \in Ids(db)
      BY <2>1 DEF CleanInv, CleanDb
    <3> QED  BY <1>0, <1>1, <3>1, ChunksWithAdds
  <2>2. CASE row \in RowIds(doc, Fresh(doc)) \X T
    <3>1. row[1] \in RowIds(doc, Inserted(doc))
      BY <1>2, <2>2
    <3> QED  BY <1>0, <1>1, <3>1, ChunksWithAdds
  <2> QED  BY <1>1, <2>1, <2>2
<1>8. CleanDb(db)'
  BY <1>1, <1>6, <1>7 DEF CleanDb, Ids
<1>9. CleanDb(disk)' /\ (Ids(disk) = 1..disk.model.out)'
  <2>1. CASE disk' = disk
    BY <2>1 DEF CleanInv, OutputsAreChunks, CleanDb, Ids
  <2>2. CASE disk' = db'
    BY <1>6, <1>8, <2>2 DEF CleanDb, Ids
  <2> QED  BY <1>1, <2>1, <2>2
<1> QED  BY <1>1, <1>6, <1>8, <1>9 DEF CleanInv, OutputsAreChunks, Ids

(* Every step keeps CleanInv, one step per action.                         *)
LEMMA NextClean ==
  ASSUME CleanUse
  PROVE  TypeOK /\ CleanInv /\ [Next]_vars => CleanInv'
<1> SUFFICES ASSUME TypeOK, CleanInv, [Next]_vars PROVE CleanInv'
  OBVIOUS
<1>1. ASSUME NEW doc \in Docs, NEW T \in SUBSET Tags, NEW s \in BOOLEAN,
             AddDocument(doc, T, s)
      PROVE  CleanInv'
  <2>1. CASE RejectDuplicate(doc)
    BY <2>1 DEF RejectDuplicate, CleanInv, OutputsAreChunks, CleanDb, Ids
  <2>2. CASE StoreDocument(doc, T, s)
    BY <2>2, StoreDocumentClean
  <2> QED  BY <1>1, <2>1, <2>2 DEF AddDocument
<1>2. \A tag \in Tags, id \in FeedbackIds : ~AddTag(tag, id)
  BY DEF CleanUse
<1>3. CASE Serialize
  BY <1>3 DEF Serialize, Persisted, CleanInv, OutputsAreChunks, CleanDb, Ids
<1>4. ASSUME NEW name \in UmlNames, CreateUmlContainer(name)
      PROVE  CleanInv'
  <2>1. DbOK(db)
    BY DEF TypeOK
  <2>2. /\ db'.chunks = db.chunks /\ db'.tags = db.tags
        /\ db'.model = db.model /\ db'.words = db.words
    BY <1>4, <2>1 DEF CreateUmlContainer, DbOK
  <2>3. disk' \in {disk, db'} /\ net' = net /\ vocab' = vocab
    BY <1>4 DEF CreateUmlContainer, Persisted
  <2>4. CleanDb(db)' /\ (Ids(db) = 1..db.model.out)'
    BY <2>2 DEF CleanInv, OutputsAreChunks, CleanDb, Ids
  <2>5. CleanDb(disk)' /\ (Ids(disk) = 1..disk.model.out)'
    BY <2>3, <2>4 DEF CleanInv, OutputsAreChunks, CleanDb, Ids
  <2> QED  BY <2>2, <2>3, <2>4, <2>5 DEF CleanInv, OutputsAreChunks
<1>5. CASE Restart
  <2>1. /\ DbOK(disk) /\ disk.model \in NetType
    BY DEF TypeOK, DbOK
  <2>2. LoadedNet(disk).out = Max2(1, disk.model.out)
    <3>1. disk.model.out \in Nat /\ disk.model.in \in Nat
      BY <2>1 DEF NetType
    <3>2. CASE disk.model.out > 0
      <4>1. disk.model.in > 0
        BY <3>2 DEF CleanInv, CleanDb
      <4>2. LoadedNet(disk).out = disk.model.out
        BY <2>1, <3>2, <4>1 DEF LoadedNet, NetType
      <4> QED  BY <3>1, <3>2, <4>2 DEF Max2
    <3>3. CASE disk.model.out = 0
      <4>1. Ids(disk) = 1..0
        BY <3>3 DEF CleanInv, OutputsAreChunks
      <4>2. Cardinality(Ids(disk)) = 0
        BY <4>1, FS_EmptySet
      <4>3. LoadedNet(disk).out = Max2(1, Cardinality(Ids(disk)))
        BY <3>3 DEF LoadedNet
      <4> QED  BY <3>3, <4>2, <4>3 DEF Max2
    <3> QED  BY <3>1, <3>2, <3>3
  <2>3. vocab'.words = disk.words
    BY <1>5 DEF Restart, LoadedVocab
  <2>4. db' = disk /\ disk' = disk /\ net'.out = Max2(1, disk.model.out)
    BY <1>5, <2>2 DEF Restart
  <2> QED  BY <2>3, <2>4 DEF CleanInv, OutputsAreChunks, CleanDb, Ids
<1>6. CASE UNCHANGED vars
  BY <1>6 DEF vars, CleanInv, OutputsAreChunks, CleanDb, Ids
<1> QED  BY <1>1, <1>2, <1>3, <1>4, <1>5, <1>6 DEF Next

(* Then whatever get_answer looks up is there.                             *)
LEMMA CleanAnswers ==
  ASSUME TypeOK, CleanInv
  PROVE  NoDanglingAnswer
<1> DEFINE messages == {"Tag matched but chunk not found", "No chunk found"}
           out == db.model.out
<1>1. ASSUME NEW id \in Ids(db), NEW missing PROVE Lookup(id, missing) \notin messages
  <2>1. db.chunks[id] \in Texts
    BY DEF TypeOK, DbOK
  <2> QED  BY <2>1, StoreConstants DEF Lookup, StoreConstants
<1>2. ASSUME NEW T \in SUBSET Tags PROVE Answers(T) \cap messages = {}
  <2> DEFINE candidates == {row[1] : row \in {r \in db.tags : r[2] \in T}}
  <2>1. CASE candidates # {}
    <3>1. candidates \subseteq Ids(db)
      BY DEF CleanInv, CleanDb
    <3>2. Answers(T) = {Lookup(id, "Tag matched but chunk not found") : id \in candidates}
      BY <2>1 DEF Answers
    <3> HIDE DEF candidates, messages
    <3> QED  BY <1>1, <3>1, <3>2
  <2>2. CASE candidates = {} /\ Cardinality(vocab.words) # net.in
    <3>1. Answers(T) = {"Model mismatch"}
      BY <2>2 DEF Answers
    <3> QED  BY <3>1
  <2>3. CASE candidates = {} /\ Cardinality(vocab.words) = net.in
    <3>1. out \in Nat /\ net.out = Max2(1, out) /\ Ids(db) = 1..out /\ net.in > 0
      BY DEF TypeOK, DbOK, NetType, CleanInv, OutputsAreChunks
    <3>2. out > 0
      <4>1. SUFFICES ASSUME out = 0 PROVE FALSE
        BY <3>1
      <4>2. vocab.words = {}
        BY <4>1 DEF CleanInv, CleanDb
      <4> QED  BY <2>3, <3>1, <4>2, FS_EmptySet
    <3>3. \A idx \in 0..net.out - 1 : idx + 1 \in Ids(db)
      BY <3>1, <3>2 DEF Max2
    <3>4. Answers(T) = {Lookup(idx + 1, "No chunk found") : idx \in 0..net.out - 1}
      BY <2>3 DEF Answers
    <3> HIDE DEF messages
    <3> QED  BY <1>1, <3>3, <3>4
  <2> QED  BY <2>1, <2>2, <2>3
<1> QED  BY <1>2 DEF NoDanglingAnswer

(* CleanInv holds after every run of the store.                            *)
LEMMA CleanCorrect ==
  ASSUME CleanUse
  PROVE  Spec => []CleanInv
<1>1. Init => CleanInv
  <2>1. /\ EmptyDb.chunks = <<>> /\ EmptyDb.tags = {} /\ EmptyDb.words = {}
        /\ EmptyDb.model = NoModel
    BY DEF EmptyDb
  <2>2. Ids(EmptyDb) = {}
    BY <2>1 DEF Ids
  <2>3. LoadedNet(EmptyDb).out = 1 /\ LoadedVocab(EmptyDb).words = {}
    <3>1. Cardinality(Ids(EmptyDb)) = 0
      BY <2>2, FS_EmptySet
    <3>2. LoadedNet(EmptyDb).out = Max2(1, Cardinality(Ids(EmptyDb)))
      BY <2>1 DEF LoadedNet, NoModel
    <3> QED  BY <2>1, <3>1, <3>2 DEF LoadedVocab, Max2
  <2>4. Max2(1, NoModel.out) = 1 /\ NoModel.out = 0
    BY DEF NoModel, Max2
  <2>5. CleanDb(EmptyDb) /\ EmptyDb.model.out = 0
    BY <2>1, <2>4 DEF CleanDb
  <2>6. Ids(EmptyDb) = 1..EmptyDb.model.out
    BY <2>2, <2>5
  <2> SUFFICES ASSUME Init PROVE CleanInv
    OBVIOUS
  <2>7. db = EmptyDb /\ disk = EmptyDb /\ net.out = 1 /\ vocab.words = {}
    BY <2>3 DEF Init
  <2>8. OutputsAreChunks
    BY <2>1, <2>4, <2>6, <2>7 DEF OutputsAreChunks
  <2> QED  BY <2>1, <2>5, <2>7, <2>8 DEF CleanInv
<1>2. TypeOK /\ CleanInv /\ [Next]_vars => CleanInv'
  BY NextClean
<1> QED  BY <1>1, <1>2, TypeCorrect, PTL DEF Spec

(* In clean use chunk ids, network outputs and saved outputs are the same  *)
(* numbers, in memory and on disk, so that the label id - 1 that           *)
(* add_document trains on is always an output.                             *)
THEOREM OutputsStayChunks ==
  ASSUME CleanUse
  PROVE  Spec => []OutputsAreChunks
<1>1. CleanInv => OutputsAreChunks
  BY DEF CleanInv
<1> QED  BY <1>1, CleanCorrect, PTL

(* In clean use get_answer never names a chunk that is not in the table.   *)
THEOREM AnswersExist ==
  ASSUME CleanUse
  PROVE  Spec => []NoDanglingAnswer
<1>1. TypeOK /\ CleanInv => NoDanglingAnswer
  BY CleanAnswers
<1> QED  BY <1>1, TypeCorrect, CleanCorrect, PTL
-----------------------------------------------------------------------------
(***************************************************************************)
(* The input layer, the vocabulary and the saved model stay in step.       *)
(***************************************************************************)
(* InputsWithinVocabulary and SavedStateIsCurrent with what keeps them: no *)
(* model, running or saved, is wider than the words it is stored with.     *)
InputsFit(d) ==
  /\ d.model.in <= Max2(1, Cardinality(d.words))
  /\ Cardinality(d.words) <= MaxVocab

InputsInv ==
  /\ InputsWithinVocabulary /\ SavedStateIsCurrent
  /\ InputsFit(db) /\ InputsFit(disk)

(* add_words stops at MAX_VOCAB, and a vocabulary with more words is       *)
(* larger: the sizes show whether the texts added any.                     *)
LEMMA GrownSizes ==
  ASSUME NEW words \in SUBSET Words, NEW more \in SUBSET Words,
         NEW g \in Grown(words, more)
  PROVE  /\ g \in SUBSET Words /\ Cardinality(g) \in Nat
         /\ Cardinality(g) <= MaxVocab
         /\ Cardinality(words) \in Nat /\ Cardinality(words) <= Cardinality(g)
         /\ Cardinality(words) = Cardinality(g) => words = g
<1>1. g \in SUBSET Words /\ words \subseteq g
  BY DEF Grown
<1>2. MaxVocab \in Nat
  BY StoreConstants DEF StoreConstants
<1>3. Cardinality(g) \in Nat /\ IsFiniteSet(g) /\ Cardinality(words) \in Nat
  BY <1>1, WordsFinite
<1>4. Cardinality(g) <= MaxVocab
  BY <1>2, <1>3 DEF Grown
<1>5. Cardinality(words) <= Cardinality(g) /\ (Cardinality(words) = Cardinality(g) => words = g)
  BY <1>1, <1>3, FS_Subset
<1> QED  BY <1>1, <1>3, <1>4, <1>5

(* After an upload the input layer fits the vocabulary; it is exactly the  *)
(* vocabulary's size when the texts added a word.                          *)
LEMMA StoreDocumentInputs ==
  ASSUME TypeOK, InputsInv, NEW doc \in Docs, NEW T \in SUBSET Tags,
         NEW s \in BOOLEAN, StoreDocument(doc, T, s)
  PROVE  /\ net'.in <= Max2(1, Cardinality(vocab'.words))
         /\ Cardinality(vocab'.words) <= MaxVocab
         /\ vocab'.words \ (vocab.words \cup WordsOfTags(T)) # {}
              => net'.in = Cardinality(vocab'.words)
<1>1. PICK tagged \in SUBSET Words, words \in SUBSET Words :
        /\ tagged \in Grown(vocab.words, WordsOfTags(T))
        /\ words \in Grown(tagged, WordsOfText(doc))
        /\ vocab' = CountedVocab(doc, words)
        /\ net'.in = IF Cardinality(words) > Cardinality(tagged)
                     THEN Max2(net.in, Cardinality(words)) ELSE net.in
  BY StoreDocumentSizes
<1>2. vocab'.words = words
  BY <1>1 DEF CountedVocab
<1>3. vocab.words \in SUBSET Words
  BY DEF TypeOK
<1> DEFINE before == Cardinality(vocab.words)
           between == Cardinality(tagged)
           after == Cardinality(words)
<1>4. /\ before \in Nat /\ between \in Nat /\ after \in Nat /\ MaxVocab \in Nat
      /\ before <= between /\ between <= after /\ after <= MaxVocab
      /\ between = after => tagged = words
  <2>1. /\ before \in Nat /\ between \in Nat /\ before <= between
    BY <1>1, <1>3, WordsOfUpload, GrownSizes
  <2>2. /\ after \in Nat /\ between <= after /\ after <= MaxVocab
        /\ between = after => tagged = words
    BY <1>1, WordsOfUpload, GrownSizes
  <2> QED  BY <2>1, <2>2, StoreConstants DEF StoreConstants
<1>5. net.in \in Nat /\ net.in <= Max2(1, before)
  BY DEF TypeOK, NetType, InputsInv, InputsWithinVocabulary
<1>6. ASSUME words \ (vocab.words \cup WordsOfTags(T)) # {} PROVE after > between
  <2>1. tagged \subseteq vocab.words \cup WordsOfTags(T)
    BY <1>1 DEF Grown
  <2>2. tagged # words
    BY <1>6, <2>1
  <2> HIDE DEF before, between, after
  <2> QED  BY <1>4, <2>2
<1> HIDE DEF before, between, after
<1>7. net'.in = IF after > between THEN Max2(net.in, after) ELSE net.in
  BY <1>1 DEF between, after
<1>8. net'.in <= Max2(1, after) /\ (after > between => net'.in = after)
  BY <1>4, <1>5, <1>7 DEF Max2
<1> QED  BY <1>2, <1>4, <1>6, <1>8 DEF after

(* A start makes the input layer as wide as the saved vocabulary.          *)
LEMMA LoadedInputs ==
  ASSUME NEW d, DbOK(d), InputsFit(d)
  PROVE  LoadedNet(d).in = Max2(1, Cardinality(d.words))
<1>1. d.model \in NetType /\ d.words \in SUBSET Words
  BY DEF DbOK
<1>2. Cardinality(d.words) \in Nat /\ d.model.in \in Nat
  BY <1>1, WordsFinite DEF NetType
<1> DEFINE m == IF d.model.in > 0 /\ d.model.out > 0
                THEN d.model
                ELSE [in |-> Max2(1, Cardinality(d.words)),
                      out |-> Max2(1, Cardinality(Ids(d))), learned |-> {}]
<1>3. m.in \in Nat /\ m.in > 0 /\ m.in <= Max2(1, Cardinality(d.words))
  BY <1>2 DEF InputsFit, Max2
<1>4. LoadedNet(d).in = Max2(m.in, Cardinality(d.words))
  <2>1. "in" \in DOMAIN m
    BY <1>1 DEF NetType
  <2>2. LoadedNet(d) = [m EXCEPT !.in = Max2(m.in, Cardinality(d.words))]
    BY DEF LoadedNet
  <2> HIDE DEF m
  <2> QED  BY <2>1, <2>2
<1> HIDE DEF m
<1> QED  BY <1>2, <1>3, <1>4 DEF Max2

(* What is in the tables after save_state is what runs.                    *)
LEMMA SavedIsCurrent ==
  ASSUME TypeOK', (db.words = vocab.words /\ db.df = vocab.df /\ db.model = net)',
         (net.in <= Max2(1, Cardinality(vocab.words)) /\ Cardinality(vocab.words) <= MaxVocab)',
         InputsFit(disk), disk' \in {disk, db'}
  PROVE  InputsInv'
<1>1. (net.in \in Nat /\ net.out \in Nat /\ net.in > 0 /\ net.out > 0)'
  BY DEF TypeOK, NetType
<1>2. LoadedNet(db').out = net'.out
  BY <1>1 DEF LoadedNet, TypeOK, NetType
<1>3. SavedStateIsCurrent'
  <2>1. (LoadedNet(db).out = net.out)'
    BY <1>2 DEF LoadedNet, Ids
  <2> QED  BY <2>1 DEF SavedStateIsCurrent
<1>4. InputsFit(db)'
  BY DEF InputsFit
<1>5. InputsFit(disk)'
  BY <1>4 DEF InputsFit
<1> QED  BY <1>3, <1>4, <1>5 DEF InputsInv, InputsWithinVocabulary, InputsFit

(* Every step keeps the sizes in step, one step per action.                *)
LEMMA NextInputs == TypeOK /\ TypeOK' /\ InputsInv /\ [Next]_vars => InputsInv'
<1> SUFFICES ASSUME TypeOK, TypeOK', InputsInv, [Next]_vars PROVE InputsInv'
  OBVIOUS
<1>0. DbOK(db) /\ DbOK(disk) /\ InputsFit(disk)
  BY DEF TypeOK, InputsInv
<1>1. ASSUME NEW doc \in Docs, NEW T \in SUBSET Tags, NEW s \in BOOLEAN,
             AddDocument(doc, T, s)
      PROVE  InputsInv'
  <2>1. CASE RejectDuplicate(doc)
    BY <2>1 DEF RejectDuplicate, InputsInv, InputsWithinVocabulary, InputsFit,
                SavedStateIsCurrent, LoadedNet, Ids
  <2>2. CASE StoreDocument(doc, T, s)
    <3>1. /\ net'.in <= Max2(1, Cardinality(vocab'.words))
          /\ Cardinality(vocab'.words) <= MaxVocab
      BY <2>2, StoreDocumentInputs
    <3>2. db'.words = vocab'.words /\ db'.model = net' /\ disk' \in {disk, db'}
      BY <2>2, StoreDocumentTypes
    <3>3. db'.df = vocab'.df
      BY <2>2, StoreDocumentSizes
    <3> QED  BY <1>0, <3>1, <3>2, <3>3, SavedIsCurrent
  <2> QED  BY <1>1, <2>1, <2>2 DEF AddDocument
<1>2. ASSUME NEW tag \in Tags, NEW id \in FeedbackIds, AddTag(tag, id)
      PROVE  InputsInv'
  <2> DEFINE grown == [net EXCEPT !.out = Max2(net.out, Cardinality(Ids(db)))]
  <2>1. net'.in = net.in
    <3>1. Ids(db) \in SUBSET Nat /\ Cardinality(Ids(db)) \in Nat
      BY <1>0, FS_CardinalityType DEF DbOK
    <3>2. grown \in NetType /\ grown.in = net.in
      BY <3>1 DEF TypeOK, NetType, Max2
    <3>3. net' = Trained(grown, Cardinality(vocab.words), Ids(db))
      BY <1>2 DEF AddTag
    <3> HIDE DEF grown
    <3> QED  BY <3>1, <3>2, <3>3, TrainedType
  <2>2. vocab' = vocab /\ disk' = disk
    BY <1>2 DEF AddTag
  <2>3. db'.words = vocab'.words /\ db'.df = vocab'.df /\ db'.model = net'
    BY <1>0, <1>2, <2>2 DEF AddTag, Saved, DbOK
  <2>4. /\ net.in <= Max2(1, Cardinality(vocab.words))
        /\ Cardinality(vocab.words) <= MaxVocab
    BY DEF InputsInv, InputsWithinVocabulary
  <2> QED  BY <1>0, <2>1, <2>2, <2>3, <2>4, SavedIsCurrent
<1>3. CASE Serialize
  BY <1>3 DEF Serialize, Persisted, InputsInv, InputsWithinVocabulary, InputsFit,
              SavedStateIsCurrent, LoadedNet, Ids
<1>4. ASSUME NEW name \in UmlNames, CreateUmlContainer(name)
      PROVE  InputsInv'
  <2>1. /\ db'.chunks = db.chunks /\ db'.model = db.model
        /\ db'.words = db.words /\ db'.df = db.df
        /\ net' = net /\ vocab' = vocab /\ disk' \in {disk, db'}
    BY <1>0, <1>4 DEF CreateUmlContainer, Persisted, DbOK
  <2>2. LoadedNet(db') = LoadedNet(db)
    BY <2>1 DEF LoadedNet, Ids
  <2>3. SavedStateIsCurrent'
    <3>1. LoadedNet(db)' = LoadedNet(db')
      BY DEF LoadedNet, Ids
    <3> QED  BY <2>1, <2>2, <3>1 DEF SavedStateIsCurrent, InputsInv
  <2>4. InputsFit(db)' /\ InputsFit(disk)'
    BY <2>1 DEF InputsFit, InputsInv
  <2> QED  BY <2>1, <2>3, <2>4 DEF InputsInv, InputsWithinVocabulary, InputsFit
<1>5. CASE Restart
  <2>1. /\ db' = disk /\ disk' = disk /\ net' = LoadedNet(disk)
        /\ vocab'.words = disk.words /\ vocab'.df = disk.df
    BY <1>5 DEF Restart, LoadedVocab
  <2>2. LoadedNet(disk).in <= Max2(1, Cardinality(disk.words))
    <3>1. Max2(1, Cardinality(disk.words)) \in Nat
      BY <1>0, WordsFinite DEF DbOK, Max2
    <3> QED  BY <1>0, <3>1, LoadedInputs
  <2>3. LoadedNet(db)' = LoadedNet(disk)
    BY <2>1 DEF LoadedNet, Ids
  <2>4. SavedStateIsCurrent'
    BY <2>1, <2>3 DEF SavedStateIsCurrent
  <2>5. InputsFit(db)' /\ InputsFit(disk)'
    BY <1>0, <2>1 DEF InputsFit
  <2> QED  BY <1>0, <2>1, <2>2, <2>4, <2>5 DEF InputsInv, InputsWithinVocabulary, InputsFit
<1>6. CASE UNCHANGED vars
  BY <1>6 DEF vars, InputsInv, InputsWithinVocabulary, InputsFit,
              SavedStateIsCurrent, LoadedNet, Ids
<1> QED  BY <1>1, <1>2, <1>3, <1>4, <1>5, <1>6 DEF Next

(* InputsInv holds after every run of the store.                           *)
LEMMA InputsCorrect == Spec => []InputsInv
<1>1. Init => InputsInv
  <2> SUFFICES ASSUME Init PROVE InputsInv
    OBVIOUS
  <2>1. /\ EmptyDb.words = {} /\ EmptyDb.model.in = 0 /\ EmptyDb.model.out = 0
    BY DEF EmptyDb, NoModel
  <2>2. Cardinality(EmptyDb.words) = 0 /\ Max2(1, 0) = 1
    BY <2>1, FS_EmptySet DEF Max2
  <2>3. LoadedNet(EmptyDb).in = 1
    <3>1. LoadedNet(EmptyDb).in = Max2(Max2(1, Cardinality(EmptyDb.words)), Cardinality(EmptyDb.words))
      BY <2>1 DEF LoadedNet
    <3> QED  BY <2>2, <3>1 DEF Max2
  <2>4. MaxVocab >= 0
    <3>1. MaxVocab \in Nat
      BY StoreConstants DEF StoreConstants
    <3> QED  BY <3>1
  <2>5. /\ db = EmptyDb /\ disk = EmptyDb /\ net.in = 1
        /\ vocab.words = EmptyDb.words /\ vocab.df = EmptyDb.df
    BY <2>3 DEF Init, LoadedVocab
  <2> QED  BY <2>1, <2>2, <2>4, <2>5 DEF InputsInv, InputsWithinVocabulary,
             SavedStateIsCurrent, InputsFit
<1> QED  BY <1>1, NextInputs, TypeCorrect, PTL DEF Spec

(* The vocabulary never outgrows MAX_VOCAB and is never smaller than the   *)
(* input layer, in memory and in the file, whatever is uploaded, tagged,   *)
(* saved or restarted: load_state's "Vocabulary shrunk" cannot happen.     *)
THEOREM InputsStayWithinVocabulary == Spec => []InputsWithinVocabulary
<1>1. InputsInv => InputsWithinVocabulary
  BY DEF InputsInv
<1> QED  BY <1>1, InputsCorrect, PTL

(* A backup made at any moment holds the vocabulary and the network that   *)
(* run, though save_state is called only by the uploads and by add_tag.    *)
THEOREM SavedStateStaysCurrent == Spec => []SavedStateIsCurrent
<1>1. InputsInv => SavedStateIsCurrent
  BY DEF InputsInv
<1> QED  BY <1>1, InputsCorrect, PTL

(* Whatever mismatch of vocabulary and input layer there is, a restart and *)
(* an upload that brings a new word in its text end it.                    *)
THEOREM MismatchesAreRepaired == Spec => MismatchIsRepaired
<1> DEFINE RestartRepairs == Restart => net'.in = Max2(1, Cardinality(vocab'.words))
           UploadRepairs ==
             \A doc \in Docs, T \in SUBSET Tags, s \in BOOLEAN :
               /\ vocab'.words \ (vocab.words \cup WordsOfTags(T)) # {}
               /\ AddDocument(doc, T, s)
               => net'.in = Cardinality(vocab'.words)
<1>1. TypeOK /\ InputsInv => RestartRepairs
  <2> SUFFICES ASSUME TypeOK, InputsInv, Restart
               PROVE  net'.in = Max2(1, Cardinality(vocab'.words))
    OBVIOUS
  <2>1. DbOK(disk) /\ InputsFit(disk)
    BY DEF TypeOK, InputsInv
  <2>2. net' = LoadedNet(disk) /\ vocab'.words = disk.words
    BY DEF Restart, LoadedVocab
  <2> QED  BY <2>1, <2>2, LoadedInputs
<1>2. TypeOK /\ InputsInv => UploadRepairs
  <2> SUFFICES ASSUME TypeOK, InputsInv,
                      NEW doc \in Docs, NEW T \in SUBSET Tags, NEW s \in BOOLEAN,
                      vocab'.words \ (vocab.words \cup WordsOfTags(T)) # {},
                      AddDocument(doc, T, s)
               PROVE  net'.in = Cardinality(vocab'.words)
    OBVIOUS
  <2>1. ~RejectDuplicate(doc)
    BY DEF RejectDuplicate
  <2>2. StoreDocument(doc, T, s)
    BY <2>1 DEF AddDocument
  <2> QED  BY <2>2, StoreDocumentInputs
<1>3. Spec => [][RestartRepairs]_vars
  BY <1>1, TypeCorrect, InputsCorrect, PTL
<1>4. Spec => [][UploadRepairs]_vars
  BY <1>2, TypeCorrect, InputsCorrect, PTL
<1> QED  BY <1>3, <1>4 DEF MismatchIsRepaired
-----------------------------------------------------------------------------
(***************************************************************************)
(* The counts that idf() is computed from describe the stored chunks.      *)
(***************************************************************************)
(* Where a word occurs, spelled out.                                       *)
LEMMA OccurrencesAre ==
  ASSUME NEW w, NEW text
  PROVE  \A p : p \in Occurrences(w, text) <=>
           \E i \in DOMAIN text : \E o \in TextTokens[text[i]] : o[1] = w /\ p = <<i, o>>
BY DEF Occurrences

(* A table with new rows: f gives each new text its row.                   *)
AddsRows(f, text, old, all) ==
  /\ IsFiniteSet(DOMAIN all) /\ \A id \in DOMAIN all : all[id] \in Texts
  /\ f \in Bijection(DOMAIN text, DOMAIN all \ DOMAIN old)
  /\ DOMAIN old \subseteq DOMAIN all
  /\ \A id \in DOMAIN old : all[id] = old[id]
  /\ \A i \in DOMAIN text : all[f[i]] = text[i]

(* New rows add their occurrences of a word.                               *)
LEMMA OccurrencesAdd ==
  ASSUME NEW w, NEW old, NEW all, NEW text, NEW f, AddsRows(f, text, old, all)
  PROVE  /\ Cardinality(Occurrences(w, all)) =
              Cardinality(Occurrences(w, old)) + Cardinality(Occurrences(w, text))
         /\ Cardinality(Occurrences(w, old)) \in Nat
         /\ Cardinality(Occurrences(w, text)) \in Nat
<1> USE DEF AddsRows
<1> DEFINE A == Occurrences(w, old)
           B == Occurrences(w, all) \ A
           N == Occurrences(w, text)
<1>1. IsFiniteSet(Occurrences(w, all))
  BY OccurrencesFinite
<1>2. \A p : p \in A => p \in Occurrences(w, all) /\ p[1] \in DOMAIN old
  <2> SUFFICES ASSUME NEW p \in A PROVE p \in Occurrences(w, all) /\ p[1] \in DOMAIN old
    OBVIOUS
  <2>1. PICK i \in DOMAIN old : \E o \in TextTokens[old[i]] : o[1] = w /\ p = <<i, o>>
    BY OccurrencesAre
  <2>2. PICK o \in TextTokens[old[i]] : o[1] = w /\ p = <<i, o>>
    BY <2>1
  <2>3. i \in DOMAIN all /\ o \in TextTokens[all[i]]
    BY <2>2
  <2> HIDE DEF A
  <2> QED  BY <2>2, <2>3, OccurrencesAre
<1>3. \A p \in B : \E i \in DOMAIN text : \E o \in TextTokens[text[i]] :
                     o[1] = w /\ p = <<f[i], o>>
  <2> SUFFICES ASSUME NEW p \in B
               PROVE  \E i \in DOMAIN text : \E o \in TextTokens[text[i]] :
                        o[1] = w /\ p = <<f[i], o>>
    OBVIOUS
  <2>1. PICK id \in DOMAIN all : \E o \in TextTokens[all[id]] : o[1] = w /\ p = <<id, o>>
    BY OccurrencesAre
  <2>2. PICK o \in TextTokens[all[id]] : o[1] = w /\ p = <<id, o>>
    BY <2>1
  <2>3. id \notin DOMAIN old
    <3>1. SUFFICES ASSUME id \in DOMAIN old PROVE p \in A
      OBVIOUS
    <3>2. o \in TextTokens[old[id]]
      BY <2>2, <3>1
    <3> QED  BY <2>2, <3>1, <3>2, OccurrencesAre
  <2>4. PICK i \in DOMAIN text : f[i] = id
    BY <2>3 DEF Bijection, Surjection
  <2>5. o \in TextTokens[text[i]]
    BY <2>2, <2>4
  <2> QED  BY <2>2, <2>4, <2>5
<1>4. \A i \in DOMAIN text : \A o \in TextTokens[text[i]] :
        o[1] = w => <<i, o>> \in N /\ <<f[i], o>> \in B
  <2> SUFFICES ASSUME NEW i \in DOMAIN text, NEW o \in TextTokens[text[i]], o[1] = w
               PROVE  <<i, o>> \in N /\ <<f[i], o>> \in B
    OBVIOUS
  <2>1. f[i] \in DOMAIN all /\ f[i] \notin DOMAIN old
    BY DEF Bijection, Surjection
  <2>2. o \in TextTokens[all[f[i]]]
    OBVIOUS
  <2>3. <<f[i], o>> \in Occurrences(w, all)
    BY <2>1, <2>2, OccurrencesAre
  <2>4. <<f[i], o>> \notin A
    <3> HIDE DEF A
    <3> QED  BY <1>2, <2>1
  <2>5. <<i, o>> \in N
    BY OccurrencesAre
  <2> HIDE DEF A, N
  <2> QED  BY <2>3, <2>4, <2>5
<1>5. \A p \in N : \E i \in DOMAIN text : \E o \in TextTokens[text[i]] :
                     o[1] = w /\ p = <<i, o>>
  BY OccurrencesAre
<1> DEFINE g == [p \in N |-> <<f[p[1]], p[2]>>]
<1>6. g \in Bijection(N, B)
  <2>1. g \in [N -> B]
    <3> HIDE DEF N, B
    <3>1. \A p \in N : <<f[p[1]], p[2]>> \in B
      BY <1>4, <1>5
    <3> QED  BY <3>1
  <2>2. ASSUME NEW p \in N, NEW q \in N, g[p] = g[q] PROVE p = q
    <3>1. \E i \in DOMAIN text : \E o : p = <<i, o>>
      BY <1>5
    <3>2. \E k \in DOMAIN text : \E u : q = <<k, u>>
      BY <1>5
    <3> HIDE DEF N, B
    <3>3. f[p[1]] = f[q[1]] /\ p[2] = q[2]
      BY <2>2
    <3>4. p[1] \in DOMAIN text /\ q[1] \in DOMAIN text
      BY <3>1, <3>2
    <3>5. p[1] = q[1]
      BY <3>3, <3>4 DEF Bijection, Injection, IsInjective
    <3> QED  BY <3>1, <3>2, <3>3, <3>5
  <2>3. \A b \in B : \E p \in N : g[p] = b
    <3> SUFFICES ASSUME NEW b \in B PROVE \E p \in N : g[p] = b
      OBVIOUS
    <3>1. PICK i \in DOMAIN text : \E o \in TextTokens[text[i]] : o[1] = w /\ b = <<f[i], o>>
      BY <1>3
    <3>2. PICK o \in TextTokens[text[i]] : o[1] = w /\ b = <<f[i], o>>
      BY <3>1
    <3>4. <<i, o>> \in N
      BY <1>4, <3>2
    <3> HIDE DEF N, B
    <3>3. g[<<i, o>>] = <<f[i], o>>
      BY <3>4
    <3> QED  BY <3>2, <3>3, <3>4
  <2> HIDE DEF g, N, B
  <2> QED  BY <2>1, <2>2, <2>3 DEF Bijection, Injection, Surjection, IsInjective
<1>7. IsFiniteSet(A) /\ IsFiniteSet(B) /\ A \cup B = Occurrences(w, all) /\ A \cap B = {}
  <2> HIDE DEF A
  <2>1. A \subseteq Occurrences(w, all)
    BY <1>2
  <2> QED  BY <1>1, <2>1, FS_Subset
<1> HIDE DEF A, B, N, g
<1>8. IsFiniteSet(N) /\ Cardinality(N) = Cardinality(B)
  <2>1. g \in Injection(N, B) /\ g \in Surjection(N, B)
    BY <1>6 DEF Bijection
  <2> QED  BY <1>7, <2>1, FS_Injection
<1>9. Cardinality(A \cup B) = Cardinality(A) + Cardinality(B) - Cardinality(A \cap B)
  BY <1>7, FS_Union
<1>10. Cardinality(A) \in Nat /\ Cardinality(N) \in Nat /\ Cardinality(A \cap B) = 0
  BY <1>7, <1>8, FS_CardinalityType, FS_EmptySet
<1>11. Cardinality(Occurrences(w, all)) = Cardinality(A) + Cardinality(N)
  <2>1. PICK a \in Nat, n \in Nat : a = Cardinality(A) /\ n = Cardinality(N)
    BY <1>10
  <2>2. Cardinality(Occurrences(w, all)) = a + n - 0
    BY <1>7, <1>8, <1>9, <1>10, <2>1
  <2> QED  BY <2>1, <2>2
<1> QED  BY <1>10, <1>11 DEF A, N

(* StatisticsExact with what keeps it, for the tables of a database: df is *)
(* 0 for what is no word, and a token of a stored text that is no word has *)
(* met a full vocabulary, which stays full.                                *)
CountsExact(d) ==
  /\ \A w \in Words : d.df[w] = IF w \in d.words
                                THEN Cardinality(Occurrences(w, d.chunks)) ELSE 0
  /\ \A id \in Ids(d) : \A o \in TextTokens[d.chunks[id]] :
       o[1] \in d.words \/ Cardinality(d.words) = MaxVocab

StatisticsInv ==
  /\ vocab.docs = Cardinality(Ids(db))
  /\ CountsExact(db) /\ CountsExact(disk)

(* The insert loop numbers the new rows: one row for each unique chunk.    *)
LEMMA NewRows ==
  ASSUME NoRepeats, DbOK(db), NEW doc \in Docs
  PROVE  LET F == Fresh(doc)
             c == ChunksWith(doc)
             f == [i \in F |-> RowId(doc, i)]
         IN  /\ f \in Bijection(F, DOMAIN c \ Ids(db))
             /\ \A i \in F : c[f[i]] = doc[i]
             /\ Cardinality(DOMAIN c) = Cardinality(Ids(db)) + Cardinality(F)
<1> DEFINE F == Fresh(doc)
           c == ChunksWith(doc)
           f == [i \in F |-> RowId(doc, i)]
           R == DOMAIN c \ Ids(db)
<1>1. Inserted(doc) = F /\ F \subseteq DOMAIN doc /\ IsFiniteSet(F)
  <2>1. F \subseteq DOMAIN doc
    BY DEF Fresh
  <2> QED  BY <2>1, NoRepeatsInsertsAll, PositionsFinite
<1>2. DOMAIN c = Ids(db) \cup RowIds(doc, F) /\ IsFiniteSet(DOMAIN c)
  BY <1>1, ChunksWithAdds
<1>3. \A i \in F : RowId(doc, i) \notin Ids(db)
  BY <1>1, RowIdIsNew
<1>4. R = {RowId(doc, i) : i \in F}
  BY <1>2, <1>3 DEF RowIds
<1>5. f \in Bijection(F, R)
  <2>1. f \in [F -> R]
    BY <1>4
  <2>2. \A i, k \in F : f[i] = f[k] => i = k
    BY RowIdsDiffer
  <2>3. \A r \in R : \E i \in F : f[i] = r
    BY <1>4
  <2> HIDE DEF f, R, F
  <2> QED  BY <2>1, <2>2, <2>3 DEF Bijection, Injection, Surjection, IsInjective
<1>6. \A i \in F : c[f[i]] = doc[i]
  BY <1>1, ChunksWithText
<1>7. Cardinality(DOMAIN c) = Cardinality(Ids(db)) + Cardinality(F)
  <2>1. IsFiniteSet(R) /\ IsFiniteSet(Ids(db)) /\ R \cap Ids(db) = {}
        /\ Ids(db) \cup R = DOMAIN c
    BY <1>2, FS_Subset DEF DbOK
  <2> HIDE DEF F, f, R, c
  <2>2. Cardinality(R) = Cardinality(F)
    <3>1. f \in Injection(F, R) /\ f \in Surjection(F, R)
      BY <1>5 DEF Bijection
    <3> QED  BY <2>1, <3>1, FS_Injection
  <2>3. /\ Cardinality(Ids(db) \cup R) =
             Cardinality(Ids(db)) + Cardinality(R) - Cardinality(Ids(db) \cap R)
        /\ Cardinality(Ids(db) \cap R) = 0
    BY <2>1, FS_Union, FS_EmptySet
  <2>4. PICK a \in Nat, n \in Nat : a = Cardinality(Ids(db)) /\ n = Cardinality(F)
    BY <1>1, <2>1, FS_CardinalityType
  <2>5. Cardinality(DOMAIN c) = a + n - 0
    BY <2>1, <2>2, <2>3, <2>4
  <2> QED  BY <2>4, <2>5
<1> QED  BY <1>5, <1>6, <1>7

(* An upload counts what it stores.                                        *)
LEMMA StoreDocumentCounts ==
  ASSUME NoRepeats, TypeOK, InputsInv, StatisticsInv,
         NEW doc \in Docs, NEW T \in SUBSET Tags,
         NEW s \in BOOLEAN, StoreDocument(doc, T, s)
  PROVE  StatisticsInv'
<1> DEFINE F == Fresh(doc)
           c == ChunksWith(doc)
           f == [i \in F |-> RowId(doc, i)]
           text == [i \in F |-> doc[i]]
<1>0. DbOK(db) /\ DbOK(disk) /\ MaxVocab \in Nat /\ doc \in Seq(Texts)
  BY StoreConstants DEF TypeOK, StoreConstants
<1>1. /\ f \in Bijection(F, DOMAIN c \ Ids(db))
      /\ \A i \in F : c[f[i]] = doc[i]
      /\ Cardinality(DOMAIN c) = Cardinality(Ids(db)) + Cardinality(F)
  BY <1>0, NewRows
<1>2. /\ Ids(db) \subseteq DOMAIN c /\ IsFiniteSet(DOMAIN c)
      /\ \A id \in DOMAIN c : c[id] \in Texts
      /\ \A id \in Ids(db) : c[id] = db.chunks[id]
  BY <1>0, ChunksWithAdds
<1>3. PICK tagged \in SUBSET Words, words \in SUBSET Words :
        /\ tagged \in Grown(vocab.words, WordsOfTags(T))
        /\ words \in Grown(tagged, WordsOfText(doc))
        /\ vocab' = CountedVocab(doc, words)
        /\ db'.words = vocab'.words /\ db'.df = vocab'.df
  BY StoreDocumentSizes
<1>4. db'.chunks = c /\ disk' \in {disk, db'}
  BY StoreDocumentTypes
<1>5. /\ vocab'.words = words /\ vocab'.docs = vocab.docs + Cardinality(F)
      /\ \A w \in Words :
           vocab'.df[w] = IF w \in words
                          THEN vocab.df[w] + Cardinality(Occurrences(w, text))
                          ELSE vocab.df[w]
  BY <1>3 DEF CountedVocab
<1>6. /\ vocab.words = db.words /\ vocab.df = db.df
      /\ vocab.words \in SUBSET Words /\ vocab.words \subseteq words
  BY <1>3 DEF InputsInv, SavedStateIsCurrent, TypeOK, Grown
<1>7. /\ Cardinality(vocab.words) <= Cardinality(words) /\ Cardinality(words) <= MaxVocab
      /\ Cardinality(vocab.words) = Cardinality(words) => vocab.words = words
      /\ Cardinality(vocab.words) \in Nat /\ Cardinality(words) \in Nat
  <2>1. Cardinality(words) <= MaxVocab
    BY <1>3, WordsOfUpload, GrownSizes
  <2> QED  BY <1>6, <2>1, WordsFinite, FS_Subset
<1>8. \A id \in Ids(db) : \A o \in TextTokens[db.chunks[id]] :
         o[1] \in vocab.words \/ Cardinality(vocab.words) = MaxVocab
  BY <1>6 DEF StatisticsInv, CountsExact
<1>9. ASSUME NEW w \in Words
      PROVE  vocab'.df[w] = IF w \in words THEN Cardinality(Occurrences(w, c)) ELSE 0
  <2>1. db.df[w] = IF w \in vocab.words
                   THEN Cardinality(Occurrences(w, db.chunks)) ELSE 0
    BY <1>6 DEF StatisticsInv, CountsExact
  <2>2. /\ Cardinality(Occurrences(w, c)) =
             Cardinality(Occurrences(w, db.chunks)) + Cardinality(Occurrences(w, text))
        /\ Cardinality(Occurrences(w, db.chunks)) \in Nat
        /\ Cardinality(Occurrences(w, text)) \in Nat
    <3>1. DOMAIN text = F /\ \A i \in F : text[i] = doc[i]
      OBVIOUS
    <3> HIDE DEF F, c, f, text
    <3>2. AddsRows(f, text, db.chunks, c)
      BY <1>1, <1>2, <3>1 DEF Ids, AddsRows
    <3> QED  BY <3>2, OccurrencesAdd
  <2> HIDE DEF c, text
  <2>3. CASE w \in vocab.words
    BY <1>5, <1>6, <2>1, <2>2, <2>3
  <2>4. CASE w \in words /\ w \notin vocab.words
    <3>1. Cardinality(vocab.words) # MaxVocab
      BY <1>7, <2>4, <1>0
    <3>2. Occurrences(w, db.chunks) = {}
      <4>1. SUFFICES ASSUME NEW p \in Occurrences(w, db.chunks) PROVE FALSE
        OBVIOUS
      <4>2. PICK id \in DOMAIN db.chunks : \E o \in TextTokens[db.chunks[id]] :
              o[1] = w /\ p = <<id, o>>
        BY OccurrencesAre
      <4> QED  BY <1>8, <2>4, <3>1, <4>2 DEF Ids
    <3>3. Cardinality(Occurrences(w, db.chunks)) = 0
      BY <3>2, FS_EmptySet
    <3>4. vocab.df[w] = 0
      BY <1>6, <2>1, <2>4
    <3>5. vocab'.df[w] = 0 + Cardinality(Occurrences(w, text))
      BY <1>5, <2>4, <3>4
    <3> QED  BY <2>2, <2>4, <3>3, <3>5
  <2>5. CASE w \notin words
    BY <1>5, <1>6, <2>1, <2>5
  <2> QED  BY <2>3, <2>4, <2>5
<1>10. ASSUME NEW id \in DOMAIN c, NEW o \in TextTokens[c[id]]
       PROVE  o[1] \in words \/ Cardinality(words) = MaxVocab
  <2>1. CASE id \in Ids(db)
    <3>1. o[1] \in vocab.words \/ Cardinality(vocab.words) = MaxVocab
      BY <1>2, <1>8, <2>1
    <3> QED  BY <1>0, <1>6, <1>7, <3>1
  <2>2. CASE id \notin Ids(db)
    <3>1. PICK i \in F : f[i] = id
      <4> HIDE DEF F, c, f
      <4> QED  BY <1>1, <2>2 DEF Bijection, Surjection
    <3>2. c[id] = doc[i] /\ doc[i] \in Texts
      BY <1>0, <1>1, <1>2, <3>1
    <3>3. o[1] \in TextWords[doc[i]]
      BY <3>2, StoreConstants DEF StoreConstants
    <3>4. o[1] \in WordsOfText(doc)
      BY <3>3 DEF WordsOfText
    <3> QED  BY <1>3, <3>4 DEF Grown
  <2> QED  BY <2>1, <2>2
<1>11. CountsExact(db)'
  <2> HIDE DEF c
  <2>1. db'.words = words /\ db'.df = vocab'.df /\ db'.chunks = c
    BY <1>3, <1>4, <1>5
  <2>2. \A w \in Words : db'.df[w] = IF w \in db'.words
          THEN Cardinality(Occurrences(w, db'.chunks)) ELSE 0
    BY <1>9, <2>1
  <2>3. \A id \in DOMAIN db'.chunks : \A o \in TextTokens[db'.chunks[id]] :
           o[1] \in db'.words \/ Cardinality(db'.words) = MaxVocab
    BY <1>10, <2>1
  <2> QED  BY <2>2, <2>3 DEF CountsExact, Ids, Occurrences
<1>12. CountsExact(disk)'
  <2>1. CASE disk' = disk
    BY <2>1 DEF StatisticsInv, CountsExact, Ids, Occurrences
  <2>2. CASE disk' = db'
    BY <1>11, <2>2 DEF CountsExact, Ids, Occurrences
  <2> QED  BY <1>4, <2>1, <2>2
<1>13. (vocab.docs = Cardinality(Ids(db)))'
  BY <1>1, <1>4, <1>5 DEF StatisticsInv, Ids
<1> QED  BY <1>11, <1>12, <1>13 DEF StatisticsInv

(* Every step keeps the counts, one step per action.                       *)
LEMMA NextCounts ==
  ASSUME NoRepeats
  PROVE  TypeOK /\ InputsInv /\ StatisticsInv /\ [Next]_vars => StatisticsInv'
<1> SUFFICES ASSUME TypeOK, InputsInv, StatisticsInv, [Next]_vars PROVE StatisticsInv'
  OBVIOUS
<1>0. /\ DbOK(db) /\ DbOK(disk) /\ vocab.docs = Cardinality(Ids(db))
      /\ CountsExact(db) /\ CountsExact(disk)
  BY DEF TypeOK, StatisticsInv
<1>1. ASSUME NEW doc \in Docs, NEW T \in SUBSET Tags, NEW s \in BOOLEAN,
             AddDocument(doc, T, s)
      PROVE  StatisticsInv'
  <2>1. CASE RejectDuplicate(doc)
    BY <1>0, <2>1 DEF RejectDuplicate, StatisticsInv, CountsExact, Ids, Occurrences
  <2>2. CASE StoreDocument(doc, T, s)
    BY <2>2, StoreDocumentCounts
  <2> QED  BY <1>1, <2>1, <2>2 DEF AddDocument
<1>2. ASSUME db'.chunks = db.chunks, db'.words = db.words, db'.df = db.df,
             vocab' = vocab, disk' \in {disk, db'}
      PROVE  StatisticsInv'
  <2>1. CountsExact(db)' /\ (vocab.docs = Cardinality(Ids(db)))'
    BY <1>0, <1>2 DEF CountsExact, Ids, Occurrences
  <2>2. CountsExact(disk)'
    <3>1. CASE disk' = disk
      BY <1>0, <3>1 DEF CountsExact, Ids, Occurrences
    <3>2. CASE disk' = db'
      BY <2>1, <3>2 DEF CountsExact, Ids, Occurrences
    <3> QED  BY <1>2, <3>1, <3>2
  <2> QED  BY <2>1, <2>2 DEF StatisticsInv
<1>3. ASSUME NEW tag \in Tags, NEW id \in FeedbackIds, AddTag(tag, id)
      PROVE  StatisticsInv'
  <2>1. db'.chunks = db.chunks /\ db'.words = vocab.words /\ db'.df = vocab.df
    BY <1>0, <1>3 DEF AddTag, Saved, DbOK
  <2>2. vocab.words = db.words /\ vocab.df = db.df
    BY DEF InputsInv, SavedStateIsCurrent
  <2> QED  BY <1>2, <1>3, <2>1, <2>2 DEF AddTag
<1>4. CASE Serialize
  BY <1>2, <1>4 DEF Serialize, Persisted
<1>5. ASSUME NEW name \in UmlNames, CreateUmlContainer(name)
      PROVE  StatisticsInv'
  <2>1. db'.chunks = db.chunks /\ db'.words = db.words /\ db'.df = db.df
    BY <1>0, <1>5 DEF CreateUmlContainer, DbOK
  <2> QED  BY <1>2, <1>5, <2>1 DEF CreateUmlContainer, Persisted
<1>6. CASE Restart
  <2>1. db' = disk /\ disk' = disk /\ vocab'.docs = Cardinality(Ids(disk))
    BY <1>6 DEF Restart, LoadedVocab
  <2> QED  BY <1>0, <2>1 DEF StatisticsInv, CountsExact, Ids, Occurrences
<1>7. CASE UNCHANGED vars
  BY <1>2, <1>7 DEF vars
<1> QED  BY <1>1, <1>3, <1>4, <1>5, <1>6, <1>7 DEF Next

(* As long as no document holds the same chunk twice, doc_count and df are *)
(* what the chunks table says, whatever order of uploads, full vocabulary, *)
(* saves, failed writes and restarts to an older file came before: idf()   *)
(* weighs every word of every vector as if the store had just been built.  *)
THEOREM StatisticsStayExact ==
  ASSUME NoRepeats
  PROVE  Spec => []StatisticsExact
<1>1. Init => StatisticsInv
  <2> SUFFICES ASSUME Init PROVE StatisticsInv
    OBVIOUS
  <2>1. /\ EmptyDb.words = {} /\ EmptyDb.df = [w \in Words |-> 0] /\ Ids(EmptyDb) = {}
    BY DEF EmptyDb, Ids
  <2>2. CountsExact(EmptyDb)
    BY <2>1 DEF CountsExact
  <2>3. db = EmptyDb /\ disk = EmptyDb /\ vocab.docs = Cardinality(Ids(EmptyDb))
    BY DEF Init, LoadedVocab
  <2> QED  BY <2>2, <2>3 DEF StatisticsInv
<1>2. TypeOK /\ InputsInv /\ StatisticsInv /\ [Next]_vars => StatisticsInv'
  BY NextCounts
<1>3. TypeOK /\ InputsInv /\ StatisticsInv => StatisticsExact
  <2> SUFFICES ASSUME TypeOK, InputsInv, StatisticsInv PROVE StatisticsExact
    OBVIOUS
  <2>1. vocab.words \in SUBSET Words /\ vocab.words = db.words /\ vocab.df = db.df
    BY DEF TypeOK, InputsInv, SavedStateIsCurrent
  <2> QED  BY <2>1 DEF StatisticsInv, CountsExact, StatisticsExact
<1> QED  BY <1>1, <1>2, <1>3, TypeCorrect, InputsCorrect, PTL DEF Spec
-----------------------------------------------------------------------------
(***************************************************************************)
(* What is skipped by a training pass is learned by a later one.           *)
(***************************************************************************)
(* An upload learns all chunks exactly when the sizes agree after it, and  *)
(* they do when nothing is new, as they do when its text has a new word.   *)
LEMMA StoreDocumentLearns ==
  ASSUME CleanUse, TypeOK, InputsInv, CleanInv, CleanInv',
         NEW doc \in Docs, NEW T \in SUBSET Tags,
         NEW s \in BOOLEAN, StoreDocument(doc, T, s)
  PROVE  /\ SizesAgree' => AllLearned'
         /\ SizesAgree /\ vocab'.words = vocab.words => SizesAgree'
         /\ vocab'.words \ (vocab.words \cup WordsOfTags(NewTags)) # {} => SizesAgree'
<1> DEFINE c == ChunksWith(doc)
<1>0. /\ DbOK(db) /\ NoRepeats /\ doc \in Seq(Texts)
      /\ Fresh(doc) \subseteq DOMAIN doc /\ Fresh(doc) # {}
  BY StoreConstants DEF TypeOK, CleanUse, StoreConstants, Fresh, StoreDocument
<1>1. PICK tagged \in SUBSET Words, words \in SUBSET Words :
        /\ tagged \in Grown(vocab.words, WordsOfTags(T))
        /\ words \in Grown(tagged, WordsOfText(doc))
        /\ vocab' = CountedVocab(doc, words)
        /\ net'.in = IF Cardinality(words) > Cardinality(tagged)
                     THEN Max2(net.in, Cardinality(words)) ELSE net.in
        /\ net'.learned = IF DOMAIN c # {} /\ Cardinality(words) = net'.in
                          THEN {id \in DOMAIN c : id \in 1..net'.out} ELSE net.learned
  BY StoreDocumentSizes
<1>2. db'.chunks = c /\ db'.model = net' /\ db'.tags = db.tags \cup (RowIds(doc, Fresh(doc)) \X T)
  <2>1. /\ db'.chunks = ChunksWith(doc) /\ db'.model = net'
        /\ db'.tags = db.tags \cup (RowIds(doc, Fresh(doc)) \X T)
    BY <1>0, StoreDocumentTypes
  <2> QED  BY <2>1
<1>3. vocab'.words = words
  BY <1>1 DEF CountedVocab
<1>4. PICK i \in Fresh(doc) : TRUE
  BY <1>0
<1>5. /\ RowId(doc, i) \in DOMAIN c /\ RowId(doc, i) \in RowIds(doc, Fresh(doc))
      /\ RowId(doc, i) \notin Ids(db)
  <2>1. Inserted(doc) = Fresh(doc)
    BY <1>0, NoRepeatsInsertsAll
  <2>2. RowId(doc, i) \in RowIds(doc, Fresh(doc))
    BY <1>4, <2>1 DEF RowIds
  <2>3. RowId(doc, i) \in DOMAIN c
    BY <1>0, <1>4, <2>1, <2>2, ChunksWithAdds
  <2>4. RowId(doc, i) \notin Ids(db)
    BY <1>0, <1>4, RowIdIsNew
  <2> QED  BY <2>2, <2>3, <2>4
<1>6. DOMAIN c = 1..net'.out /\ DOMAIN c # {}
  <2>1. DOMAIN c = 1..net'.out
    BY <1>2 DEF CleanInv, OutputsAreChunks, Ids
  <2> QED  BY <1>5, <2>1
<1>7. SizesAgree' => AllLearned'
  <2> HIDE DEF c
  <2>1. ASSUME SizesAgree' PROVE net'.learned = DOMAIN c
    BY <1>1, <1>3, <1>6, <2>1 DEF SizesAgree
  <2> QED  BY <1>2, <2>1 DEF AllLearned, Ids
<1>8. ASSUME SizesAgree, vocab'.words = vocab.words PROVE SizesAgree'
  <2>1. vocab.words \subseteq tagged /\ tagged \subseteq words
    BY <1>1 DEF Grown
  <2>2. tagged = words
    BY <1>3, <1>8, <2>1
  <2>3. Cardinality(words) \in Nat
    BY WordsFinite
  <2>4. net'.in = net.in
    BY <1>1, <2>2, <2>3
  <2> QED  BY <1>8, <2>4 DEF SizesAgree
<1>9. NewTags = T
  <2>1. \A row \in db.tags : row[1] \in Ids(db)
    BY DEF CleanInv, CleanDb
  <2>2. \A tag \in T : <<RowId(doc, i), tag>> \in db'.tags \ db.tags
    BY <1>2, <1>5, <2>1
  <2>3. \A row \in db'.tags \ db.tags : row[2] \in T
    BY <1>2
  <2>4. \A tag \in T : \E row \in db'.tags \ db.tags : row[2] = tag
    BY <2>2
  <2> QED  BY <2>3, <2>4 DEF NewTags
<1>10. vocab'.words \ (vocab.words \cup WordsOfTags(NewTags)) # {} => SizesAgree'
  BY <1>9, StoreDocumentInputs DEF SizesAgree
<1> QED  BY <1>7, <1>8, <1>10

(* The other steps add no row, and those that change a size train.         *)
LEMMA OthersLearn ==
  ASSUME CleanUse, TypeOK, [Next]_vars, ~Restart
  PROVE  \/ \E doc \in Docs, T \in SUBSET Tags, s \in BOOLEAN : StoreDocument(doc, T, s)
         \/ Ids(db') = Ids(db) /\ (SizesAgree' <=> SizesAgree) /\ (AllLearned' <=> AllLearned)
<1>1. ASSUME NEW doc \in Docs, NEW T \in SUBSET Tags, NEW s \in BOOLEAN,
             AddDocument(doc, T, s)
      PROVE  \/ StoreDocument(doc, T, s)
             \/ Ids(db') = Ids(db) /\ (SizesAgree' <=> SizesAgree) /\ (AllLearned' <=> AllLearned)
  BY <1>1 DEF AddDocument, RejectDuplicate, SizesAgree, AllLearned
<1>2. \A tag \in Tags, id \in FeedbackIds : ~AddTag(tag, id)
  BY DEF CleanUse
<1>3. CASE Serialize \/ UNCHANGED vars
  BY <1>3 DEF Serialize, vars, SizesAgree, AllLearned
<1>4. ASSUME NEW name \in UmlNames, CreateUmlContainer(name)
      PROVE  Ids(db') = Ids(db) /\ (SizesAgree' <=> SizesAgree) /\ (AllLearned' <=> AllLearned)
  <2>1. Ids(db') = Ids(db)
    BY <1>4 DEF CreateUmlContainer, TypeOK, DbOK, Ids
  <2> QED  BY <1>4, <2>1 DEF CreateUmlContainer, SizesAgree, AllLearned
<1> QED  BY <1>1, <1>2, <1>3, <1>4 DEF Next

(* Whatever the vocabulary makes of texts and tags, and also when it is    *)
(* full: train_batch may skip what an upload brings, but the next upload   *)
(* with a new word in its text learns it, and get_answer never asks a      *)
(* network of the right size that has not learned all, unless a restart    *)
(* gave it that size.                                                      *)
THEOREM EveryChunkIsLearned ==
  ASSUME CleanUse
  PROVE  Spec => EveryChunkLearned
<1> DEFINE Learns == /\ Ids(db') \ Ids(db) # {}
                     /\ \/ vocab'.words \ (vocab.words \cup WordsOfTags(NewTags)) # {}
                        \/ SizesAgree /\ vocab'.words = vocab.words
                     => AllLearned' \/ Restart
           Asked == (SizesAgree => AllLearned) => (SizesAgree' => AllLearned') \/ Restart
<1>1. TypeOK /\ InputsInv /\ CleanInv /\ CleanInv' /\ [Next]_vars => Learns /\ Asked
  <2> SUFFICES ASSUME TypeOK, InputsInv, CleanInv, CleanInv', [Next]_vars, ~Restart
               PROVE  Learns /\ Asked
    OBVIOUS
  <2>1. CASE \E doc \in Docs, T \in SUBSET Tags, s \in BOOLEAN : StoreDocument(doc, T, s)
    BY <2>1, StoreDocumentLearns
  <2>2. CASE Ids(db') = Ids(db) /\ (SizesAgree' <=> SizesAgree) /\ (AllLearned' <=> AllLearned)
    BY <2>2
  <2> QED  BY <2>1, <2>2, OthersLearn
<1>2. Spec => [][Learns]_vars
  BY <1>1, TypeCorrect, InputsCorrect, CleanCorrect, PTL DEF Spec
<1>3. Spec => [][Asked]_vars
  BY <1>1, TypeCorrect, InputsCorrect, CleanCorrect, PTL DEF Spec
<1> QED  BY <1>2, <1>3 DEF EveryChunkLearned
=============================================================================
