----------------------------- MODULE Vocabulary -----------------------------
(***************************************************************************)
(* The vocabulary (vocabulary.cpp): words with their indices, how often    *)
(* each was counted, and the number of documents.  A token is the sequence *)
(* of its parts between underscores, so that a bigram is two tokens joined *)
(* and may be equal to a token of the text.                                *)
(***************************************************************************)
EXTENDS Naturals, Sequences, FiniteSets, SequencesExt

CONSTANTS
  Dotted,      \* parts that contain a dot
  Lettered,    \* parts that contain a letter
  Short,       \* parts of one character
  MaxVocab     \* Vocabulary::MAX_VOCAB

ASSUME VocabularyConstants == MaxVocab \in Nat

Token == Seq(STRING)

(* clean_text leaves letters, digits, dots and underscores.                *)
IsValidWord(w) ==
  /\ \A i \in DOMAIN w : w[i] \notin Dotted
  /\ \E i \in DOMAIN w : w[i] \in Lettered
  /\ Len(w) >= 2 \/ w[1] \notin Short

Bigrams(tokens) == [i \in 1..Len(tokens) - 1 |-> tokens[i] \o tokens[i + 1]]

(* Mutant of AddWord: no look into word2idx.                               *)
AddWordAgain(v, w) ==
  IF IsValidWord(w) /\ Len(v.words) < MaxVocab
  THEN [v EXCEPT !.index = [x \in DOMAIN v.index \cup {w} |->
                              IF x = w THEN Len(v.words) ELSE v.index[x]],
                 !.words = Append(@, w), !.df = Append(@, 0)]
  ELSE v

AddWord(v, w) ==
  IF IsValidWord(w) /\ w \notin DOMAIN v.index /\ Len(v.words) < MaxVocab
  THEN [v EXCEPT !.index = [x \in DOMAIN v.index \cup {w} |->
                              IF x = w THEN Len(v.words) ELSE v.index[x]],
                 !.words = Append(@, w), !.df = Append(@, 0)]
  ELSE v

(* All tokens first, then all bigrams.                                     *)
AddWords(v, tokens) == FoldLeft(AddWord, v, tokens \o Bigrams(tokens))

Occurrences(tokens, w) == Cardinality({i \in DOMAIN tokens : tokens[i] = w})

(* add_document: df counts occurrences of tokens, never bigrams.           *)
CountDocument(v, tokens) ==
  [v EXCEPT !.df = [i \in DOMAIN v.words |-> v.df[i] + Occurrences(tokens, v.words[i])],
            !.docs = @ + 1]

(* vectorize, as far as a value is 0 or not: the term frequency times idf, *)
(* which is 0 only for words that were never counted.                      *)
Vectorize(v, tokens) ==
  [i \in DOMAIN v.words |->
     IF v.df[i] # 0 /\ v.words[i] \in ToSet(tokens) \cup ToSet(Bigrams(tokens))
     THEN 1 ELSE 0]

(* rebuild_vector_cache: the vector of a chunk and those of its tags.      *)
ChunkVector(v, chunk) ==
  [i \in DOMAIN v.words |->
     IF \E tokens \in {chunk.text} \cup chunk.tags :
          Vectorize(v, tokens)[i] # 0
     THEN 1 ELSE 0]
=============================================================================
