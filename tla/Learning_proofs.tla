--------------------------- MODULE Learning_proofs ---------------------------
(***************************************************************************)
(* Proofs about Learning, for any documents, tags, sizes and threads.      *)
(***************************************************************************)
EXTENDS Learning, SequenceTheorems, FiniteSetTheorems, TLAPS

INSTANCE FoldTheorems WITH Op <- LAMBDA size, line : size + Len(line)

(* The other operators that are folded with.                               *)
EachWord   == INSTANCE FoldTheorems WITH Op <- AddWord
EachText   == INSTANCE FoldTheorems WITH Op <- AddWords
EachCount  == INSTANCE FoldTheorems WITH Op <- CountDocument
EachLine   == INSTANCE FoldTheorems WITH Op <- AddLine
EachChunk  == INSTANCE FoldTheorems WITH Op <- AddNew
EachThread == INSTANCE FoldTheorems WITH Op <- Updated

-----------------------------------------------------------------------------
(* The vocabulary.                                                         *)
Vocabs ==
  {v \in [words : Seq(Token), index : UNION {[S -> Nat] : S \in SUBSET Token},
          df : Seq(Nat), docs : Nat] :
     /\ DOMAIN v.index = ToSet(v.words) /\ Len(v.df) = Len(v.words)
     /\ \A i \in DOMAIN v.words : v.index[v.words[i]] = i - 1}

(* Words are only added, at the end, and nothing is counted.               *)
Grown(v) ==
  {u \in Vocabs : /\ u.docs = v.docs /\ Len(v.words) <= Len(u.words)
                  /\ \A i \in DOMAIN v.words : u.words[i] = v.words[i] /\ u.df[i] = v.df[i]
                  /\ \A i \in DOMAIN u.words : Len(v.words) < i =>
                       u.df[i] = 0 /\ IsValidWord(u.words[i]) /\ Len(v.words) < MaxVocab}

(* A word is in the vocabulary, unless it is none or there is no room.     *)
Has(v, w) == IsValidWord(w) => w \in ToSet(v.words) \/ Len(v.words) >= MaxVocab

LEMMA VocabParts ==
  ASSUME NEW v \in Vocabs
  PROVE  /\ v = [words |-> v.words, index |-> v.index, df |-> v.df, docs |-> v.docs]
         /\ v.words \in Seq(Token) /\ v.df \in Seq(Nat) /\ v.docs \in Nat
         /\ Len(v.words) \in Nat /\ Len(v.df) = Len(v.words)
         /\ DOMAIN v.words = 1..Len(v.words) /\ DOMAIN v.df = 1..Len(v.words)
         /\ \A i \in 1..Len(v.words) : v.words[i] \in Token /\ v.df[i] \in Nat
         /\ DOMAIN v.index = ToSet(v.words)
         /\ v.index = [w \in ToSet(v.words) |-> v.index[w]]
         /\ \A w \in ToSet(v.words) : v.index[w] \in Nat
         /\ \A i \in 1..Len(v.words) : v.index[v.words[i]] = i - 1
<1>1. /\ v = [words |-> v.words, index |-> v.index, df |-> v.df, docs |-> v.docs]
      /\ v.words \in Seq(Token) /\ v.df \in Seq(Nat) /\ v.docs \in Nat
      /\ v.index \in UNION {[S -> Nat] : S \in SUBSET Token}
      /\ DOMAIN v.index = ToSet(v.words) /\ Len(v.df) = Len(v.words)
      /\ \A i \in DOMAIN v.words : v.index[v.words[i]] = i - 1
  BY DEF Vocabs
<1>2. PICK S \in SUBSET Token : v.index \in [S -> Nat]
  BY <1>1
<1>3. S = ToSet(v.words)
  BY <1>1, <1>2
<1> QED  BY <1>1, <1>2, <1>3, LenProperties

LEMMA AddWordGrows ==
  ASSUME NEW v \in Vocabs, NEW w \in Token
  PROVE  AddWord(v, w) \in Grown(v) /\ Has(AddWord(v, w), w)
<1> DEFINE u == AddWord(v, w)
<1>0. PICK n \in Nat : n = Len(v.words)
  BY VocabParts
<1>1. /\ v = [words |-> v.words, index |-> v.index, df |-> v.df, docs |-> v.docs]
      /\ v.words \in Seq(Token) /\ v.df \in Seq(Nat) /\ v.docs \in Nat
      /\ n \in Nat /\ Len(v.df) = n /\ DOMAIN v.words = 1..n /\ DOMAIN v.df = 1..n
      /\ DOMAIN v.index = ToSet(v.words) /\ \A x \in ToSet(v.words) : v.index[x] \in Nat
      /\ \A i \in 1..n : v.index[v.words[i]] = i - 1 /\ v.words[i] \in Token
  BY <1>0, VocabParts
<1>2. CASE u = v
  <2>1. v \in Grown(v)
    BY <1>0, <1>1 DEF Grown
  <2>2. Has(v, w)
    <3> SUFFICES ASSUME IsValidWord(w), n < MaxVocab, w \notin ToSet(v.words) PROVE FALSE
      BY <1>0, VocabularyConstants DEF Has, VocabularyConstants
    <3>1. u = [v EXCEPT !.index = [x \in DOMAIN v.index \cup {w} |-> IF x = w THEN n ELSE v.index[x]],
                        !.words = Append(@, w), !.df = Append(@, 0)]
      BY <1>0, <1>1 DEF AddWord
    <3>2. u.words = Append(v.words, w)
      BY <1>1, <3>1
    <3>3. Len(u.words) = n + 1
      BY <1>0, <1>1, <3>2, AppendProperties
    <3> QED  BY <1>0, <1>2, <3>3
  <2> QED  BY <1>2, <2>1, <2>2
<1>3. CASE u # v
  <2>1. w \notin DOMAIN v.index /\ IsValidWord(w) /\ n < MaxVocab
    BY <1>0, <1>3 DEF AddWord
  <2>2. u = [v EXCEPT !.index = [x \in DOMAIN v.index \cup {w} |-> IF x = w THEN n ELSE v.index[x]],
                      !.words = Append(@, w), !.df = Append(@, 0)]
    BY <1>0, <1>3 DEF AddWord
  <2>3. /\ u.words = Append(v.words, w) /\ u.df = Append(v.df, 0) /\ u.docs = v.docs
        /\ u.index = [x \in ToSet(v.words) \cup {w} |-> IF x = w THEN n ELSE v.index[x]]
        /\ u = [words |-> u.words, index |-> u.index, df |-> u.df, docs |-> u.docs]
    BY <1>1, <2>2
  <2>4. /\ u.words \in Seq(Token) /\ u.df \in Seq(Nat) /\ Len(u.words) = n + 1 /\ Len(u.df) = n + 1
        /\ DOMAIN u.words = 1..n + 1 /\ u.words[n + 1] = w /\ u.df[n + 1] = 0
        /\ \A i \in 1..n : u.words[i] = v.words[i] /\ u.df[i] = v.df[i]
    BY <1>1, <2>3, AppendProperties, LenProperties
  <2> HIDE DEF u
  <2>5. ToSet(u.words) = ToSet(v.words) \cup {w}
    <3>1. \A i : i \in 1..n + 1 <=> i \in 1..n \/ i = n + 1
      OBVIOUS
    <3>2. \A x : (\E i \in 1..n + 1 : u.words[i] = x) <=> (\E i \in 1..n : v.words[i] = x) \/ x = w
      BY <2>4, <3>1
    <3>3. /\ \A x : x \in ToSet(u.words) <=> \E i \in 1..n + 1 : u.words[i] = x
          /\ \A x : x \in ToSet(v.words) <=> \E i \in 1..n : v.words[i] = x
      BY <1>1, <2>4 DEF ToSet
    <3> QED  BY <3>2, <3>3
  <2>6. ToSet(u.words) \in SUBSET Token
    BY <1>1, <2>5 DEF ToSet
  <2>7. u.index \in [ToSet(u.words) -> Nat]
    BY <1>1, <2>3, <2>5
  <2>8. ASSUME NEW i \in 1..n + 1 PROVE u.index[u.words[i]] = i - 1
    <3>1. CASE i = n + 1
      BY <1>1, <2>3, <2>4, <3>1
    <3>2. CASE i # n + 1
      <4>1. i \in 1..n /\ v.words[i] \in ToSet(v.words)
        BY <1>1, <3>2 DEF ToSet
      <4> QED  BY <1>1, <2>1, <2>3, <2>4, <4>1
    <3> QED  BY <3>1, <3>2
  <2>9. u \in Vocabs
    BY <1>1, <2>3, <2>4, <2>6, <2>7, <2>8 DEF Vocabs
  <2>10. u \in Grown(v)
    <3>1. \A i \in 1..n + 1 : n < i => i = n + 1
      OBVIOUS
    <3>2. \A i \in DOMAIN u.words : Len(v.words) < i =>
            u.df[i] = 0 /\ IsValidWord(u.words[i]) /\ Len(v.words) < MaxVocab
      BY <1>0, <2>1, <2>4, <3>1
    <3> QED  BY <1>0, <1>1, <2>3, <2>4, <2>9, <3>2 DEF Grown
  <2>11. Has(u, w)
    BY <2>5 DEF Has
  <2> QED  BY <2>10, <2>11 DEF u
<1> QED  BY <1>2, <1>3

LEMMA GrownTwice ==
  ASSUME NEW v \in Vocabs, NEW u \in Grown(v), NEW x \in Grown(u)
  PROVE  x \in Grown(v)
<1>1. v \in Vocabs /\ u \in Vocabs /\ x \in Vocabs
  BY DEF Grown
<1>2. PICK k \in Nat, m \in Nat, n \in Nat : k = Len(v.words) /\ m = Len(u.words) /\ n = Len(x.words)
  BY <1>1, VocabParts
<1>3. DOMAIN v.words = 1..k /\ DOMAIN u.words = 1..m /\ DOMAIN x.words = 1..n
  BY <1>1, <1>2, VocabParts
<1>4. k <= m /\ m <= n /\ x.docs = v.docs
  BY <1>2 DEF Grown
<1>5. /\ \A i \in 1..k : u.words[i] = v.words[i] /\ u.df[i] = v.df[i]
      /\ \A i \in 1..m : x.words[i] = u.words[i] /\ x.df[i] = u.df[i]
  BY <1>3 DEF Grown
<1>6. /\ \A i \in 1..m : k < i => u.df[i] = 0 /\ IsValidWord(u.words[i]) /\ k < MaxVocab
      /\ \A i \in 1..n : m < i => x.df[i] = 0 /\ IsValidWord(x.words[i]) /\ m < MaxVocab
  BY <1>2, <1>3 DEF Grown
<1>7. \A i \in 1..k : i \in 1..m
  BY <1>4
<1>8. k <= n /\ \A i \in 1..k : x.words[i] = v.words[i] /\ x.df[i] = v.df[i]
  BY <1>4, <1>5, <1>7
<1>9. ASSUME NEW i \in 1..n, k < i PROVE x.df[i] = 0 /\ IsValidWord(x.words[i]) /\ k < MaxVocab
  <2>1. CASE m < i
    BY <1>4, <1>6, <2>1, VocabularyConstants DEF VocabularyConstants
  <2>2. CASE ~(m < i)
    <3>1. i \in 1..m
      BY <2>2
    <3> QED  BY <1>5, <1>6, <1>9, <3>1
  <2> QED  BY <2>1, <2>2
<1> QED  BY <1>1, <1>2, <1>3, <1>4, <1>8, <1>9 DEF Grown

LEMMA GrownOnce ==
  ASSUME NEW v \in Vocabs
  PROVE  v \in Grown(v)
<1>1. PICK k \in Nat : k = Len(v.words) /\ DOMAIN v.words = 1..k
  BY VocabParts
<1> QED  BY <1>1 DEF Grown

LEMMA GrownHas ==
  ASSUME NEW v \in Vocabs, NEW u \in Grown(v), NEW w, Has(v, w)
  PROVE  Has(u, w)
<1>1. u \in Vocabs
  BY DEF Grown
<1>2. PICK k \in Nat, m \in Nat : k = Len(v.words) /\ m = Len(u.words)
  BY <1>1, VocabParts
<1>3. DOMAIN v.words = 1..k /\ DOMAIN u.words = 1..m
  BY <1>1, <1>2, VocabParts
<1>4. k <= m /\ \A i \in 1..k : u.words[i] = v.words[i]
  BY <1>2, <1>3 DEF Grown
<1>5. ASSUME w \in ToSet(v.words) PROVE w \in ToSet(u.words)
  <2>1. PICK i \in 1..k : v.words[i] = w
    BY <1>3, <1>5 DEF ToSet
  <2>2. i \in 1..m /\ u.words[i] = w
    BY <1>4, <2>1
  <2> QED  BY <1>3, <2>2 DEF ToSet
<1>6. k >= MaxVocab => m >= MaxVocab
  BY <1>4, VocabularyConstants DEF VocabularyConstants
<1> QED  BY <1>2, <1>5, <1>6 DEF Has

LEMMA BigramsAreTokens ==
  ASSUME NEW tokens \in Seq(Token)
  PROVE  Bigrams(tokens) \in Seq(Token) /\ tokens \o Bigrams(tokens) \in Seq(Token)
<1>1. PICK n \in Nat : n = Len(tokens) /\ \A i \in 1..n : tokens[i] \in Token
  BY LenProperties
<1>2. \A i \in 1..n - 1 : tokens[i] \o tokens[i + 1] \in Token
  <2>1. \A s, t \in Token : s \o t \in Token
    BY ConcatProperties DEF Token
  <2>2. \A i \in 1..n - 1 : i \in 1..n /\ i + 1 \in 1..n
    OBVIOUS
  <2> QED  BY <1>1, <2>1, <2>2
<1>3. PICK m \in Nat : m = IF n = 0 THEN 0 ELSE n - 1
  BY <1>1
<1>4. 1..n - 1 = 1..m
  BY <1>3
<1>5. Bigrams(tokens) \in [1..m -> Token]
  BY <1>1, <1>2, <1>4 DEF Bigrams
<1>6. Bigrams(tokens) \in Seq(Token)
  <2>1. PICK b : b = Bigrams(tokens) /\ b \in [1..m -> Token]
    BY <1>5
  <2> QED  BY <2>1, SeqDef
<1> QED  BY <1>6, ConcatProperties

LEMMA AddWordsGrows ==
  ASSUME NEW v \in Vocabs, NEW tokens \in Seq(Token)
  PROVE  /\ AddWords(v, tokens) \in Grown(v)
         /\ \A w \in ToSet(tokens) : Has(AddWords(v, tokens), w)
<1>1. PICK s \in Seq(Token) : s = tokens \o Bigrams(tokens)
  BY BigramsAreTokens
<1>2. PICK n \in Nat : n = Len(s) /\ DOMAIN s = 1..n /\ \A i \in 1..n : s[i] \in Token
  BY LenProperties
<1>3. PICK V : V = Grown(v)
  OBVIOUS
<1>4. v \in V
  BY <1>3, GrownOnce
<1>5. \A u \in V, i \in 1..n : /\ AddWord(u, s[i]) \in V /\ Has(AddWord(u, s[i]), s[i])
                               /\ \A w : Has(u, w) => Has(AddWord(u, s[i]), w)
  <2> SUFFICES ASSUME NEW u \in V, NEW i \in 1..n
               PROVE  /\ AddWord(u, s[i]) \in V /\ Has(AddWord(u, s[i]), s[i])
                      /\ \A w : Has(u, w) => Has(AddWord(u, s[i]), w)
    OBVIOUS
  <2>1. u \in Vocabs /\ u \in Grown(v) /\ s[i] \in Token
    BY <1>2, <1>3 DEF Grown
  <2>2. AddWord(u, s[i]) \in Grown(u) /\ Has(AddWord(u, s[i]), s[i])
    BY <2>1, AddWordGrows
  <2> QED  BY <1>3, <2>1, <2>2, GrownTwice, GrownHas
<1>6. PICK h : EachWord!Steps(h, V, v, n, s) /\ h[n] = EachWord!Fold(v, s)
  BY <1>2, <1>4, <1>5, EachWord!FoldSteps
<1>7. EachWord!Fold(v, s) = AddWords(v, tokens)
  BY <1>1 DEF EachWord!Fold, EachWord!FoldLeft, EachWord!MapThenFoldSet, EachWord!Max,
              AddWords, FoldLeft, MapThenFoldSet, Max
<1>8. /\ h \in [0..n -> V] /\ h[0] = v
      /\ \A k \in 1..n : h[k] = AddWord(h[k - 1], s[k])
  BY <1>6 DEF EachWord!Steps
<1> DEFINE S == {k \in 0..n : \A i \in 1..k : Has(h[k], s[i])}
<1>9. 0 \in S
  OBVIOUS
<1>10. ASSUME NEW k \in 0..n, k < n, k \in S PROVE k + 1 \in S
  <2>1. k + 1 \in 1..n /\ (k + 1) - 1 = k /\ k + 1 \in 0..n
    BY <1>10
  <2>2. h[k] \in V /\ h[k + 1] = AddWord(h[k], s[k + 1])
    BY <1>8, <2>1
  <2>3. Has(h[k + 1], s[k + 1]) /\ \A w : Has(h[k], w) => Has(h[k + 1], w)
    BY <1>5, <2>1, <2>2
  <2>4. \A i \in 1..k : Has(h[k], s[i])
    BY <1>10
  <2>5. \A i \in 1..k + 1 : i \in 1..k \/ i = k + 1
    OBVIOUS
  <2> QED  BY <2>1, <2>3, <2>4, <2>5
<1>11. n \in S
  <2>1. n \in 0..n
    OBVIOUS
  <2> HIDE DEF S
  <2> QED  BY <1>9, <1>10, <2>1, UpTo
<1>12. h[n] \in V /\ \A i \in 1..n : Has(h[n], s[i])
  <2>1. n \in 0..n
    OBVIOUS
  <2> QED  BY <1>8, <1>11, <2>1
<1>13. ASSUME NEW w \in ToSet(tokens) PROVE \E i \in 1..n : s[i] = w
  <2>1. PICK m \in Nat : m = Len(tokens) /\ DOMAIN tokens = 1..m
    BY LenProperties
  <2>2. PICK i \in 1..m : tokens[i] = w
    BY <2>1 DEF ToSet
  <2>3. PICK l \in Nat : l = Len(Bigrams(tokens)) /\ Bigrams(tokens) \in Seq(Token)
    BY BigramsAreTokens, LenProperties
  <2>4. n = m + l /\ s[i] = tokens[i]
    BY <1>1, <1>2, <2>1, <2>2, <2>3, ConcatProperties
  <2> QED  BY <2>2, <2>4
<1> QED  BY <1>3, <1>6, <1>7, <1>12, <1>13

LEMMA TextsGrow ==
  ASSUME NEW v \in Vocabs, NEW texts \in Seq(Seq(Token))
  PROVE  /\ FoldLeft(AddWords, v, texts) \in Grown(v)
         /\ \A d \in DOMAIN texts : \A w \in ToSet(texts[d]) : Has(FoldLeft(AddWords, v, texts), w)
<1>1. PICK n \in Nat : n = Len(texts) /\ DOMAIN texts = 1..n /\ \A i \in 1..n : texts[i] \in Seq(Token)
  BY LenProperties
<1>2. PICK V : V = Grown(v)
  OBVIOUS
<1>3. v \in V
  BY <1>2, GrownOnce
<1>4. \A u \in V, i \in 1..n : /\ AddWords(u, texts[i]) \in V
                               /\ \A w \in ToSet(texts[i]) : Has(AddWords(u, texts[i]), w)
                               /\ \A w : Has(u, w) => Has(AddWords(u, texts[i]), w)
  <2> SUFFICES ASSUME NEW u \in V, NEW i \in 1..n
               PROVE  /\ AddWords(u, texts[i]) \in V
                      /\ \A w \in ToSet(texts[i]) : Has(AddWords(u, texts[i]), w)
                      /\ \A w : Has(u, w) => Has(AddWords(u, texts[i]), w)
    OBVIOUS
  <2>1. u \in Vocabs /\ u \in Grown(v) /\ texts[i] \in Seq(Token)
    BY <1>1, <1>2 DEF Grown
  <2>2. AddWords(u, texts[i]) \in Grown(u) /\ \A w \in ToSet(texts[i]) : Has(AddWords(u, texts[i]), w)
    BY <2>1, AddWordsGrows
  <2> QED  BY <1>2, <2>1, <2>2, GrownTwice, GrownHas
<1>5. PICK h : EachText!Steps(h, V, v, n, texts) /\ h[n] = EachText!Fold(v, texts)
  BY <1>1, <1>3, <1>4, EachText!FoldSteps
<1>6. EachText!Fold(v, texts) = FoldLeft(AddWords, v, texts)
  BY DEF EachText!Fold, EachText!FoldLeft, EachText!MapThenFoldSet, EachText!Max,
         FoldLeft, MapThenFoldSet, Max
<1>7. /\ h \in [0..n -> V] /\ h[0] = v
      /\ \A k \in 1..n : h[k] = AddWords(h[k - 1], texts[k])
  BY <1>5 DEF EachText!Steps
<1> DEFINE S == {k \in 0..n : \A i \in 1..k : \A w \in ToSet(texts[i]) : Has(h[k], w)}
<1>8. 0 \in S
  OBVIOUS
<1>9. ASSUME NEW k \in 0..n, k < n, k \in S PROVE k + 1 \in S
  <2>1. k + 1 \in 1..n /\ (k + 1) - 1 = k /\ k + 1 \in 0..n
    BY <1>9
  <2>2. h[k] \in V /\ h[k + 1] = AddWords(h[k], texts[k + 1])
    BY <1>7, <2>1
  <2>3. /\ \A w \in ToSet(texts[k + 1]) : Has(h[k + 1], w)
        /\ \A w : Has(h[k], w) => Has(h[k + 1], w)
    <3>1. PICK u \in V, j \in 1..n : u = h[k] /\ j = k + 1
      BY <2>1, <2>2
    <3>2. /\ \A w \in ToSet(texts[j]) : Has(AddWords(u, texts[j]), w)
          /\ \A w : Has(u, w) => Has(AddWords(u, texts[j]), w)
      BY <1>4
    <3>3. h[k + 1] = AddWords(u, texts[j]) /\ texts[k + 1] = texts[j] /\ h[k] = u
      BY <2>2, <3>1
    <3> QED  BY ONLY <3>2, <3>3
  <2>4. \A i \in 1..k : \A w \in ToSet(texts[i]) : Has(h[k], w)
    BY <1>9
  <2>5. \A i \in 1..k + 1 : i \in 1..k \/ i = k + 1
    OBVIOUS
  <2> QED  BY <2>1, <2>3, <2>4, <2>5
<1>10. n \in S
  <2>1. n \in 0..n
    OBVIOUS
  <2> HIDE DEF S
  <2> QED  BY <1>8, <1>9, <2>1, UpTo
<1>11. h[n] \in V /\ \A i \in 1..n : \A w \in ToSet(texts[i]) : Has(h[n], w)
  <2>1. n \in 0..n
    OBVIOUS
  <2> QED  BY <1>7, <1>10, <2>1
<1> QED  BY <1>1, <1>2, <1>5, <1>6, <1>11

(* How often a word occurs in a text is a number.                          *)
LEMMA OccurrencesAreCounted ==
  ASSUME NEW tokens \in Seq(Token), NEW w
  PROVE  Occurrences(tokens, w) \in Nat /\ (Occurrences(tokens, w) # 0 <=> w \in ToSet(tokens))
<1>1. DOMAIN tokens = 1..Len(tokens) /\ Len(tokens) \in Nat
  BY LenProperties
<1>2. IsFiniteSet(DOMAIN tokens)
  BY <1>1, FS_Interval
<1>3. IsFiniteSet({i \in DOMAIN tokens : tokens[i] = w})
  BY <1>2, FS_Subset
<1>4. w \in ToSet(tokens) <=> {i \in DOMAIN tokens : tokens[i] = w} # {}
  BY DEF ToSet
<1> QED  BY <1>3, <1>4, FS_CardinalityType, FS_EmptySet DEF Occurrences

(* The words and indices of v, with other counts.                          *)
Recounted(v) == {u \in Vocabs : u.words = v.words /\ u.index = v.index}

LEMMA CountingRecounts ==
  ASSUME NEW v \in Vocabs, NEW tokens \in Seq(Token)
  PROVE  /\ CountDocument(v, tokens) \in Recounted(v)
         /\ CountDocument(v, tokens).docs = v.docs + 1
         /\ \A i \in DOMAIN v.words : CountDocument(v, tokens).df[i] # 0
              <=> v.df[i] # 0 \/ v.words[i] \in ToSet(tokens)
<1> DEFINE u == CountDocument(v, tokens)
<1>1. PICK n \in Nat : n = Len(v.words)
  BY VocabParts
<1>2. /\ v = [words |-> v.words, index |-> v.index, df |-> v.df, docs |-> v.docs]
      /\ v.docs \in Nat /\ DOMAIN v.words = 1..n /\ \A i \in 1..n : v.df[i] \in Nat
  BY <1>1, VocabParts
<1>3. /\ u.words = v.words /\ u.index = v.index /\ u.docs = v.docs + 1
      /\ u.df = [i \in 1..n |-> v.df[i] + Occurrences(tokens, v.words[i])]
      /\ u = [words |-> u.words, index |-> u.index, df |-> u.df, docs |-> u.docs]
  <2>1. PICK df : df = [i \in 1..n |-> v.df[i] + Occurrences(tokens, v.words[i])]
    OBVIOUS
  <2>2. u = [v EXCEPT !.df = df, !.docs = v.docs + 1]
    BY <1>2, <2>1 DEF CountDocument
  <2>3. u = [words |-> v.words, index |-> v.index, df |-> df, docs |-> v.docs + 1]
    BY <1>2, <2>2
  <2> QED  BY <2>1, <2>3
<1>4. u.df \in [1..n -> Nat]
  <2>1. \A i \in 1..n : v.df[i] + Occurrences(tokens, v.words[i]) \in Nat
    BY <1>2, OccurrencesAreCounted
  <2> QED  BY <1>3, <2>1
<1>5. u.df \in Seq(Nat) /\ Len(u.df) = n
  <2>1. PICK df : df = u.df /\ df \in [1..n -> Nat]
    BY <1>4
  <2>2. df \in Seq(Nat) /\ Len(df) = n
    BY <2>1, SeqDef, LenProperties
  <2> QED  BY <2>1, <2>2
<1> HIDE DEF u
<1>6. u \in Vocabs
  <2>1. /\ v.words \in Seq(Token) /\ v.index \in UNION {[S -> Nat] : S \in SUBSET Token}
        /\ DOMAIN v.index = ToSet(v.words) /\ \A i \in DOMAIN v.words : v.index[v.words[i]] = i - 1
    BY DEF Vocabs
  <2>2. u.docs \in Nat
    BY <1>2, <1>3
  <2> QED  BY <1>1, <1>3, <1>5, <2>1, <2>2 DEF Vocabs
<1>7. u \in Recounted(v) /\ u.docs = v.docs + 1
  BY <1>3, <1>6 DEF Recounted
<1>8. ASSUME NEW i \in 1..n PROVE u.df[i] # 0 <=> v.df[i] # 0 \/ v.words[i] \in ToSet(tokens)
  <2>1. PICK m \in Nat : m = Occurrences(tokens, v.words[i]) /\ (m # 0 <=> v.words[i] \in ToSet(tokens))
    BY OccurrencesAreCounted
  <2>2. PICK k \in Nat : k = v.df[i]
    BY <1>2
  <2>3. u.df[i] = k + m
    BY <1>3, <2>1, <2>2
  <2> QED  BY <2>1, <2>2, <2>3
<1> QED  BY <1>2, <1>7, <1>8 DEF u

LEMMA TextsCounted ==
  ASSUME NEW v \in Vocabs, NEW texts \in Seq(Seq(Token))
  PROVE  /\ FoldLeft(CountDocument, v, texts) \in Recounted(v)
         /\ FoldLeft(CountDocument, v, texts).docs = v.docs + Len(texts)
         /\ \A i \in DOMAIN v.words : FoldLeft(CountDocument, v, texts).df[i] # 0
              <=> v.df[i] # 0 \/ \E d \in DOMAIN texts : v.words[i] \in ToSet(texts[d])
<1>1. PICK n \in Nat : n = Len(texts) /\ DOMAIN texts = 1..n /\ \A i \in 1..n : texts[i] \in Seq(Token)
  BY LenProperties
<1>2. PICK V : V = Recounted(v)
  OBVIOUS
<1>3. v \in V
  BY <1>2 DEF Recounted
<1> DEFINE Counts(u, x, text) == \A i \in DOMAIN v.words :
             x.df[i] # 0 <=> u.df[i] # 0 \/ v.words[i] \in ToSet(text)
<1>4. \A u \in V, i \in 1..n : /\ CountDocument(u, texts[i]) \in V
                               /\ CountDocument(u, texts[i]).docs = u.docs + 1
                               /\ Counts(u, CountDocument(u, texts[i]), texts[i])
  <2> SUFFICES ASSUME NEW u \in V, NEW i \in 1..n
               PROVE  /\ CountDocument(u, texts[i]) \in V /\ CountDocument(u, texts[i]).docs = u.docs + 1
                      /\ Counts(u, CountDocument(u, texts[i]), texts[i])
    BY Zenon
  <2>1. u \in Vocabs /\ u.words = v.words /\ u.index = v.index /\ texts[i] \in Seq(Token)
    BY <1>1, <1>2 DEF Recounted
  <2>2. /\ CountDocument(u, texts[i]) \in Recounted(u) /\ CountDocument(u, texts[i]).docs = u.docs + 1
        /\ Counts(u, CountDocument(u, texts[i]), texts[i])
    BY <2>1, CountingRecounts
  <2> QED  BY <1>2, <2>1, <2>2 DEF Recounted
<1> HIDE DEF Counts
<1>5. PICK h : EachCount!Steps(h, V, v, n, texts) /\ h[n] = EachCount!Fold(v, texts)
  BY <1>1, <1>3, <1>4, EachCount!FoldSteps
<1>6. EachCount!Fold(v, texts) = FoldLeft(CountDocument, v, texts)
  BY DEF EachCount!Fold, EachCount!FoldLeft, EachCount!MapThenFoldSet, EachCount!Max,
         FoldLeft, MapThenFoldSet, Max
<1>7. /\ h \in [0..n -> V] /\ h[0] = v
      /\ \A k \in 1..n : h[k] = CountDocument(h[k - 1], texts[k])
  BY <1>5 DEF EachCount!Steps
<1>8. PICK d \in Nat : d = v.docs
  BY VocabParts
<1> DEFINE Counted(k) == \A i \in DOMAIN v.words :
             h[k].df[i] # 0 <=> v.df[i] # 0 \/ \E e \in 1..k : v.words[i] \in ToSet(texts[e])
           S == {k \in 0..n : h[k].docs = d + k /\ Counted(k)}
<1>9. 0 \in S
  <2>1. Counted(0)
    BY <1>7
  <2> QED  BY <1>7, <1>8, <2>1
<1>10. ASSUME NEW k \in 0..n, k < n, k \in S PROVE k + 1 \in S
  <2>1. k + 1 \in 1..n /\ (k + 1) - 1 = k /\ k + 1 \in 0..n
    BY <1>10
  <2>2. h[k] \in V /\ h[k + 1] = CountDocument(h[k], texts[k + 1])
    BY <1>7, <2>1
  <2>3. h[k + 1].docs = h[k].docs + 1 /\ Counts(h[k], h[k + 1], texts[k + 1])
    BY <1>4, <2>1, <2>2
  <2>4. h[k].docs = d + k /\ Counted(k)
    BY <1>10
  <2>5. Counted(k + 1)
    <3>1. \A e : e \in 1..k + 1 <=> e \in 1..k \/ e = k + 1
      OBVIOUS
    <3> QED  BY <2>3, <2>4, <3>1 DEF Counts
  <2> HIDE DEF Counted
  <2> QED  BY <2>1, <2>3, <2>4, <2>5
<1>11. n \in S
  <2>1. n \in 0..n
    OBVIOUS
  <2> HIDE DEF S
  <2> QED  BY <1>9, <1>10, <2>1, UpTo
<1>12. h[n] \in V /\ h[n].docs = d + n /\ Counted(n)
  <2>1. n \in 0..n
    OBVIOUS
  <2> QED  BY <1>7, <1>11, <2>1
<1> QED  BY <1>1, <1>2, <1>5, <1>6, <1>8, <1>12

-----------------------------------------------------------------------------
(* Texts: lines, chunks and their tokens.                                  *)
Line  == Seq(Token)
Chunk == Seq(Line)

LEMMA TokensOfChunk ==
  ASSUME NEW text \in Chunk
  PROVE  Tokens(text) \in Seq(Token)
<1>1. PICK n \in Nat : n = Len(text) /\ text \in Seq(Seq(Token))
  BY LenProperties DEF Chunk, Line
<1>2. PICK h : Flattens(h, Seq(Token), text, n) /\ h[n] = FlattenSeq(text)
  BY <1>1, FlattenValues
<1>3. n \in 0..n
  OBVIOUS
<1> QED  BY <1>2, <1>3 DEF Flattens, Tokens

Cutting == [chunks : Seq(Chunk), current : Chunk]

LEMMA AddLineCuts ==
  ASSUME NEW acc \in Cutting, NEW line \in Line
  PROVE  AddLine(acc, line) \in Cutting
<1>1. /\ acc = [chunks |-> acc.chunks, current |-> acc.current]
      /\ acc.chunks \in Seq(Chunk) /\ acc.current \in Seq(Line)
  BY DEF Cutting, Chunk
<1>2. Begin(line) \in Chunk
  BY DEF Begin, Chunk
<1>3. Append(acc.current, line) \in Chunk
  BY <1>1, AppendProperties DEF Chunk
<1>4. Append(acc.chunks, acc.current) \in Seq(Chunk)
  BY <1>1, AppendProperties DEF Chunk
<1> QED  BY <1>1, <1>2, <1>3, <1>4 DEF AddLine, Cutting, Chunk

Uncut == [chunks |-> <<>>, current |-> <<>>]
Cut(lines) == FoldLeft(AddLine, Uncut, lines)
CutSteps(h, n, lines) ==
  /\ h \in [0..n -> Cutting] /\ h[0] = Uncut
  /\ \A k \in 1..n : h[k] = AddLine(h[k - 1], lines[k])

LEMMA CuttingSteps ==
  ASSUME NEW lines \in Chunk, NEW n \in Nat, n = Len(lines)
  PROVE  \E h : CutSteps(h, n, lines) /\ h[n] = Cut(lines)
<1>1. DOMAIN lines = 1..n /\ \A i \in 1..n : lines[i] \in Line
  BY LenProperties DEF Chunk
<1>2. PICK V, base : V = Cutting /\ base = Uncut
  OBVIOUS
<1>3. base \in V
  BY <1>2 DEF Cutting, Uncut, Chunk
<1>4. \A acc \in V, i \in 1..n : AddLine(acc, lines[i]) \in V
  BY <1>1, <1>2, AddLineCuts
<1>5. PICK h : EachLine!Steps(h, V, base, n, lines) /\ h[n] = EachLine!Fold(base, lines)
  BY <1>1, <1>3, <1>4, EachLine!FoldSteps
<1>6. EachLine!Fold(base, lines) = Cut(lines)
  BY <1>2 DEF EachLine!Fold, EachLine!FoldLeft, EachLine!MapThenFoldSet, EachLine!Max,
              Cut, FoldLeft, MapThenFoldSet, Max
<1>7. CutSteps(h, n, lines)
  BY <1>2, <1>5 DEF EachLine!Steps, CutSteps
<1> QED  BY <1>5, <1>6, <1>7

(* The chunks of a cutting, and what is done with a text of blank lines.   *)
Closed(cut) == IF cut.current = <<>> THEN cut.chunks ELSE Append(cut.chunks, cut.current)

LEMMA SplitIs ==
  ASSUME NEW lines \in Chunk
  PROVE  /\ SplitIntoChunks(lines) = IF Closed(Cut(lines)) = <<>> /\ lines # <<>>
                                     THEN <<lines>> ELSE Closed(Cut(lines))
         /\ SplitIntoChunks(lines) \in Seq(Chunk)
<1>1. PICK n \in Nat : n = Len(lines)
  BY LenProperties DEF Chunk
<1>2. Cut(lines) \in Cutting
  <2>1. PICK h : CutSteps(h, n, lines) /\ h[n] = Cut(lines)
    BY <1>1, CuttingSteps
  <2>2. n \in 0..n
    OBVIOUS
  <2> QED  BY <2>1, <2>2 DEF CutSteps
<1>3. Closed(Cut(lines)) \in Seq(Chunk)
  BY <1>2, AppendProperties DEF Closed, Cutting
<1>4. <<lines>> \in Seq(Chunk)
  OBVIOUS
<1>5. SplitIntoChunks(lines) = IF Closed(Cut(lines)) = <<>> /\ lines # <<>>
                               THEN <<lines>> ELSE Closed(Cut(lines))
  BY DEF SplitIntoChunks, Closed, Cut, Uncut
<1> QED  BY <1>3, <1>4, <1>5

LEMMA NewChunksAre ==
  ASSUME NEW doc \in Chunk
  PROVE  /\ NewChunks(doc) \in Seq(Chunk)
         /\ Stored = {} => NewChunks(doc) = SplitIntoChunks(doc)
<1>1. PICK all \in Seq(Chunk) : all = SplitIntoChunks(doc)
  BY SplitIs
<1>2. PICK n \in Nat : n = Len(all) /\ DOMAIN all = 1..n /\ \A i \in 1..n : all[i] \in Chunk
  BY LenProperties
<1>3. PICK V, base : V = Seq(Chunk) /\ base = <<>>
  OBVIOUS
<1>4. base \in V
  BY <1>3
<1>5. \A acc \in V, i \in 1..n : AddNew(acc, all[i]) \in V
  BY <1>2, <1>3, AppendProperties DEF AddNew
<1>6. PICK h : EachChunk!Steps(h, V, base, n, all) /\ h[n] = EachChunk!Fold(base, all)
  BY <1>2, <1>4, <1>5, EachChunk!FoldSteps
<1>7. EachChunk!Fold(base, all) = NewChunks(doc)
  BY <1>1, <1>3 DEF EachChunk!Fold, EachChunk!FoldLeft, EachChunk!MapThenFoldSet, EachChunk!Max,
                    NewChunks, FoldLeft, MapThenFoldSet, Max
<1>8. /\ h \in [0..n -> V] /\ h[0] = base
      /\ \A k \in 1..n : h[k] = AddNew(h[k - 1], all[k])
  BY <1>6 DEF EachChunk!Steps
<1>9. NewChunks(doc) \in Seq(Chunk)
  <2>1. n \in 0..n
    OBVIOUS
  <2> QED  BY <1>3, <1>6, <1>7, <1>8, <2>1
<1>10. ASSUME Stored = {} PROVE NewChunks(doc) = all
  <2> DEFINE S == {k \in 0..n : Len(h[k]) = k /\ \A i \in 1..k : h[k][i] = all[i]}
  <2>1. 0 \in S
    BY <1>3, <1>8
  <2>2. ASSUME NEW k \in 0..n, k < n, k \in S PROVE k + 1 \in S
    <3>1. k + 1 \in 1..n /\ k + 1 \in 0..n /\ (k + 1) - 1 = k
      BY <2>2
    <3>2. PICK s \in Seq(Chunk) : s = h[k]
      BY <1>3, <1>8
    <3>3. Len(s) = k /\ \A i \in 1..k : s[i] = all[i]
      BY <2>2, <3>2
    <3>4. h[k + 1] = Append(s, all[k + 1])
      BY <1>8, <1>10, <3>1, <3>2 DEF AddNew
    <3>5. all[k + 1] \in Chunk
      BY <1>2, <3>1
    <3>6. /\ Len(h[k + 1]) = k + 1 /\ h[k + 1][k + 1] = all[k + 1]
          /\ \A i \in 1..k : h[k + 1][i] = all[i]
      BY <3>3, <3>4, <3>5, AppendProperties
    <3>7. \A i \in 1..k + 1 : i \in 1..k \/ i = k + 1
      OBVIOUS
    <3> QED  BY <3>1, <3>6, <3>7
  <2>3. n \in S
    <3>1. n \in 0..n
      OBVIOUS
    <3> HIDE DEF S
    <3> QED  BY <2>1, <2>2, <3>1, UpTo
  <2>4. PICK s \in Seq(Chunk) : s = NewChunks(doc)
    BY <1>9
  <2>5. Len(s) = n /\ \A i \in 1..n : s[i] = all[i]
    BY <1>6, <1>7, <2>3, <2>4
  <2>6. s = all
    BY <1>2, <2>5, SeqEqual
  <2> QED  BY <2>4, <2>6
<1> QED  BY <1>1, <1>9, <1>10

-----------------------------------------------------------------------------
(* Splitting: SplitIntoChunks takes the lines in their order.              *)

(* Sizes add up: a line more is its bytes and a newline more.              *)
Total(chunk) == FoldLeft(LAMBDA size, line : size + Len(line), 0, chunk)

LEMMA TotalSteps ==
  ASSUME NEW c \in Chunk, NEW n \in Nat, n = Len(c)
  PROVE  \E h : /\ h \in [0..n -> Nat] /\ h[0] = 0
                /\ \A k \in 1..n : h[k] = h[k - 1] + Len(c[k])
                /\ h[n] = Total(c)
<1>1. DOMAIN c = 1..n /\ \A i \in 1..n : Len(c[i]) \in Nat
  BY LenProperties DEF Chunk, Line
<1>2. 0 \in Nat /\ \A v \in Nat, i \in 1..n : v + Len(c[i]) \in Nat
  BY <1>1
<1>3. PICK h : Steps(h, Nat, 0, n, c) /\ h[n] = Fold(0, c)
  BY <1>1, <1>2, FoldSteps
<1>4. Fold(0, c) = Total(c)
  BY DEF Fold, Total
<1>5. h \in [0..n -> Nat] /\ h[0] = 0 /\ \A k \in 1..n : h[k] = h[k - 1] + Len(c[k])
  BY <1>3 DEF Steps
<1> QED  BY <1>3, <1>4, <1>5

LEMMA SizeOfAppend ==
  ASSUME NEW c \in Chunk, c # <<>>, NEW line \in Line
  PROVE  Size(c) \in Nat /\ Size(Append(c, line)) = Size(c) + Len(line) + 1
<1>1. PICK n \in Nat : n = Len(c) /\ n >= 1
  <2>1. Len(c) \in Nat /\ Len(c) # 0
    BY LenProperties, EmptySeq DEF Chunk
  <2> QED  BY <2>1
<1>2. PICK d \in Chunk : d = Append(c, line)
  BY AppendProperties DEF Chunk
<1>3. Len(d) = n + 1 /\ d[n + 1] = line /\ (\A i \in 1..n : d[i] = c[i]) /\ d # <<>>
  BY <1>1, <1>2, AppendProperties DEF Chunk
<1>4. PICK g : /\ g \in [0..n -> Nat] /\ g[0] = 0
               /\ \A k \in 1..n : g[k] = g[k - 1] + Len(c[k])
               /\ g[n] = Total(c)
  BY <1>1, TotalSteps
<1>5. PICK h : /\ h \in [0..n + 1 -> Nat] /\ h[0] = 0
               /\ \A k \in 1..n + 1 : h[k] = h[k - 1] + Len(d[k])
               /\ h[n + 1] = Total(d)
  <2>1. n + 1 \in Nat
    OBVIOUS
  <2> QED  BY <1>3, <2>1, TotalSteps
<1> DEFINE S == {k \in 0..n : h[k] = g[k]}
<1>6. 0 \in S
  BY <1>4, <1>5
<1>7. ASSUME NEW k \in 0..n, k < n, k \in S PROVE k + 1 \in S
  <2>1. k + 1 \in 1..n /\ k + 1 \in 1..n + 1 /\ (k + 1) - 1 = k /\ k + 1 \in 0..n /\ h[k] = g[k]
    BY <1>7
  <2>2. g[k + 1] = g[k] + Len(c[k + 1]) /\ h[k + 1] = h[k] + Len(d[k + 1])
    BY <1>4, <1>5, <2>1
  <2>3. h[k + 1] = g[k + 1]
    BY <1>3, <2>1, <2>2
  <2> QED  BY <2>1, <2>3
<1>8. n \in S
  <2>1. n \in 0..n
    OBVIOUS
  <2> HIDE DEF S
  <2> QED  BY <1>6, <1>7, <2>1, UpTo
<1>9. PICK t \in Nat, l \in Nat : t = Total(c) /\ l = Len(line)
  <2>1. g[n] \in Nat
    BY <1>4
  <2> QED  BY <1>4, <2>1, LenProperties DEF Line
<1>10. Total(d) = t + l
  <2>1. n + 1 \in 1..n + 1 /\ (n + 1) - 1 = n
    OBVIOUS
  <2>2. h[n + 1] = h[n] + Len(d[n + 1])
    BY <1>5, <2>1
  <2> QED  BY <1>3, <1>4, <1>5, <1>8, <1>9, <2>2
<1>11. Size(c) = t + (n - 1) /\ Size(d) = (t + l) + n
  <2>1. Size(c) = Total(c) + (n - 1)
    BY <1>1 DEF Size, Total
  <2>2. Size(d) = Total(d) + ((n + 1) - 1)
    BY <1>3 DEF Size, Total
  <2> QED  BY <1>9, <1>10, <2>1, <2>2
<1>12. PICK z, w : z = Size(c) /\ w = Size(d) /\ z = t + (n - 1) /\ w = (t + l) + n
  BY <1>11
<1>13. z \in Nat /\ w = z + l + 1
  BY ONLY <1>1, <1>12, n \in Nat, t \in Nat, l \in Nat
<1> QED  BY <1>2, <1>9, <1>12, <1>13

(* Chunk c is the lines from a to b, with only blank ones from f to a.     *)
Placed(lines, c, f, a, b) ==
  /\ f <= a /\ a <= b /\ c = SubSeq(lines, a, b)
  /\ \A k \in f..a - 1 : lines[k] = Blank
  /\ Size(c) <= MaxChunk \/ a = b \/ \A k \in DOMAIN lines : lines[k] = Blank
  /\ b < Len(lines) => Size(Append(c, lines[b + 1])) > MaxChunk

EndOf(last, m) == IF m = 0 THEN 0 ELSE last[m]

(* After k lines there are m chunks; the current one begins with line s.   *)
CutAt(lines, acc, k, m, first, last, s) ==
  /\ m \in Nat /\ m = Len(acc.chunks)
  /\ first \in [1..m -> 1..k] /\ last \in [1..m -> 1..k]
  /\ \A i \in 1..m : Placed(lines, acc.chunks[i], EndOf(last, i - 1) + 1, first[i], last[i])
  /\ s \in EndOf(last, m) + 1..k + 1
  /\ \A j \in EndOf(last, m) + 1..s - 1 : lines[j] = Blank
  /\ IF acc.current = <<>> THEN s = k + 1
     ELSE /\ s <= k /\ acc.current = SubSeq(lines, s, k)
          /\ Size(acc.current) <= MaxChunk \/ s = k

IsCutAt(lines, acc, k) == \E m, first, last, s : CutAt(lines, acc, k, m, first, last, s)

LEMMA OneLine ==
  ASSUME NEW lines \in Chunk, NEW k \in 1..Len(lines)
  PROVE  SubSeq(lines, k, k) = <<lines[k]>>
<1>1. lines[k] \in Line /\ k \in Int /\ \A i \in k..k : lines[i] \in Line
  BY LenProperties DEF Chunk
<1>2. PICK s : s = SubSeq(lines, k, k)
  OBVIOUS
<1>3. s \in Seq(Line) /\ Len(s) = 1 /\ s[1] = lines[k]
  <2>1. /\ s \in Seq(Line) /\ Len(s) = IF k <= k THEN k - k + 1 ELSE 0
        /\ \A i \in 1..k - k + 1 : s[i] = lines[k + i - 1]
    BY <1>1, <1>2, SubSeqProperties
  <2>2. k \in Nat /\ k - k + 1 = 1 /\ k + 1 - 1 = k /\ 1 \in 1..k - k + 1
    BY LenProperties DEF Chunk
  <2> QED  BY <2>1, <2>2
<1>4. s = <<lines[k]>>
  BY <1>1, <1>3, SeqEqual
<1> QED  BY <1>2, <1>4

LEMMA LineMore ==
  ASSUME NEW lines \in Chunk, NEW s \in Nat, s >= 1, NEW k \in Nat, s <= k, k < Len(lines)
  PROVE  Append(SubSeq(lines, s, k), lines[k + 1]) = SubSeq(lines, s, k + 1)
<1>1. PICK n \in Nat : n = Len(lines) /\ lines \in Seq(Line)
  BY LenProperties DEF Chunk
<1>2. s \in 1..n /\ k + 1 \in s..n /\ (k + 1) - 1 = k
  BY <1>1
<1>3. SubSeq(lines, s, k + 1) = SubSeq(lines, s, k) \o << lines[k + 1] >>
  BY <1>1, <1>2, SubSeqRecursiveSecond
<1>4. PICK c \in Seq(Line), line \in Line : c = SubSeq(lines, s, k) /\ line = lines[k + 1]
  <2>1. k + 1 \in 1..n /\ \A i \in s..k : i \in 1..n
    BY <1>1
  <2>2. lines[k + 1] \in Line /\ \A i \in s..k : lines[i] \in Line
    BY <1>1, <2>1, LenProperties
  <2>3. SubSeq(lines, s, k) \in Seq(Line)
    BY <2>2, SubSeqProperties
  <2> QED  BY <2>2, <2>3
<1>5. Append(c, line) = c \o << line >>
  BY AppendIsConcat
<1> QED  BY <1>3, <1>4, <1>5

(* The next line begins a chunk, unless it is blank.                       *)
LEMMA CutBegins ==
  ASSUME NEW lines \in Chunk, NEW acc \in Cutting, NEW k \in Nat, k < Len(lines),
         IsCutAt(lines, acc, k), acc.current = <<>>
  PROVE  IsCutAt(lines, [chunks |-> acc.chunks, current |-> Begin(lines[k + 1])], k + 1)
<1>1. PICK m, first, last, s : CutAt(lines, acc, k, m, first, last, s)
  BY DEF IsCutAt
<1> DEFINE e == EndOf(last, m)
           next == [chunks |-> acc.chunks, current |-> Begin(lines[k + 1])]
<1>2. /\ m \in Nat /\ m = Len(acc.chunks) /\ first \in [1..m -> 1..k] /\ last \in [1..m -> 1..k]
      /\ \A i \in 1..m : Placed(lines, acc.chunks[i], EndOf(last, i - 1) + 1, first[i], last[i])
      /\ s = k + 1 /\ s \in e + 1..k + 1 /\ \A j \in e + 1..s - 1 : lines[j] = Blank
  BY <1>1 DEF CutAt
<1>3. e \in 0..k
  BY <1>2 DEF EndOf
<1>4. first \in [1..m -> 1..k + 1] /\ last \in [1..m -> 1..k + 1]
  <2>1. \A j \in 1..k : j \in 1..k + 1
    OBVIOUS
  <2> QED  BY <1>2, <2>1
<1>5. next.chunks = acc.chunks /\ next.current = Begin(lines[k + 1])
  OBVIOUS
<1> HIDE DEF e
<1>6. CASE lines[k + 1] = Blank
  <2>1. next.current = <<>>
    BY <1>5, <1>6 DEF Begin
  <2>2. \A j \in e + 1..(k + 2) - 1 : lines[j] = Blank
    <3>1. \A j \in e + 1..(k + 2) - 1 : j \in e + 1..s - 1 \/ j = k + 1
      BY <1>2, <1>3
    <3> QED  BY <1>2, <1>6, <3>1
  <2>3. k + 2 \in e + 1..(k + 1) + 1 /\ k + 2 = (k + 1) + 1
    BY <1>3
  <2> HIDE DEF next
  <2>4. CutAt(lines, next, k + 1, m, first, last, k + 2)
    BY <1>2, <1>4, <1>5, <2>1, <2>2, <2>3 DEF CutAt, e
  <2> QED  BY <2>4 DEF IsCutAt, next
<1>7. CASE lines[k + 1] # Blank
  <2>1. next.current = << lines[k + 1] >> /\ next.current # <<>>
    BY <1>5, <1>7 DEF Begin
  <2>2. k + 1 \in 1..Len(lines)
    BY LenProperties DEF Chunk
  <2>3. next.current = SubSeq(lines, k + 1, k + 1)
    BY <2>1, <2>2, OneLine
  <2>4. s \in e + 1..(k + 1) + 1 /\ s <= k + 1
    BY <1>2, <1>3
  <2> HIDE DEF next
  <2>5. CutAt(lines, next, k + 1, m, first, last, s)
    BY <1>2, <1>4, <1>5, <2>1, <2>3, <2>4 DEF CutAt, e
  <2> QED  BY <2>5 DEF IsCutAt, next
<1> QED  BY <1>6, <1>7

(* The current chunk is one more when the next line does not fit.          *)
LEMMA CutCloses ==
  ASSUME NEW lines \in Chunk, NEW acc \in Cutting, NEW k \in Nat,
         k < Len(lines) => ~Fits(acc.current, lines[k + 1]), k <= Len(lines),
         IsCutAt(lines, acc, k), acc.current # <<>>
  PROVE  IsCutAt(lines, [chunks |-> Append(acc.chunks, acc.current), current |-> <<>>], k)
<1>1. PICK m, first, last, s : CutAt(lines, acc, k, m, first, last, s)
  BY DEF IsCutAt
<1>2. /\ m \in Nat /\ m = Len(acc.chunks) /\ first \in [1..m -> 1..k] /\ last \in [1..m -> 1..k]
      /\ \A i \in 1..m : Placed(lines, acc.chunks[i], EndOf(last, i - 1) + 1, first[i], last[i])
      /\ s \in EndOf(last, m) + 1..k + 1 /\ \A j \in EndOf(last, m) + 1..s - 1 : lines[j] = Blank
      /\ s <= k /\ acc.current = SubSeq(lines, s, k) /\ (Size(acc.current) <= MaxChunk \/ s = k)
  BY <1>1 DEF CutAt
<1>3. PICK chunks, c : chunks = Append(acc.chunks, acc.current) /\ c = acc.current
  OBVIOUS
<1>4. /\ Len(chunks) = m + 1 /\ chunks[m + 1] = c /\ \A i \in 1..m : chunks[i] = acc.chunks[i]
      /\ c \in Chunk
  <2>1. PICK old \in Seq(Chunk) : old = acc.chunks /\ c \in Chunk
    BY <1>3 DEF Cutting
  <2>2. chunks = Append(old, c) /\ Len(old) = m
    BY <1>2, <1>3, <2>1
  <2> QED  BY <2>1, <2>2, AppendProperties
<1>5. EndOf(last, m) \in 0..k
  <2>1. m = 0 \/ m \in 1..m
    BY <1>2
  <2>2. last \in [1..m -> 1..k]
    BY <1>2
  <2> QED  BY <2>1, <2>2 DEF EndOf
<1>6. s \in 1..k /\ k \in 1..k
  BY <1>2, <1>5
<1>7. PICK f : f = [i \in 1..m + 1 |-> IF i = m + 1 THEN s ELSE first[i]]
  OBVIOUS
<1>8. PICK l : l = [i \in 1..m + 1 |-> IF i = m + 1 THEN k ELSE last[i]]
  OBVIOUS
<1>9. /\ f \in [1..m + 1 -> 1..k] /\ l \in [1..m + 1 -> 1..k]
      /\ \A i \in 1..m : f[i] = first[i] /\ l[i] = last[i]
      /\ f[m + 1] = s /\ l[m + 1] = k
  <2>1. \A i \in 1..m + 1 : i = m + 1 \/ i \in 1..m
    BY <1>2
  <2>2. /\ m + 1 \in 1..m + 1 /\ \A i \in 1..m : i \in 1..m + 1 /\ i # m + 1
    BY <1>2
  <2> QED  BY <1>2, <1>6, <1>7, <1>8, <2>1, <2>2
<1>10. \A i \in 0..m : EndOf(l, i) = EndOf(last, i)
  <2>1. \A i \in 0..m : i = 0 \/ i \in 1..m
    BY <1>2
  <2> QED  BY <1>9, <2>1 DEF EndOf
<1>11. ASSUME NEW i \in 1..m + 1
       PROVE  Placed(lines, chunks[i], EndOf(l, i - 1) + 1, f[i], l[i])
  <2>1. CASE i = m + 1
    <3>1. EndOf(l, i - 1) = EndOf(last, m)
      BY <1>2, <1>10, <2>1
    <3>2. k < Len(lines) => Size(Append(c, lines[k + 1])) > MaxChunk
      <4> SUFFICES ASSUME k < Len(lines) PROVE Size(Append(c, lines[k + 1])) > MaxChunk
        OBVIOUS
      <4>1. k + 1 \in 1..Len(lines)
        BY LenProperties DEF Chunk
      <4>2. PICK line \in Line : line = lines[k + 1]
        BY <4>1, LenProperties DEF Chunk
      <4>3. PICK z \in Nat, w \in Nat : z = Size(c) /\ w = Len(line)
        BY <1>3, <1>4, <4>2, SizeOfAppend, LenProperties DEF Line
      <4>4. Size(Append(c, line)) = z + w + 1
        BY <1>3, <1>4, <4>3, SizeOfAppend
      <4>5. ~(z + w + 1 <= MaxChunk)
        BY <1>3, <4>2, <4>3 DEF Fits
      <4> QED  BY <4>2, <4>4, <4>5, TextConstants DEF TextConstants
    <3>3. EndOf(last, m) + 1 <= s
      BY <1>2, <1>5
    <3> QED  BY <1>2, <1>3, <1>4, <1>9, <2>1, <3>1, <3>2, <3>3 DEF Placed
  <2>2. CASE i # m + 1
    <3>1. i \in 1..m /\ i - 1 \in 0..m
      BY <1>2, <2>2
    <3> QED  BY <1>2, <1>4, <1>9, <1>10, <3>1
  <2> QED  BY <2>1, <2>2
<1>12. EndOf(l, m + 1) = k
  BY <1>2, <1>9 DEF EndOf
<1>13. PICK next : next = [chunks |-> chunks, current |-> <<>>]
  OBVIOUS
<1>14. next.chunks = chunks /\ next.current = <<>>
  BY <1>13
<1>15. k + 1 \in EndOf(l, m + 1) + 1..k + 1 /\ \A j \in EndOf(l, m + 1) + 1..(k + 1) - 1 : FALSE
  BY <1>12
<1>16. m + 1 \in Nat /\ m + 1 = Len(next.chunks)
  BY <1>2, <1>4, <1>14
<1>17. CutAt(lines, next, k, m + 1, f, l, k + 1)
  BY <1>9, <1>11, <1>14, <1>15, <1>16 DEF CutAt
<1> QED  BY <1>3, <1>13, <1>17 DEF IsCutAt

LEMMA CutFits ==
  ASSUME NEW lines \in Chunk, NEW acc \in Cutting, NEW k \in Nat, k < Len(lines),
         IsCutAt(lines, acc, k), acc.current # <<>>, Fits(acc.current, lines[k + 1])
  PROVE  IsCutAt(lines, [chunks |-> acc.chunks, current |-> Append(acc.current, lines[k + 1])], k + 1)
<1>1. PICK m, first, last, s : CutAt(lines, acc, k, m, first, last, s)
  BY DEF IsCutAt
<1>2. /\ m \in Nat /\ m = Len(acc.chunks) /\ first \in [1..m -> 1..k] /\ last \in [1..m -> 1..k]
      /\ \A i \in 1..m : Placed(lines, acc.chunks[i], EndOf(last, i - 1) + 1, first[i], last[i])
      /\ s \in EndOf(last, m) + 1..k + 1 /\ \A j \in EndOf(last, m) + 1..s - 1 : lines[j] = Blank
      /\ s <= k /\ acc.current = SubSeq(lines, s, k)
  BY <1>1 DEF CutAt
<1>3. EndOf(last, m) \in 0..k
  BY <1>2 DEF EndOf
<1>4. first \in [1..m -> 1..k + 1] /\ last \in [1..m -> 1..k + 1]
  <2>1. \A j \in 1..k : j \in 1..k + 1
    OBVIOUS
  <2> QED  BY <1>2, <2>1
<1>5. k + 1 \in 1..Len(lines)
  BY LenProperties DEF Chunk
<1>6. PICK line \in Line, c \in Chunk : line = lines[k + 1] /\ c = acc.current
  BY <1>5, LenProperties DEF Chunk, Cutting
<1>7. PICK next : next = [chunks |-> acc.chunks, current |-> Append(c, line)]
  OBVIOUS
<1>8. next.chunks = acc.chunks /\ next.current = Append(c, line) /\ next.current # <<>>
  BY <1>7, AppendProperties DEF Chunk
<1>9. Append(c, line) = SubSeq(lines, s, k + 1)
  <2>1. s \in Nat /\ s >= 1
    BY <1>2, <1>3
  <2> QED  BY <1>2, <1>6, <2>1, LineMore
<1>10. Size(Append(c, line)) <= MaxChunk
  BY <1>6, SizeOfAppend DEF Fits
<1>11. s \in EndOf(last, m) + 1..(k + 1) + 1 /\ s <= k + 1
  BY <1>2, <1>3
<1>12. CutAt(lines, next, k + 1, m, first, last, s)
  BY <1>2, <1>4, <1>8, <1>9, <1>10, <1>11 DEF CutAt
<1> QED  BY <1>6, <1>7, <1>12 DEF IsCutAt

LEMMA CutLine ==
  ASSUME NEW lines \in Chunk, NEW acc \in Cutting, NEW k \in Nat, k < Len(lines),
         IsCutAt(lines, acc, k)
  PROVE  IsCutAt(lines, AddLine(acc, lines[k + 1]), k + 1)
<1>0. /\ acc = [chunks |-> acc.chunks, current |-> acc.current]
      /\ acc.chunks \in Seq(Chunk) /\ acc.current \in Chunk
  BY DEF Cutting
<1>1. CASE acc.current = <<>>
  <2>1. AddLine(acc, lines[k + 1]) = [chunks |-> acc.chunks, current |-> Begin(lines[k + 1])]
    BY <1>0, <1>1 DEF AddLine
  <2> QED  BY <1>1, <2>1, CutBegins
<1>2. CASE acc.current # <<>> /\ Fits(acc.current, lines[k + 1])
  <2>1. AddLine(acc, lines[k + 1])
          = [chunks |-> acc.chunks, current |-> Append(acc.current, lines[k + 1])]
    BY <1>0, <1>2 DEF AddLine
  <2> QED  BY <1>2, <2>1, CutFits
<1>3. CASE acc.current # <<>> /\ ~Fits(acc.current, lines[k + 1])
  <2>1. PICK closed : closed = [chunks |-> Append(acc.chunks, acc.current), current |-> <<>>]
    OBVIOUS
  <2>2. /\ closed \in Cutting /\ closed.current = <<>>
        /\ closed.chunks = Append(acc.chunks, acc.current)
    BY <1>0, <2>1, AppendProperties DEF Cutting, Chunk
  <2>3. k <= Len(lines)
    BY LenProperties DEF Chunk
  <2>4. IsCutAt(lines, closed, k)
    BY <1>3, <2>1, <2>3, CutCloses
  <2>5. AddLine(acc, lines[k + 1]) = [chunks |-> closed.chunks, current |-> Begin(lines[k + 1])]
    BY <1>3, <2>2 DEF AddLine
  <2> QED  BY <2>2, <2>4, <2>5, CutBegins
<1> QED  BY <1>1, <1>2, <1>3

LEMMA CutEnds ==
  ASSUME NEW lines \in Chunk, NEW n \in Nat, n = Len(lines)
  PROVE  IsCutAt(lines, [chunks |-> Closed(Cut(lines)), current |-> <<>>], n)
<1>1. PICK h : CutSteps(h, n, lines) /\ h[n] = Cut(lines)
  BY CuttingSteps
<1>2. /\ h \in [0..n -> Cutting] /\ h[0] = Uncut
      /\ \A k \in 1..n : h[k] = AddLine(h[k - 1], lines[k])
  BY <1>1 DEF CutSteps
<1> DEFINE S == {k \in 0..n : IsCutAt(lines, h[k], k)}
<1>3. 0 \in S
  <2>1. PICK f : f = [i \in 1..0 |-> 0]
    OBVIOUS
  <2>2. f \in [1..0 -> 1..0]
    BY <2>1
  <2>3. Uncut.chunks = <<>> /\ Uncut.current = <<>> /\ Len(Uncut.chunks) = 0
    BY DEF Uncut
  <2>4. EndOf(f, 0) = 0
    BY DEF EndOf
  <2>5. 0 + 1 \in EndOf(f, 0) + 1..0 + 1 /\ \A j \in EndOf(f, 0) + 1..(0 + 1) - 1 : FALSE
    BY <2>4
  <2>6. CutAt(lines, Uncut, 0, 0, f, f, 0 + 1)
    BY <2>2, <2>3, <2>5 DEF CutAt
  <2>7. IsCutAt(lines, h[0], 0)
    BY <1>2, <2>6 DEF IsCutAt
  <2>8. 0 \in 0..n
    OBVIOUS
  <2> QED  BY <2>7, <2>8
<1>4. ASSUME NEW k \in 0..n, k < n, k \in S PROVE k + 1 \in S
  <2>1. k \in Nat /\ k + 1 \in 1..n /\ (k + 1) - 1 = k /\ k + 1 \in 0..n /\ IsCutAt(lines, h[k], k)
    BY <1>4
  <2>2. h[k] \in Cutting /\ h[k + 1] = AddLine(h[k], lines[k + 1]) /\ k < Len(lines)
    BY <1>2, <1>4, <2>1
  <2>3. IsCutAt(lines, h[k + 1], k + 1)
    BY <2>1, <2>2, CutLine
  <2> QED  BY <2>1, <2>3
<1>5. IsCutAt(lines, Cut(lines), n) /\ Cut(lines) \in Cutting
  <2>1. n \in 0..n
    OBVIOUS
  <2>2. n \in S
    <3> HIDE DEF S
    <3> QED  BY <1>3, <1>4, <2>1, UpTo
  <2> QED  BY <1>1, <1>2, <2>1, <2>2
<1>6. PICK acc \in Cutting : acc = Cut(lines)
  BY <1>5
<1>7. CASE acc.current = <<>>
  <2>1. acc = [chunks |-> Closed(acc), current |-> <<>>]
    BY <1>7 DEF Closed, Cutting
  <2> QED  BY <1>5, <1>6, <2>1
<1>8. CASE acc.current # <<>>
  <2>1. Closed(acc) = Append(acc.chunks, acc.current)
    BY <1>8 DEF Closed
  <2>2. IsCutAt(lines, [chunks |-> Append(acc.chunks, acc.current), current |-> <<>>], n)
    BY <1>5, <1>6, <1>8, CutCloses
  <2> QED  BY <1>6, <2>1, <2>2
<1> QED  BY <1>7, <1>8

LEMMA SplittingIs ==
  ASSUME NEW lines \in Chunk
  PROVE  IsSplitting(lines, SplitIntoChunks(lines))
<1>1. PICK n \in Nat : n = Len(lines) /\ DOMAIN lines = 1..n
  BY LenProperties DEF Chunk
<1>2. PICK closed \in Seq(Chunk) : closed = Closed(Cut(lines))
  <2>1. PICK h : CutSteps(h, n, lines) /\ h[n] = Cut(lines)
    BY <1>1, CuttingSteps
  <2>2. n \in 0..n
    OBVIOUS
  <2>3. Cut(lines) \in Cutting
    BY <2>1, <2>2 DEF CutSteps
  <2> QED  BY <2>3, AppendProperties DEF Closed, Cutting
<1>3. PICK acc : acc = [chunks |-> closed, current |-> <<>>]
  OBVIOUS
<1>4. acc.chunks = closed /\ acc.current = <<>>
  BY <1>3
<1>5. PICK m, first, last, s : CutAt(lines, acc, n, m, first, last, s)
  <2>1. IsCutAt(lines, acc, n)
    BY <1>1, <1>2, <1>3, CutEnds
  <2> QED  BY <2>1 DEF IsCutAt
<1>6. /\ m \in Nat /\ m = Len(closed) /\ first \in [1..m -> 1..n] /\ last \in [1..m -> 1..n]
      /\ \A i \in 1..m : Placed(lines, closed[i], EndOf(last, i - 1) + 1, first[i], last[i])
      /\ \A j \in EndOf(last, m) + 1..n : lines[j] = Blank
  <2>1. /\ m \in Nat /\ m = Len(closed) /\ first \in [1..m -> 1..n] /\ last \in [1..m -> 1..n]
        /\ \A i \in 1..m : Placed(lines, closed[i], EndOf(last, i - 1) + 1, first[i], last[i])
        /\ s = n + 1 /\ \A j \in EndOf(last, m) + 1..s - 1 : lines[j] = Blank
    BY <1>4, <1>5 DEF CutAt
  <2>2. (n + 1) - 1 = n
    OBVIOUS
  <2> QED  BY <2>1, <2>2
<1>7. CASE ~(closed = <<>> /\ lines # <<>>)
  <2>1. SplitIntoChunks(lines) = closed
    BY <1>2, <1>7, SplitIs
  <2>2. DOMAIN closed = 1..m
    BY <1>6, LenProperties
  <2>3. first \in [DOMAIN closed -> DOMAIN lines] /\ last \in [DOMAIN closed -> DOMAIN lines]
    BY <1>1, <1>6, <2>2
  <2>4. ASSUME NEW i \in 1..m
        PROVE  EndOf(last, i - 1) + 1 = IF i = 1 THEN 1 ELSE last[i - 1] + 1
    BY DEF EndOf
  <2>5. ASSUME NEW i \in DOMAIN closed
        PROVE  LET from(k) == IF k = 1 THEN 1 ELSE last[k - 1] + 1
               IN  /\ from(i) <= first[i] /\ first[i] <= last[i]
                   /\ closed[i] = SubSeq(lines, first[i], last[i])
                   /\ \A k \in from(i)..first[i] - 1 : lines[k] = Blank
                   /\ \/ Size(closed[i]) <= MaxChunk \/ first[i] = last[i]
                      \/ \A k \in DOMAIN lines : lines[k] = Blank
                   /\ last[i] < Len(lines) => Size(Append(closed[i], lines[last[i] + 1])) > MaxChunk
    <3>1. PICK f : f = EndOf(last, i - 1) + 1 /\ f = IF i = 1 THEN 1 ELSE last[i - 1] + 1
      BY <2>2, <2>4
    <3>2. Placed(lines, closed[i], f, first[i], last[i])
      BY <1>6, <2>2, <3>1
    <3> QED  BY <3>1, <3>2 DEF Placed
  <2>6. closed # <<>> => \A k \in last[Len(closed)] + 1..Len(lines) : lines[k] = Blank
    <3>1. closed # <<>> => m # 0
      BY <1>6
    <3> QED  BY <1>1, <1>6, <3>1 DEF EndOf
  <2>7. IsSplitting(lines, closed)
    BY <1>7, <2>3, <2>5, <2>6 DEF IsSplitting
  <2> QED  BY <2>1, <2>7
<1>8. CASE closed = <<>> /\ lines # <<>>
  <2>1. SplitIntoChunks(lines) = << lines >>
    BY <1>2, <1>8, SplitIs
  <2>2. m = 0 /\ n >= 1
    BY <1>1, <1>6, <1>8, EmptySeq DEF Chunk
  <2>3. \A k \in DOMAIN lines : lines[k] = Blank
    BY <1>1, <1>6, <2>2 DEF EndOf
  <2>0. PICK chunks : chunks = << lines >>
    OBVIOUS
  <2>4. DOMAIN chunks = {1} /\ Len(chunks) = 1 /\ chunks[1] = lines
    BY <2>0
  <2>5. PICK f, l : f = [i \in {1} |-> 1] /\ l = [i \in {1} |-> n]
    OBVIOUS
  <2>6. /\ f \in [DOMAIN chunks -> DOMAIN lines] /\ l \in [DOMAIN chunks -> DOMAIN lines]
        /\ f[1] = 1 /\ l[1] = n
    BY <1>1, <2>2, <2>4, <2>5
  <2>7. lines = SubSeq(lines, 1, n)
    BY <1>1, SubSeqFull DEF Chunk
  <2>8. ASSUME NEW i \in DOMAIN chunks
        PROVE  LET from(k) == IF k = 1 THEN 1 ELSE l[k - 1] + 1
               IN  /\ from(i) <= f[i] /\ f[i] <= l[i]
                   /\ chunks[i] = SubSeq(lines, f[i], l[i])
                   /\ \A k \in from(i)..f[i] - 1 : lines[k] = Blank
                   /\ \/ Size(chunks[i]) <= MaxChunk \/ f[i] = l[i]
                      \/ \A k \in DOMAIN lines : lines[k] = Blank
                   /\ l[i] < Len(lines) => Size(Append(chunks[i], lines[l[i] + 1])) > MaxChunk
    <3>1. i = 1 /\ f[i] = 1 /\ l[i] = n
      BY <2>4, <2>6
    <3>2. ~(n < Len(lines)) /\ \A k \in 1..1 - 1 : FALSE
      BY <1>1
    <3> QED  BY <2>2, <2>3, <2>4, <2>7, <3>1, <3>2
  <2>9. /\ chunks # <<>>
        /\ \A k \in l[Len(chunks)] + 1..Len(lines) : lines[k] = Blank
    <3>1. \A k \in n + 1..n : FALSE
      OBVIOUS
    <3>2. l[Len(chunks)] = n /\ Len(lines) = n
      BY <1>1, <2>4, <2>6
    <3>3. chunks # <<>>
      BY <2>0
    <3> QED  BY <3>1, <3>2, <3>3
  <2>10. IsSplitting(lines, chunks)
    BY <2>6, <2>8, <2>9 DEF IsSplitting
  <2> QED  BY <2>0, <2>1, <2>10
<1> QED  BY <1>7, <1>8

-----------------------------------------------------------------------------
(* The network: a weight for each pair of a unit and one of the next layer.*)
Weight == [born : Nat \X Nat \X Nat, seen : Nat]

NetOK(n) ==
  /\ n = [in |-> n.in, out |-> n.out, w1 |-> n.w1, b1 |-> n.b1, w2 |-> n.w2, b2 |-> n.b2]
  /\ n.in \in Nat /\ n.in >= 1 /\ n.out \in Nat /\ n.out >= 1
  /\ n.w1 \in [1..n.in * Hidden -> Weight] /\ n.b1 \in [1..Hidden -> Nat]
  /\ n.w2 \in [1..Hidden * n.out -> Weight] /\ n.b2 \in [1..n.out -> Nat]

LEMMA HiddenIs == Hidden \in Nat /\ Hidden >= 1 /\ NumThreads \in Nat /\ NumThreads >= 1
BY NetworkConstants DEF NetworkConstants

(* Entry p of an a by b array.                                             *)
LEMMA RowAndColumn ==
  ASSUME NEW a \in Nat, NEW b \in Nat, b >= 1, NEW p \in 1..a * b
  PROVE  /\ (p - 1) \div b \in Nat /\ (p - 1) \div b < a
         /\ (p - 1) % b \in Nat /\ (p - 1) % b < b
         /\ ((p - 1) \div b) * b + ((p - 1) % b) = p - 1
<1>1. PICK c \in Nat : c = a * b
  OBVIOUS
<1>2. PICK n \in Nat : n = p - 1 /\ n < c
  BY <1>1
<1>3. n < a * b
  BY <1>1, <1>2
<1> QED  BY <1>2, <1>3, EntryAt

LEMMA InArray ==
  ASSUME NEW a \in Nat, NEW b \in Nat, b >= 1, NEW i \in Nat, i < a, NEW j \in Nat, j < b
  PROVE  i * b + j + 1 \in 1..a * b
<1>1. i * b + j \in Nat /\ i * b + j < a * b
  BY PlaceOf
<1>2. PICK m, n \in Nat : m = i * b + j /\ n = a * b /\ m < n
  BY <1>1
<1> QED  BY <1>2

LEMMA FreshIsWeight ==
  ASSUME NEW i \in Nat, NEW j \in Nat
  PROVE  Fresh(1, i, j) \in Weight /\ Fresh(2, i, j) \in Weight
BY DEF Fresh, Weight

LEMMA NewNetOK ==
  ASSUME NEW in \in Nat, in >= 1, NEW out \in Nat, out >= 1
  PROVE  NetOK(NewNet(in, out)) /\ NewNet(in, out).in = in /\ NewNet(in, out).out = out
<1>1. ASSUME NEW p \in 1..in * Hidden
      PROVE  Fresh(1, (p - 1) \div Hidden, (p - 1) % Hidden) \in Weight
  BY HiddenIs, RowAndColumn, FreshIsWeight
<1>2. ASSUME NEW p \in 1..Hidden * out
      PROVE  Fresh(2, (p - 1) \div out, (p - 1) % out) \in Weight
  BY HiddenIs, RowAndColumn, FreshIsWeight
<1> DEFINE w1 == [p \in 1..in * Hidden |-> Fresh(1, (p - 1) \div Hidden, (p - 1) % Hidden)]
           w2 == [p \in 1..Hidden * out |-> Fresh(2, (p - 1) \div out, (p - 1) % out)]
           b1 == [j \in 1..Hidden |-> 0]
           b2 == [k \in 1..out |-> 0]
<1>3. w1 \in [1..in * Hidden -> Weight] /\ w2 \in [1..Hidden * out -> Weight]
      /\ b1 \in [1..Hidden -> Nat] /\ b2 \in [1..out -> Nat]
  BY <1>1, <1>2
<1>4. NewNet(in, out) = [in |-> in, out |-> out, w1 |-> w1, b1 |-> b1, w2 |-> w2, b2 |-> b2]
  BY DEF NewNet
<1> HIDE DEF w1, w2, b1, b2
<1> QED  BY <1>3, <1>4 DEF NetOK

(* Growing moves nobody's weight, whatever place it gets in the array.     *)
LEMMA InputsExpand ==
  ASSUME NEW n, NetOK(n), NEW size \in Nat
  PROVE  LET m == ExpandInputs(n, size)
         IN  /\ NetOK(m) /\ m.out = n.out /\ m.w2 = n.w2 /\ m.b1 = n.b1 /\ m.b2 = n.b2
             /\ m.in = Larger(n.in, size)
             /\ \A i \in 0..m.in - 1, j \in 0..Hidden - 1 :
                  At(m.w1, i * Hidden + j) = IF i < n.in THEN At(n.w1, i * Hidden + j)
                                                         ELSE Fresh(1, i, j)
<1>1. CASE size <= n.in
  BY <1>1 DEF ExpandInputs, NetOK, Larger
<1>2. CASE ~(size <= n.in)
  <2> DEFINE W(p) == IF (p - 1) \div Hidden < n.in
                     THEN At(n.w1, ((p - 1) \div Hidden) * Hidden + ((p - 1) % Hidden))
                     ELSE Fresh(1, (p - 1) \div Hidden, (p - 1) % Hidden)
             w1 == [p \in 1..size * Hidden |-> W(p)]
             m  == [n EXCEPT !.in = size, !.w1 = w1]
  <2>1. ExpandInputs(n, size) = m
    BY <1>2 DEF ExpandInputs
  <2>2. ASSUME NEW p \in 1..size * Hidden PROVE W(p) \in Weight
    <3>1. PICK i \in Nat, j \in Nat : /\ i = (p - 1) \div Hidden /\ j = (p - 1) % Hidden
                                      /\ i < size /\ j < Hidden
      BY HiddenIs, RowAndColumn
    <3>2. CASE i < n.in
      <4>1. i * Hidden + j + 1 \in 1..n.in * Hidden
        BY <3>1, <3>2, HiddenIs, InArray DEF NetOK
      <4>2. At(n.w1, i * Hidden + j) \in Weight
        BY <4>1 DEF NetOK, At
      <4> QED  BY <3>1, <3>2, <4>2
    <3>3. CASE ~(i < n.in)
      BY <3>1, <3>3, FreshIsWeight
    <3> QED  BY <3>2, <3>3
  <2>3. ASSUME NEW i \in 0..size - 1, NEW j \in 0..Hidden - 1
        PROVE  At(w1, i * Hidden + j) = IF i < n.in THEN At(n.w1, i * Hidden + j) ELSE Fresh(1, i, j)
    <3>1. i \in Nat /\ i < size /\ j \in Nat /\ j < Hidden
      BY HiddenIs
    <3>2. PICK p : p = i * Hidden + j + 1 /\ p \in 1..size * Hidden
      BY <3>1, HiddenIs, InArray
    <3>3. (p - 1) \div Hidden = i /\ (p - 1) % Hidden = j
      <4>1. (i * Hidden + j) \div Hidden = i /\ (i * Hidden + j) % Hidden = j /\ i * Hidden + j \in Nat
        BY <3>1, HiddenIs, PlaceOf
      <4>2. PICK k \in Nat : k = i * Hidden + j
        BY <4>1
      <4>3. p - 1 = k
        BY <3>2, <4>2
      <4> QED  BY <4>1, <4>2, <4>3
    <3>4. At(w1, i * Hidden + j) = W(p)
      BY <3>2 DEF At
    <3> QED  BY <3>3, <3>4
  <2>4. w1 \in [1..size * Hidden -> Weight]
    BY <2>2
  <2> HIDE DEF w1, W
  <2>5. m = [in |-> size, out |-> n.out, w1 |-> w1, b1 |-> n.b1, w2 |-> n.w2, b2 |-> n.b2]
    <3>1. n = [in |-> n.in, out |-> n.out, w1 |-> n.w1, b1 |-> n.b1, w2 |-> n.w2, b2 |-> n.b2]
      BY DEF NetOK
    <3>2. PICK v, x : v = w1 /\ x = [n EXCEPT !.in = size, !.w1 = v]
      OBVIOUS
    <3>3. /\ x = [in |-> x.in, out |-> x.out, w1 |-> x.w1, b1 |-> x.b1, w2 |-> x.w2, b2 |-> x.b2]
          /\ x.in = size /\ x.out = n.out /\ x.w1 = v /\ x.b1 = n.b1 /\ x.w2 = n.w2 /\ x.b2 = n.b2
      BY ONLY <3>1, <3>2
    <3> QED  BY <3>2, <3>3
  <2>6. size >= 1 /\ Larger(n.in, size) = size
    BY <1>2 DEF NetOK, Larger
  <2> HIDE DEF m
  <2>7. NetOK(m) /\ m.out = n.out /\ m.w2 = n.w2 /\ m.b1 = n.b1 /\ m.b2 = n.b2 /\ m.in = size
        /\ m.w1 = w1
    BY <2>4, <2>5, <2>6 DEF NetOK
  <2> QED  BY <2>1, <2>3, <2>6, <2>7
<1> QED  BY <1>1, <1>2

LEMMA OutputsExpand ==
  ASSUME NEW n, NetOK(n), NEW size \in Nat
  PROVE  LET m == ExpandOutputs(n, size)
         IN  /\ NetOK(m) /\ m.in = n.in /\ m.w1 = n.w1 /\ m.b1 = n.b1
             /\ m.out = Larger(n.out, size)
             /\ \A k \in 1..m.out : m.b2[k] = IF k <= n.out THEN n.b2[k] ELSE 0
             /\ \A j \in 0..Hidden - 1, k \in 0..m.out - 1 :
                  At(m.w2, j * m.out + k) = IF k < n.out THEN At(n.w2, j * n.out + k)
                                                         ELSE Fresh(2, j, k)
<1>1. CASE size <= n.out
  BY <1>1 DEF ExpandOutputs, NetOK, Larger
<1>2. CASE ~(size <= n.out)
  <2>0. size >= 1 /\ Larger(n.out, size) = size /\ n.out \in Nat /\ n.out >= 1
    BY <1>2 DEF NetOK, Larger
  <2> DEFINE W(p) == IF (p - 1) % size < n.out
                     THEN At(n.w2, ((p - 1) \div size) * n.out + ((p - 1) % size))
                     ELSE Fresh(2, (p - 1) \div size, (p - 1) % size)
             w2 == [p \in 1..Hidden * size |-> W(p)]
             b2 == [k \in 1..size |-> IF k <= n.out THEN n.b2[k] ELSE 0]
             m  == [n EXCEPT !.out = size, !.w2 = w2, !.b2 = b2]
  <2>1. ExpandOutputs(n, size) = m
    BY <1>2 DEF ExpandOutputs
  <2>2. ASSUME NEW p \in 1..Hidden * size PROVE W(p) \in Weight
    <3>1. PICK j \in Nat, k \in Nat : /\ j = (p - 1) \div size /\ k = (p - 1) % size
                                      /\ j < Hidden /\ k < size
      BY <2>0, HiddenIs, RowAndColumn
    <3>2. CASE k < n.out
      <4>1. j * n.out + k + 1 \in 1..Hidden * n.out
        BY <2>0, <3>1, <3>2, HiddenIs, InArray
      <4>2. At(n.w2, j * n.out + k) \in Weight
        BY <4>1 DEF NetOK, At
      <4> QED  BY <3>1, <3>2, <4>2
    <3>3. CASE ~(k < n.out)
      BY <3>1, <3>3, FreshIsWeight
    <3> QED  BY <3>2, <3>3
  <2>3. ASSUME NEW j \in 0..Hidden - 1, NEW k \in 0..size - 1
        PROVE  At(w2, j * size + k) = IF k < n.out THEN At(n.w2, j * n.out + k) ELSE Fresh(2, j, k)
    <3>1. j \in Nat /\ j < Hidden /\ k \in Nat /\ k < size
      BY HiddenIs
    <3>2. PICK p : p = j * size + k + 1 /\ p \in 1..Hidden * size
      BY <2>0, <3>1, HiddenIs, InArray
    <3>3. (p - 1) \div size = j /\ (p - 1) % size = k
      <4>1. (j * size + k) \div size = j /\ (j * size + k) % size = k /\ j * size + k \in Nat
        BY <2>0, <3>1, HiddenIs, PlaceOf
      <4>2. PICK i \in Nat : i = j * size + k
        BY <4>1
      <4>3. p - 1 = i
        BY <3>2, <4>2
      <4> QED  BY <4>1, <4>2, <4>3
    <3>4. At(w2, j * size + k) = W(p)
      BY <3>2 DEF At
    <3> QED  BY <3>3, <3>4
  <2>4. w2 \in [1..Hidden * size -> Weight] /\ b2 \in [1..size -> Nat]
    <3>1. \A k \in 1..size : k <= n.out => n.b2[k] \in Nat
      BY DEF NetOK
    <3> QED  BY <2>2, <3>1
  <2>5. \A k \in 1..size : b2[k] = IF k <= n.out THEN n.b2[k] ELSE 0
    OBVIOUS
  <2> HIDE DEF w2, W, b2
  <2>6. m = [in |-> n.in, out |-> size, w1 |-> n.w1, b1 |-> n.b1, w2 |-> w2, b2 |-> b2]
    <3>1. n = [in |-> n.in, out |-> n.out, w1 |-> n.w1, b1 |-> n.b1, w2 |-> n.w2, b2 |-> n.b2]
      BY DEF NetOK
    <3>2. PICK u, v, x : u = b2 /\ v = w2 /\ x = [n EXCEPT !.out = size, !.w2 = v, !.b2 = u]
      OBVIOUS
    <3>3. /\ x = [in |-> x.in, out |-> x.out, w1 |-> x.w1, b1 |-> x.b1, w2 |-> x.w2, b2 |-> x.b2]
          /\ x.in = n.in /\ x.out = size /\ x.w1 = n.w1 /\ x.b1 = n.b1 /\ x.w2 = v /\ x.b2 = u
      BY ONLY <3>1, <3>2
    <3> QED  BY <3>2, <3>3
  <2> HIDE DEF m
  <2>7. NetOK(m) /\ m.in = n.in /\ m.w1 = n.w1 /\ m.b1 = n.b1 /\ m.out = size
        /\ m.w2 = w2 /\ m.b2 = b2
    BY <2>0, <2>4, <2>6 DEF NetOK
  <2> QED  BY <2>0, <2>1, <2>3, <2>5, <2>7
<1> QED  BY <1>1, <1>2

(* Gradients have the shape of the network they are for.                   *)
Nets(a, b) ==
  [in : {a}, out : {b}, w1 : [1..a * Hidden -> Weight], b1 : [1..Hidden -> Nat],
   w2 : [1..Hidden * b -> Weight], b2 : [1..b -> Nat]]

Gradients(a, b) ==
  [w1 : [1..a * Hidden -> Nat], b1 : [1..Hidden -> Nat],
   w2 : [1..Hidden * b -> Nat], b2 : [1..b -> Nat]]

LEMMA NetsOK ==
  ASSUME NEW a \in Nat, a >= 1, NEW b \in Nat, b >= 1, NEW n
  PROVE  n \in Nets(a, b) <=> NetOK(n) /\ n.in = a /\ n.out = b
BY DEF Nets, NetOK

LEMMA NoGradientIs ==
  ASSUME NEW n, NetOK(n)
  PROVE  NoGradient(n) \in Gradients(n.in, n.out)
BY DEF NoGradient, Gradients

LEMMA AccumulatedIs ==
  ASSUME NEW n, NetOK(n), NEW g \in Gradients(n.in, n.out),
         NEW x \in [1..n.in -> {0, 1}], NEW y
  PROVE  Accumulated(g, n, x, y) \in Gradients(n.in, n.out)
<1>1. PICK a \in Nat, b \in Nat : a = n.in /\ b = n.out /\ a >= 1 /\ b >= 1
  BY DEF NetOK
<1>2. /\ g.w1 \in [1..a * Hidden -> Nat] /\ g.b1 \in [1..Hidden -> Nat]
      /\ g.w2 \in [1..Hidden * b -> Nat] /\ g.b2 \in [1..b -> Nat]
  BY <1>1 DEF Gradients
<1> DEFINE w1 == [p \in 1..a * Hidden |-> g.w1[p] + At(x, (p - 1) \div Hidden)]
           b1 == [j \in 1..Hidden |-> g.b1[j] + 1]
           w2 == [p \in 1..Hidden * b |-> g.w2[p] + (IF (p - 1) % b = y THEN 1 ELSE 0)]
           b2 == [k \in 1..b |-> g.b2[k] + (IF k - 1 = y THEN 1 ELSE 0)]
<1>3. ASSUME NEW p \in 1..a * Hidden PROVE g.w1[p] + At(x, (p - 1) \div Hidden) \in Nat
  <2>1. (p - 1) \div Hidden \in Nat /\ (p - 1) \div Hidden < a
    BY HiddenIs, RowAndColumn
  <2>2. At(x, (p - 1) \div Hidden) \in {0, 1}
    BY <1>1, <2>1 DEF At
  <2>3. g.w1[p] \in Nat
    BY <1>2
  <2> QED  BY <2>2, <2>3
<1>4. w1 \in [1..a * Hidden -> Nat]
  BY <1>3
<1>5. b1 \in [1..Hidden -> Nat] /\ b2 \in [1..b -> Nat]
  <2>1. ASSUME NEW j \in 1..Hidden PROVE g.b1[j] + 1 \in Nat
    <3>1. g.b1[j] \in Nat
      BY <1>2
    <3> QED  BY <3>1
  <2>2. ASSUME NEW k \in 1..b PROVE g.b2[k] + (IF k - 1 = y THEN 1 ELSE 0) \in Nat
    <3>1. g.b2[k] \in Nat
      BY <1>2
    <3> QED  BY <3>1
  <2> QED  BY <2>1, <2>2
<1>6. w2 \in [1..Hidden * b -> Nat]
  <2>1. ASSUME NEW p \in 1..Hidden * b PROVE g.w2[p] + (IF (p - 1) % b = y THEN 1 ELSE 0) \in Nat
    <3>1. g.w2[p] \in Nat
      BY <1>2
    <3> QED  BY <3>1
  <2> QED  BY <2>1
<1>7. Accumulated(g, n, x, y) = [w1 |-> w1, b1 |-> b1, w2 |-> w2, b2 |-> b2]
  BY <1>1, <1>2 DEF Accumulated
<1> HIDE DEF w1, b1, w2, b2
<1> QED  BY <1>1, <1>4, <1>5, <1>6, <1>7 DEF Gradients

LEMMA UpdatedIs ==
  ASSUME NEW a \in Nat, NEW b \in Nat, NEW n \in Nets(a, b), NEW g \in Gradients(a, b)
  PROVE  Updated(n, g) \in Nets(a, b)
<1>1. /\ n = [in |-> n.in, out |-> n.out, w1 |-> n.w1, b1 |-> n.b1, w2 |-> n.w2, b2 |-> n.b2]
      /\ n.in = a /\ n.out = b
      /\ n.w1 \in [1..a * Hidden -> Weight] /\ n.b1 \in [1..Hidden -> Nat]
      /\ n.w2 \in [1..Hidden * b -> Weight] /\ n.b2 \in [1..b -> Nat]
  BY DEF Nets
<1>2. /\ g.w1 \in [1..a * Hidden -> Nat] /\ g.b1 \in [1..Hidden -> Nat]
      /\ g.w2 \in [1..Hidden * b -> Nat] /\ g.b2 \in [1..b -> Nat]
  BY DEF Gradients
<1>3. \A w \in Weight, k \in Nat : [w EXCEPT !.seen = @ + k] \in Weight
  BY DEF Weight
<1> DEFINE w1 == [p \in 1..a * Hidden |-> [n.w1[p] EXCEPT !.seen = @ + g.w1[p]]]
           b1 == [j \in 1..Hidden |-> n.b1[j] + g.b1[j]]
           w2 == [p \in 1..Hidden * b |-> [n.w2[p] EXCEPT !.seen = @ + g.w2[p]]]
           b2 == [k \in 1..b |-> n.b2[k] + g.b2[k]]
<1>4. w1 \in [1..a * Hidden -> Weight]
  <2>1. \A p \in 1..a * Hidden : n.w1[p] \in Weight /\ g.w1[p] \in Nat
    BY <1>1, <1>2
  <2>2. \A p \in 1..a * Hidden : [n.w1[p] EXCEPT !.seen = @ + g.w1[p]] \in Weight
    BY <1>3, <2>1
  <2> QED  BY <2>2
<1>5. w2 \in [1..Hidden * b -> Weight]
  <2>1. \A p \in 1..Hidden * b : n.w2[p] \in Weight /\ g.w2[p] \in Nat
    BY <1>1, <1>2
  <2>2. \A p \in 1..Hidden * b : [n.w2[p] EXCEPT !.seen = @ + g.w2[p]] \in Weight
    BY <1>3, <2>1
  <2> QED  BY <2>2
<1>6. b1 \in [1..Hidden -> Nat] /\ b2 \in [1..b -> Nat]
  <2>1. \A j \in 1..Hidden : n.b1[j] \in Nat /\ g.b1[j] \in Nat
    BY <1>1, <1>2
  <2>2. \A k \in 1..b : n.b2[k] \in Nat /\ g.b2[k] \in Nat
    BY <1>1, <1>2
  <2> QED  BY <2>1, <2>2
<1>7. Updated(n, g) = [n EXCEPT !.w1 = w1, !.b1 = b1, !.w2 = w2, !.b2 = b2]
  BY <1>1 DEF Updated
<1> HIDE DEF w1, w2, b1, b2
<1>8. PICK p, q, r, s : p = w1 /\ q = b1 /\ r = w2 /\ s = b2
  OBVIOUS
<1>9. PICK x : x = [n EXCEPT !.w1 = p, !.b1 = q, !.w2 = r, !.b2 = s]
  OBVIOUS
<1>10. /\ x = [in |-> x.in, out |-> x.out, w1 |-> x.w1, b1 |-> x.b1, w2 |-> x.w2, b2 |-> x.b2]
       /\ x.in = n.in /\ x.out = n.out /\ x.w1 = p /\ x.b1 = q /\ x.w2 = r /\ x.b2 = s
  <2>1. n = [in |-> n.in, out |-> n.out, w1 |-> n.w1, b1 |-> n.b1, w2 |-> n.w2, b2 |-> n.b2]
    BY <1>1
  <2> QED  BY ONLY <1>9, <2>1
<1>11. x \in Nets(a, b)
  BY <1>1, <1>4, <1>5, <1>6, <1>8, <1>10 DEF Nets
<1> QED  BY <1>7, <1>8, <1>9, <1>11

(* What the joined threads hand over leaves a network of the same sizes.   *)
LEMMA AllUpdated ==
  ASSUME NEW a \in Nat, NEW b \in Nat, NEW n \in Nets(a, b),
         NEW k \in Nat, NEW sums \in [1..k -> Gradients(a, b)]
  PROVE  FoldLeft(Updated, n, sums) \in Nets(a, b)
<1>1. PICK V : V = Nets(a, b)
  OBVIOUS
<1>2. DOMAIN sums = 1..k /\ \A i \in 1..k : sums[i] \in Gradients(a, b)
  OBVIOUS
<1>3. n \in V /\ \A m \in V, i \in 1..k : Updated(m, sums[i]) \in V
  BY <1>1, <1>2, UpdatedIs
<1>4. PICK h : EachThread!Steps(h, V, n, k, sums) /\ h[k] = EachThread!Fold(n, sums)
  BY <1>2, <1>3, EachThread!FoldSteps
<1>5. EachThread!Fold(n, sums) = FoldLeft(Updated, n, sums)
  BY DEF EachThread!Fold, EachThread!FoldLeft, EachThread!MapThenFoldSet, EachThread!Max,
         FoldLeft, MapThenFoldSet, Max
<1>6. h[k] \in V
  <2>1. k \in 0..k
    OBVIOUS
  <2> QED  BY <1>4, <2>1 DEF EachThread!Steps
<1> QED  BY <1>1, <1>4, <1>5, <1>6

-----------------------------------------------------------------------------
(* What is saved is what is loaded.                                        *)
ModelOf(n) == [w1 |-> n.w1, b1 |-> n.b1, w2 |-> n.w2, b2 |-> n.b2]

ModelOK(model) == model = NoModel \/ \E n : NetOK(n) /\ model = ModelOf(n)

(* The number of inputs is not saved: it comes out of the lengths.         *)
LEMMA SizedIs ==
  ASSUME NEW n, NetOK(n)
  PROVE  Sized(ModelOf(n)) = n /\ IsModel(n)
<1>1. PICK a \in Nat, b \in Nat, H \in Nat :
        a = n.in /\ b = n.out /\ H = Hidden /\ a >= 1 /\ b >= 1 /\ H >= 1
  BY HiddenIs DEF NetOK
<1>2. PICK p \in Nat, q \in Nat : p = a * H /\ q = H * b /\ p >= 1 /\ q >= 1
  <2>1. a * H \in Nat /\ H * b \in Nat
    OBVIOUS
  <2>2. a * H >= 1
    <3>1. (a - 1) * H >= 0 /\ a * H = (a - 1) * H + H
      BY <1>1
    <3> QED  BY <1>1, <3>1
  <2>3. H * b >= 1
    <3>1. (b - 1) * H >= 0 /\ H * b = (b - 1) * H + H
      BY <1>1
    <3> QED  BY <1>1, <3>1
  <2> QED  BY <2>1, <2>2, <2>3
<1>3. /\ n = [in |-> n.in, out |-> n.out, w1 |-> n.w1, b1 |-> n.b1, w2 |-> n.w2, b2 |-> n.b2]
      /\ n.w1 \in [1..p -> Weight] /\ n.b1 \in [1..H -> Nat]
      /\ n.w2 \in [1..q -> Weight] /\ n.b2 \in [1..b -> Nat]
  BY <1>1, <1>2 DEF NetOK
<1>4. /\ Len(n.w1) = p /\ Len(n.b1) = H /\ Len(n.w2) = q /\ Len(n.b2) = b
  <2>1. ASSUME NEW S, NEW k \in Nat, NEW f \in [1..k -> S] PROVE Len(f) = k
    BY SeqDef, LenProperties
  <2> QED  BY <1>3, <2>1
<1>5. p \div H = a
  <2>1. p = H * a + 0
    BY <1>2
  <2> QED  BY <1>1, <2>1, QuotientIs
<1>6. Sized(ModelOf(n)) = [in |-> a, out |-> b, w1 |-> n.w1, b1 |-> n.b1, w2 |-> n.w2, b2 |-> n.b2]
  <2>0. PICK m : m = ModelOf(n)
    OBVIOUS
  <2>1. m = ModelOf(n) /\ m.w1 = n.w1 /\ m.b1 = n.b1 /\ m.w2 = n.w2 /\ m.b2 = n.b2
    BY <2>0 DEF ModelOf
  <2>2. Len(m.b1) = H /\ H > 0 /\ Len(m.w1) = p /\ Len(m.b2) = b
    BY <1>1, <1>4, <2>1
  <2>3. Sized(m) = [in |-> a, out |-> b, w1 |-> m.w1, b1 |-> m.b1, w2 |-> m.w2, b2 |-> m.b2]
    BY <1>5, <2>2 DEF Sized
  <2> QED  BY <2>1, <2>3
<1>7. n.w1 # <<>> /\ n.w2 # <<>>
  BY <1>2, <1>4
<1> QED  BY <1>1, <1>3, <1>6, <1>7 DEF IsModel

LEMMA SizedNoModel == ~IsModel(Sized(NoModel))
BY DEF Sized, NoModel, IsModel

Rows(v) == [i \in DOMAIN v.words |-> [word |-> v.words[i], df |-> v.df[i]]]

StoredChunk == [text : Chunk, tags : SUBSET Seq(Token)]

TablesOK(d) ==
  /\ d = [chunks |-> d.chunks, rows |-> d.rows, model |-> d.model]
  /\ d.chunks \in Seq(StoredChunk)
  /\ \E v \in Vocabs : d.rows = Rows(v)
  /\ ModelOK(d.model)

LEMMA LoadedVocabIs ==
  ASSUME NEW v \in Vocabs, NEW d, d.rows = Rows(v), Len(d.chunks) \in Nat
  PROVE  /\ LoadedVocab(d) \in Vocabs /\ LoadedVocab(d).words = v.words
         /\ LoadedVocab(d).docs = Len(d.chunks) /\ Rows(LoadedVocab(d)) = Rows(v)
         /\ v.docs = Len(d.chunks) => LoadedVocab(d) = v
<1>1. PICK k \in Nat, docs \in Nat : k = Len(v.words) /\ docs = Len(d.chunks)
  BY VocabParts
<1>2. /\ v = [words |-> v.words, index |-> v.index, df |-> v.df, docs |-> v.docs]
      /\ v.words \in Seq(Token) /\ v.df \in Seq(Nat) /\ Len(v.df) = k
      /\ DOMAIN v.words = 1..k /\ DOMAIN v.df = 1..k
      /\ v.index = [w \in ToSet(v.words) |-> v.index[w]]
      /\ \A i \in 1..k : v.index[v.words[i]] = i - 1
  BY <1>1, VocabParts
<1>3. /\ DOMAIN d.rows = 1..k
      /\ \A i \in 1..k : d.rows[i].word = v.words[i] /\ d.rows[i].df = v.df[i]
  BY <1>2 DEF Rows
<1>4. v.words = [i \in 1..k |-> d.rows[i].word] /\ v.df = [i \in 1..k |-> d.rows[i].df]
  <2>1. v.words = [i \in 1..k |-> v.words[i]] /\ v.df = [i \in 1..k |-> v.df[i]]
    BY <1>1, <1>2, LenProperties
  <2> QED  BY <1>3, <2>1
<1>5. {d.rows[i].word : i \in DOMAIN d.rows} = ToSet(v.words)
  <2>1. \A x : x \in {d.rows[i].word : i \in DOMAIN d.rows} <=> \E i \in 1..k : v.words[i] = x
    BY <1>3
  <2>2. \A x : x \in ToSet(v.words) <=> \E i \in 1..k : v.words[i] = x
    BY <1>2 DEF ToSet
  <2> QED  BY <2>1, <2>2
<1>6. ASSUME NEW w \in ToSet(v.words)
      PROVE  (CHOOSE i \in DOMAIN d.rows : d.rows[i].word = w) - 1 = v.index[w]
  <2>1. PICK i \in 1..k : v.words[i] = w
    BY <1>2 DEF ToSet
  <2>2. PICK j : j = CHOOSE m \in DOMAIN d.rows : d.rows[m].word = w
    OBVIOUS
  <2>3. j \in 1..k /\ v.words[j] = w
    BY <1>3, <2>1, <2>2
  <2> QED  BY <1>2, <2>2, <2>3
<1>7. [w \in ToSet(v.words) |-> (CHOOSE i \in DOMAIN d.rows : d.rows[i].word = w) - 1]
        = [w \in ToSet(v.words) |-> v.index[w]]
  BY <1>6
<1>8. LoadedVocab(d) = [words |-> v.words, index |-> v.index, df |-> v.df, docs |-> docs]
  BY <1>1, <1>2, <1>3, <1>4, <1>5, <1>7 DEF LoadedVocab
<1>9. LoadedVocab(d) \in Vocabs
  <2>1. /\ v.index \in UNION {[S -> Nat] : S \in SUBSET Token}
        /\ DOMAIN v.index = ToSet(v.words) /\ Len(v.df) = Len(v.words)
        /\ \A i \in DOMAIN v.words : v.index[v.words[i]] = i - 1
    BY DEF Vocabs
  <2>2. PICK u : u = LoadedVocab(d)
    OBVIOUS
  <2>3. /\ u = [words |-> u.words, index |-> u.index, df |-> u.df, docs |-> u.docs]
        /\ u.words = v.words /\ u.index = v.index /\ u.df = v.df /\ u.docs = docs
    BY <1>8, <2>2
  <2>4. u \in Vocabs
    BY <1>2, <2>1, <2>3 DEF Vocabs
  <2> QED  BY <2>2, <2>4
<1>10. Rows(LoadedVocab(d)) = Rows(v)
  BY <1>8 DEF Rows
<1> QED  BY <1>1, <1>2, <1>8, <1>9, <1>10

LEMMA LoadedNetIs ==
  ASSUME NEW d, ModelOK(d.model), Len(d.rows) \in Nat, Len(d.chunks) \in Nat
  PROVE  /\ NetOK(LoadedNet(d))
         /\ \A n : NetOK(n) /\ d.model = ModelOf(n) => LoadedNet(d) = ExpandInputs(n, Len(d.rows))
<1>1. ASSUME d.model = NoModel PROVE NetOK(LoadedNet(d))
  <2>1. PICK a \in Nat, b \in Nat : /\ a = Larger(1, Len(d.rows)) /\ b = Larger(1, Len(d.chunks))
                                    /\ a >= 1 /\ b >= 1
    BY DEF Larger
  <2>2. LoadedNet(d) = ExpandInputs(NewNet(a, b), Len(d.rows))
    BY <1>1, <2>1, SizedNoModel DEF LoadedNet
  <2>3. NetOK(NewNet(a, b))
    BY <2>1, NewNetOK
  <2> QED  BY <2>2, <2>3, InputsExpand
<1>2. ASSUME NEW n, NetOK(n), d.model = ModelOf(n)
      PROVE  LoadedNet(d) = ExpandInputs(n, Len(d.rows)) /\ NetOK(LoadedNet(d))
  <2>1. LoadedNet(d) = ExpandInputs(n, Len(d.rows))
    BY <1>2, SizedIs DEF LoadedNet
  <2> QED  BY <1>2, <2>1, InputsExpand
<1> QED  BY <1>1, <1>2 DEF ModelOK

LEMMA InitialLoads ==
  ASSUME NEW d, d = [chunks |-> <<>>, rows |-> <<>>, model |-> NoModel]
  PROVE  TablesOK(d)
<1>1. PICK v : v = [words |-> <<>>, index |-> [w \in {} |-> 0], df |-> <<>>, docs |-> 0]
  OBVIOUS
<1>2. /\ v.words = <<>> /\ v.df = <<>> /\ v.docs = 0 /\ v.index = [w \in {} |-> 0]
      /\ v = [words |-> v.words, index |-> v.index, df |-> v.df, docs |-> v.docs]
  BY <1>1
<1>3. ToSet(v.words) = {} /\ DOMAIN v.words = {}
  BY <1>2 DEF ToSet
<1>4. v \in Vocabs
  <2>1. v.index \in [{} -> Nat] /\ {} \in SUBSET Token
    BY <1>2
  <2>2. v.index \in UNION {[S -> Nat] : S \in SUBSET Token}
    BY <2>1
  <2>3. v.words \in Seq(Token) /\ v.df \in Seq(Nat) /\ v.docs \in Nat /\ Len(v.df) = Len(v.words)
    BY <1>2
  <2> QED  BY <1>2, <1>3, <2>2, <2>3 DEF Vocabs
<1>5. Rows(v) = <<>>
  BY <1>3 DEF Rows
<1>6. <<>> \in Seq(StoredChunk)
  OBVIOUS
<1> QED  BY <1>4, <1>5, <1>6 DEF TablesOK, ModelOK

-----------------------------------------------------------------------------
(* The inductive invariant: that what would be loaded is what runs needs   *)
(* that no document is counted that has no chunk, that the lengths of the  *)
(* saved arrays give the sizes, and that no vector and no thread sees a    *)
(* network or a vocabulary of another size than it was made for.           *)
Input(v) == [1..Len(v.words) -> {0, 1}]

Share(n, u) ==
  [next : Nat, end : 0..Len(u.inputs), done : BOOLEAN, sum : Gradients(n.in, n.out)]

UploadOK(v, u) ==
  /\ u \in [doing : {"nothing", "epochs", "batch"}, left : Nat, flag : BOOLEAN, inputs : Seq(Input(v))]
  /\ u.doing = "batch" => u.left > 0

ThreadsOK(v, n, u, th) ==
  IF u.doing = "batch"
  THEN (u.inputs # <<>> => Len(v.words) = n.in) /\ th \in [0..NumThreads - 1 -> Share(n, u)]
  ELSE th = <<>>

LearnInv ==
  /\ vocab \in Vocabs /\ vocab.docs = Len(tables.chunks)
  /\ NetOK(net)
  /\ TablesOK(tables) /\ TablesOK(file)
  /\ UploadOK(vocab, upload)
  /\ ThreadsOK(vocab, net, upload, threads)
  /\ upload.doing = "nothing" => tables.rows = Rows(vocab)

LEMMA UploadParts ==
  ASSUME NEW v, NEW u, UploadOK(v, u)
  PROVE  /\ u = [doing |-> u.doing, left |-> u.left, flag |-> u.flag, inputs |-> u.inputs]
         /\ u.doing \in {"nothing", "epochs", "batch"} /\ u.left \in Nat /\ u.flag \in BOOLEAN
         /\ u.inputs \in Seq(Input(v)) /\ Len(u.inputs) \in Nat /\ DOMAIN u.inputs = 1..Len(u.inputs)
         /\ \A id \in 1..Len(u.inputs) : u.inputs[id] \in Input(v)
BY LenProperties DEF UploadOK

LEMMA InputLength ==
  ASSUME NEW v \in Vocabs, NEW x \in Input(v)
  PROVE  Len(x) = Len(v.words)
<1>1. PICK k \in Nat : k = Len(v.words)
  BY VocabParts
<1>2. x \in [1..k -> {0, 1}]
  BY <1>1 DEF Input
<1> QED  BY <1>1, <1>2, SeqDef, LenProperties

LEMMA VectorIs ==
  ASSUME NEW v \in Vocabs, NEW chunk
  PROVE  ChunkVector(v, chunk) \in Input(v)
<1>1. DOMAIN v.words = 1..Len(v.words)
  BY VocabParts
<1> QED  BY <1>1 DEF ChunkVector, Input

(* Whether it loads or starts, nothing is being done.                      *)
LEMMA IdleIs ==
  ASSUME NEW v
  PROVE  UploadOK(v, Idle) /\ Idle.doing = "nothing"
BY DEF UploadOK, Idle

LEMMA LearnInvInit == Init => LearnInv
<1> SUFFICES ASSUME Init PROVE LearnInv
  OBVIOUS
<1>1. TablesOK(tables) /\ file = tables /\ tables.chunks = <<>> /\ tables.rows = <<>>
      /\ vocab = LoadedVocab(tables) /\ net = LoadedNet(tables) /\ upload = Idle /\ threads = <<>>
  BY InitialLoads DEF Init
<1>2. PICK v \in Vocabs : tables.rows = Rows(v)
  BY <1>1 DEF TablesOK
<1>3. Len(tables.chunks) \in Nat /\ Len(tables.rows) \in Nat
  BY <1>1
<1>4. vocab \in Vocabs /\ vocab.words = v.words /\ vocab.docs = Len(tables.chunks)
  BY <1>1, <1>2, <1>3, LoadedVocabIs
<1>5. NetOK(net)
  BY <1>1, <1>3, LoadedNetIs DEF TablesOK
<1>6. tables.rows = Rows(vocab)
  BY <1>1, <1>2, <1>3, LoadedVocabIs
<1> QED  BY <1>1, <1>4, <1>5, <1>6, IdleIs DEF LearnInv, ThreadsOK

(* What a text adds, and where its chunks come.                            *)
LEMMA UploadSteps ==
  ASSUME LearnInv, NEW doc \in Docs, NEW tags \in TagLists, NEW flag \in BOOLEAN,
         Upload(doc, tags, flag)
  PROVE  LearnInv'
<1> DEFINE fresh  == NewChunks(doc)
           texts  == [i \in DOMAIN fresh |-> Tokens(fresh[i])]
           tagged == FoldLeft(AddWords, vocab, tags)
           full   == FoldLeft(AddWords, tagged, texts)
           added  == [i \in DOMAIN fresh |-> [text |-> fresh[i], tags |-> ToSet(tags)]]
           chunks == tables.chunks \o added
           wide   == IF Len(full.words) > Len(tagged.words)
                     THEN ExpandInputs(net, Len(full.words)) ELSE net
<1>0. doc \in Chunk /\ tags \in Seq(Seq(Token))
  BY LearningConstants DEF LearningConstants, Chunk, Line
<1>1. PICK k \in Nat : /\ fresh \in Seq(Chunk) /\ k = Len(fresh) /\ DOMAIN fresh = 1..k
                       /\ \A i \in 1..k : fresh[i] \in Chunk
  BY <1>0, NewChunksAre, LenProperties
<1> HIDE DEF fresh
<1>2. texts \in Seq(Seq(Token)) /\ Len(texts) = k
  <2>1. \A i \in 1..k : Tokens(fresh[i]) \in Seq(Token)
    BY <1>1, TokensOfChunk
  <2>2. PICK s : s = texts
    OBVIOUS
  <2>3. s \in [1..k -> Seq(Token)]
    BY <1>1, <2>1, <2>2
  <2> QED  BY <2>2, <2>3, SeqDef, LenProperties
<1>3. added \in Seq(StoredChunk) /\ Len(added) = k
  <2>1. ToSet(tags) \in SUBSET Seq(Token)
    BY <1>0, LenProperties DEF ToSet
  <2>2. \A i \in 1..k : [text |-> fresh[i], tags |-> ToSet(tags)] \in StoredChunk
    BY <1>1, <2>1 DEF StoredChunk
  <2>3. PICK s : s = added
    OBVIOUS
  <2>4. s \in [1..k -> StoredChunk]
    BY <1>1, <2>2, <2>3
  <2> QED  BY <2>3, <2>4, SeqDef, LenProperties
<1>4. PICK c \in Nat : tables.chunks \in Seq(StoredChunk) /\ c = Len(tables.chunks)
  BY LenProperties DEF LearnInv, TablesOK
<1>5. chunks \in Seq(StoredChunk) /\ Len(chunks) = c + k
  BY <1>3, <1>4, ConcatProperties
<1>6. tagged \in Vocabs /\ tagged.docs = vocab.docs
  BY <1>0, TextsGrow DEF Grown, LearnInv
<1> HIDE DEF texts, tagged, added
<1>7. full \in Vocabs /\ full.docs = vocab.docs
  BY <1>2, <1>6, TextsGrow DEF Grown
<1> HIDE DEF full, chunks
<1>8. NetOK(wide)
  BY <1>7, VocabParts, InputsExpand DEF LearnInv
<1> HIDE DEF wide
<1>9. /\ vocab' = FoldLeft(CountDocument, full, texts) /\ net' = ExpandOutputs(wide, Len(chunks))
      /\ tables' = [tables EXCEPT !.chunks = chunks]
      /\ upload' = [doing |-> "epochs", left |-> Epochs, flag |-> flag,
                    inputs |-> [id \in DOMAIN chunks |-> ChunkVector(vocab',
                                    [chunks[id] EXCEPT !.text = Tokens(@)])]]
      /\ file' = file /\ threads' = threads /\ upload.doing = "nothing"
  BY DEF Upload, fresh, texts, tagged, full, added, chunks, wide
<1>10. vocab' \in Vocabs /\ vocab'.docs = vocab.docs + k
  BY <1>2, <1>7, <1>9, TextsCounted DEF Recounted
<1>11. NetOK(net')
  BY <1>5, <1>8, <1>9, OutputsExpand
<1>12. TablesOK(tables') /\ tables'.chunks = chunks
  <2>1. /\ tables = [chunks |-> tables.chunks, rows |-> tables.rows, model |-> tables.model]
        /\ \E v \in Vocabs : tables.rows = Rows(v)
        /\ ModelOK(tables.model)
    BY DEF LearnInv, TablesOK
  <2>2. tables' = [chunks |-> chunks, rows |-> tables.rows, model |-> tables.model]
    BY <1>9, <2>1
  <2> QED  BY <1>5, <2>1, <2>2 DEF TablesOK
<1>13. PICK inputs : /\ inputs \in Seq(Input(vocab'))
                     /\ upload' = [doing |-> "epochs", left |-> Epochs, flag |-> flag, inputs |-> inputs]
  <2>1. PICK m \in Nat : m = c + k /\ DOMAIN chunks = 1..m
    BY <1>5, LenProperties
  <2>2. PICK inputs : inputs = [id \in DOMAIN chunks |-> ChunkVector(vocab',
                                    [chunks[id] EXCEPT !.text = Tokens(@)])]
    OBVIOUS
  <2>3. inputs \in [1..m -> Input(vocab')]
    <3>1. PICK v \in Vocabs : v = vocab'
      BY <1>10
    <3>2. inputs = [id \in 1..m |-> ChunkVector(v, [chunks[id] EXCEPT !.text = Tokens(@)])]
      BY <2>1, <2>2, <3>1
    <3>3. \A id \in 1..m : ChunkVector(v, [chunks[id] EXCEPT !.text = Tokens(@)]) \in Input(v)
      BY VectorIs
    <3> QED  BY <3>1, <3>2, <3>3
  <2>4. inputs \in Seq(Input(vocab'))
    BY <2>3, SeqDef
  <2>5. upload' = [doing |-> "epochs", left |-> Epochs, flag |-> flag, inputs |-> inputs]
    BY <1>9, <2>2
  <2> QED  BY ONLY <2>4, <2>5
<1>14. UploadOK(vocab', upload') /\ upload'.doing = "epochs"
  <2>1. Epochs \in Nat
    BY LearningConstants DEF LearningConstants
  <2> QED  BY <1>13, <2>1 DEF UploadOK
<1>15. ThreadsOK(vocab', net', upload', threads')
  BY <1>9, <1>14 DEF LearnInv, ThreadsOK
<1>16. vocab'.docs = Len(tables'.chunks)
  BY <1>4, <1>5, <1>10, <1>12 DEF LearnInv
<1> QED  BY <1>9, <1>10, <1>11, <1>12, <1>14, <1>15, <1>16 DEF LearnInv

LEMMA SkipBatchSteps == LearnInv /\ SkipBatch => LearnInv'
<1> SUFFICES ASSUME LearnInv, SkipBatch PROVE LearnInv'
  OBVIOUS
<1>1. /\ upload.doing = "epochs" /\ upload.left > 0
      /\ upload' = [upload EXCEPT !.left = @ - 1]
      /\ vocab' = vocab /\ net' = net /\ tables' = tables /\ file' = file /\ threads' = threads
  BY DEF SkipBatch
<1>2. /\ upload = [doing |-> upload.doing, left |-> upload.left, flag |-> upload.flag, inputs |-> upload.inputs]
      /\ upload.left \in Nat /\ upload.flag \in BOOLEAN /\ upload.inputs \in Seq(Input(vocab))
  BY UploadParts DEF LearnInv
<1>3. UploadOK(vocab', upload') /\ upload'.doing = "epochs"
  BY <1>1, <1>2 DEF UploadOK
<1>4. ThreadsOK(vocab', net', upload', threads')
  BY <1>1, <1>3 DEF LearnInv, ThreadsOK
<1> QED  BY <1>1, <1>3, <1>4 DEF LearnInv

(* How many samples a thread takes at most.                                *)
LEMMA ChunkSizeIs ==
  ASSUME NEW N \in Nat, NEW t \in 0..NumThreads - 1
  PROVE  First(N, t) \in Nat /\ Beyond(N, t) \in 0..N
<1>1. PICK m \in Nat, k \in Nat : m = NumThreads /\ m >= 1 /\ k = N + m - 1
  BY HiddenIs
<1>2. PICK q \in Nat : q = k \div m
  BY <1>1, Dividing
<1>3. ChunkSize(N) = q
  BY <1>1, <1>2 DEF ChunkSize
<1>4. PICK f \in Nat : f = First(N, t)
  <2>1. t \in Nat /\ t * q \in Nat
    BY HiddenIs
  <2> QED  BY <1>3, <2>1 DEF First
<1>5. Beyond(N, t) = IF f + q <= N THEN f + q ELSE N
  BY <1>3, <1>4 DEF Beyond, Smaller
<1> QED  BY <1>4, <1>5

LEMMA StartBatchSteps == LearnInv /\ StartBatch => LearnInv'
<1> SUFFICES ASSUME LearnInv, StartBatch PROVE LearnInv'
  OBVIOUS
<1>1. PICK N \in Nat : N = Len(upload.inputs)
  BY UploadParts DEF LearnInv
<1>2. /\ upload.doing = "epochs" /\ upload.left > 0
      /\ \A id \in DOMAIN upload.inputs : Len(upload.inputs[id]) = net.in
      /\ threads' = [t \in 0..NumThreads - 1 |->
           [next |-> IF t \in Launched(N) THEN First(N, t) ELSE N,
            end  |-> IF t \in Launched(N) THEN Beyond(N, t) ELSE N,
            done |-> t \notin Launched(N), sum |-> NoGradient(net)]]
      /\ upload' = [upload EXCEPT !.doing = "batch"]
      /\ vocab' = vocab /\ net' = net /\ tables' = tables /\ file' = file
  BY <1>1 DEF StartBatch
<1>3. /\ upload = [doing |-> upload.doing, left |-> upload.left, flag |-> upload.flag, inputs |-> upload.inputs]
      /\ upload.left \in Nat /\ upload.flag \in BOOLEAN /\ upload.inputs \in Seq(Input(vocab))
      /\ DOMAIN upload.inputs = 1..N /\ \A id \in 1..N : upload.inputs[id] \in Input(vocab)
  BY <1>1, UploadParts DEF LearnInv
<1>4. UploadOK(vocab', upload') /\ upload'.doing = "batch" /\ upload'.inputs = upload.inputs
  BY <1>2, <1>3 DEF UploadOK
<1>5. upload.inputs # <<>> => Len(vocab.words) = net.in
  <2> SUFFICES ASSUME upload.inputs # <<>> PROVE Len(vocab.words) = net.in
    OBVIOUS
  <2>1. N # 0
    BY <1>1, <1>3
  <2>2. 1 \in 1..N
    BY <2>1
  <2>3. Len(upload.inputs[1]) = Len(vocab.words)
    BY <1>3, <2>2, InputLength DEF LearnInv
  <2> QED  BY <1>2, <1>3, <2>2, <2>3
<1>6. ASSUME NEW t \in 0..NumThreads - 1 PROVE threads'[t] \in Share(net, upload)
  <2>1. NoGradient(net) \in Gradients(net.in, net.out)
    BY NoGradientIs DEF LearnInv
  <2>2. First(N, t) \in Nat /\ Beyond(N, t) \in 0..N
    BY ChunkSizeIs
  <2> QED  BY <1>1, <1>2, <2>1, <2>2 DEF Share
<1>7. threads' \in [0..NumThreads - 1 -> Share(net, upload)]
  BY <1>2, <1>6
<1>8. ThreadsOK(vocab', net', upload', threads')
  BY <1>2, <1>4, <1>5, <1>7 DEF ThreadsOK, Share
<1> QED  BY <1>2, <1>4, <1>8 DEF LearnInv

LEMMA LearnSampleSteps ==
  ASSUME LearnInv, NEW t \in DOMAIN threads, LearnSample(t)
  PROVE  LearnInv'
<1>1. /\ upload.doing = "batch" /\ threads[t].next < threads[t].end
      /\ threads' = [threads EXCEPT ![t].next = threads[t].next + 1,
           ![t].sum = Accumulated(threads[t].sum, net, upload.inputs[threads[t].next + 1], threads[t].next)]
      /\ vocab' = vocab /\ net' = net /\ tables' = tables /\ file' = file /\ upload' = upload
  BY DEF LearnSample
<1>2. /\ upload.inputs # <<>> => Len(vocab.words) = net.in
      /\ threads \in [0..NumThreads - 1 -> Share(net, upload)]
  BY <1>1 DEF LearnInv, ThreadsOK
<1>3. threads[t] \in Share(net, upload) /\ t \in 0..NumThreads - 1
  BY <1>2
<1>4. PICK N \in Nat : /\ N = Len(upload.inputs) /\ upload.inputs \in Seq(Input(vocab))
                       /\ \A id \in 1..N : upload.inputs[id] \in Input(vocab)
  BY UploadParts DEF LearnInv
<1>5. PICK n \in Nat, e \in 0..N : n = threads[t].next /\ e = threads[t].end /\ n < e
  BY <1>1, <1>3, <1>4 DEF Share
<1>6. n + 1 \in 1..N
  BY <1>5
<1>7. upload.inputs[n + 1] \in [1..net.in -> {0, 1}]
  <2>1. upload.inputs # <<>>
    BY <1>4, <1>6
  <2> QED  BY <1>2, <1>4, <1>6, <2>1 DEF Input
<1>8. PICK g \in Gradients(net.in, net.out) :
        g = Accumulated(threads[t].sum, net, upload.inputs[n + 1], n)
  BY <1>3, <1>7, AccumulatedIs DEF LearnInv, Share
<1>9. threads' = [threads EXCEPT ![t] = [@ EXCEPT !.next = n + 1, !.sum = g]]
  BY <1>1, <1>5, <1>8
<1>10. [threads[t] EXCEPT !.next = n + 1, !.sum = g] \in Share(net, upload)
  <2>0. PICK x : x = threads[t]
    OBVIOUS
  <2>1. PICK y : x = threads[t] /\ y = [x EXCEPT !.next = n + 1, !.sum = g]
    BY <2>0
  <2>2. /\ x = [next |-> x.next, end |-> x.end, done |-> x.done, sum |-> x.sum]
        /\ x.end \in 0..Len(upload.inputs) /\ x.done \in BOOLEAN
    BY <1>3, <2>1 DEF Share
  <2>3. /\ y = [next |-> y.next, end |-> y.end, done |-> y.done, sum |-> y.sum]
        /\ y.next = n + 1 /\ y.end = x.end /\ y.done = x.done /\ y.sum = g
    BY <2>1, <2>2
  <2>4. y \in Share(net, upload)
    BY <1>5, <1>8, <2>2, <2>3 DEF Share
  <2> QED  BY <2>1, <2>4
<1>11. threads' \in [0..NumThreads - 1 -> Share(net, upload)]
  BY <1>2, <1>9, <1>10
<1>12. ThreadsOK(vocab', net', upload', threads')
  BY <1>1, <1>2, <1>11 DEF ThreadsOK, Share
<1> QED  BY <1>1, <1>12 DEF LearnInv

LEMMA EndThreadSteps ==
  ASSUME LearnInv, NEW t \in DOMAIN threads, EndThread(t)
  PROVE  LearnInv'
<1>1. /\ upload.doing = "batch"
      /\ threads' = [threads EXCEPT ![t].done = TRUE]
      /\ vocab' = vocab /\ net' = net /\ tables' = tables /\ file' = file /\ upload' = upload
  BY DEF EndThread
<1>2. /\ upload.inputs # <<>> => Len(vocab.words) = net.in
      /\ threads \in [0..NumThreads - 1 -> Share(net, upload)]
  BY <1>1 DEF LearnInv, ThreadsOK
<1>3. [threads[t] EXCEPT !.done = TRUE] \in Share(net, upload)
  BY <1>2 DEF Share
<1>4. threads' \in [0..NumThreads - 1 -> Share(net, upload)]
  BY <1>1, <1>2, <1>3
<1>5. ThreadsOK(vocab', net', upload', threads')
  BY <1>1, <1>2, <1>4 DEF ThreadsOK, Share
<1> QED  BY <1>1, <1>5 DEF LearnInv

LEMMA EndBatchSteps == LearnInv /\ EndBatch => LearnInv'
<1> SUFFICES ASSUME LearnInv, EndBatch PROVE LearnInv'
  OBVIOUS
<1>1. /\ upload.doing = "batch"
      /\ net' = FoldLeft(Updated, net, [i \in 1..NumThreads |-> threads[i - 1].sum])
      /\ upload' = [upload EXCEPT !.doing = "epochs", !.left = @ - 1]
      /\ threads' = <<>> /\ vocab' = vocab /\ tables' = tables /\ file' = file
  BY DEF EndBatch
<1>2. threads \in [0..NumThreads - 1 -> Share(net, upload)]
  BY <1>1 DEF LearnInv, ThreadsOK
<1>3. PICK sums : /\ sums = [i \in 1..NumThreads |-> threads[i - 1].sum]
                  /\ sums \in [1..NumThreads -> Gradients(net.in, net.out)]
  <2>1. \A i \in 1..NumThreads : i - 1 \in 0..NumThreads - 1
    BY HiddenIs
  <2>2. \A i \in 1..NumThreads : threads[i - 1].sum \in Gradients(net.in, net.out)
    BY <1>2, <2>1 DEF Share
  <2>3. PICK sums : sums = [i \in 1..NumThreads |-> threads[i - 1].sum]
    OBVIOUS
  <2> QED  BY <2>2, <2>3
<1>4. NetOK(net')
  <2>1. PICK a \in Nat, b \in Nat : a = net.in /\ b = net.out /\ a >= 1 /\ b >= 1
    BY DEF LearnInv, NetOK
  <2>2. net \in Nets(a, b) /\ sums \in [1..NumThreads -> Gradients(a, b)]
    BY <1>3, <2>1, NetsOK DEF LearnInv
  <2>3. net' \in Nets(a, b)
    BY <1>1, <1>3, <2>2, HiddenIs, AllUpdated
  <2> QED  BY <2>1, <2>3, NetsOK
<1>5. /\ upload = [doing |-> upload.doing, left |-> upload.left, flag |-> upload.flag, inputs |-> upload.inputs]
      /\ upload.left \in Nat /\ upload.left > 0 /\ upload.flag \in BOOLEAN
      /\ upload.inputs \in Seq(Input(vocab))
  BY <1>1, UploadParts DEF LearnInv, UploadOK
<1>6. UploadOK(vocab', upload') /\ upload'.doing = "epochs"
  <2>1. upload' = [doing |-> "epochs", left |-> upload.left - 1, flag |-> upload.flag, inputs |-> upload.inputs]
    BY <1>1, <1>5
  <2> QED  BY <1>1, <1>5, <2>1 DEF UploadOK
<1>7. ThreadsOK(vocab', net', upload', threads')
  BY <1>1, <1>6 DEF ThreadsOK
<1> QED  BY <1>1, <1>4, <1>6, <1>7 DEF LearnInv

LEMMA SavedIs ==
  ASSUME NEW d, TablesOK(d), NEW v \in Vocabs, NEW n, NetOK(n)
  PROVE  /\ TablesOK(Saved(d, v, n)) /\ Saved(d, v, n).chunks = d.chunks
         /\ Saved(d, v, n).rows = Rows(v) /\ Saved(d, v, n).model = ModelOf(n)
<1>1. PICK rows, model : rows = Rows(v) /\ model = ModelOf(n)
  OBVIOUS
<1>2. Saved(d, v, n) = [d EXCEPT !.rows = rows, !.model = model]
  BY <1>1 DEF Saved, Rows, ModelOf
<1>3. d = [chunks |-> d.chunks, rows |-> d.rows, model |-> d.model] /\ d.chunks \in Seq(StoredChunk)
  BY DEF TablesOK
<1>4. Saved(d, v, n) = [chunks |-> d.chunks, rows |-> rows, model |-> model]
  BY <1>2, <1>3
<1>5. ModelOK(model)
  BY <1>1 DEF ModelOK
<1> QED  BY <1>1, <1>3, <1>4, <1>5 DEF TablesOK

LEMMA EndUploadSteps == LearnInv /\ EndUpload => LearnInv'
<1> SUFFICES ASSUME LearnInv, EndUpload PROVE LearnInv'
  OBVIOUS
<1>1. /\ tables' = Saved(tables, vocab, net) /\ file' = (IF upload.flag THEN tables' ELSE file)
      /\ upload' = Idle /\ vocab' = vocab /\ net' = net /\ threads' = threads
      /\ upload.doing = "epochs"
  BY DEF EndUpload
<1>2. TablesOK(tables') /\ tables'.chunks = tables.chunks /\ tables'.rows = Rows(vocab)
  BY <1>1, SavedIs DEF LearnInv
<1>3. TablesOK(file')
  BY <1>1, <1>2 DEF LearnInv
<1>4. ThreadsOK(vocab', net', upload', threads')
  BY <1>1, IdleIs DEF LearnInv, ThreadsOK
<1> QED  BY <1>1, <1>2, <1>3, <1>4, IdleIs DEF LearnInv

LEMMA SerializeSteps == LearnInv /\ Serialize => LearnInv'
BY DEF LearnInv, Serialize

LEMMA RestartSteps == LearnInv /\ Restart => LearnInv'
<1> SUFFICES ASSUME LearnInv, Restart PROVE LearnInv'
  OBVIOUS
<1>1. /\ tables' = file /\ vocab' = LoadedVocab(file) /\ net' = LoadedNet(file)
      /\ upload' = Idle /\ threads' = <<>> /\ file' = file
  BY DEF Restart
<1>2. TablesOK(file)
  BY DEF LearnInv
<1>3. PICK v \in Vocabs : file.rows = Rows(v)
  BY <1>2 DEF TablesOK
<1>4. Len(file.chunks) \in Nat /\ Len(file.rows) \in Nat
  <2>1. Len(file.chunks) \in Nat
    BY <1>2, LenProperties DEF TablesOK
  <2>2. PICK k \in Nat : k = Len(v.words) /\ DOMAIN v.words = 1..k
    BY VocabParts
  <2>3. Len(Rows(v)) = k
    BY <2>2 DEF Rows
  <2> QED  BY <1>3, <2>1, <2>3
<1>5. vocab' \in Vocabs /\ vocab'.docs = Len(tables'.chunks) /\ tables'.rows = Rows(vocab')
  BY <1>1, <1>3, <1>4, LoadedVocabIs
<1>6. NetOK(net')
  BY <1>1, <1>2, <1>4, LoadedNetIs DEF TablesOK
<1> QED  BY <1>1, <1>2, <1>5, <1>6, IdleIs DEF LearnInv, ThreadsOK

LEMMA LearnInvNext == LearnInv /\ [Next]_vars => LearnInv'
<1> SUFFICES ASSUME LearnInv, [Next]_vars PROVE LearnInv'
  OBVIOUS
<1>1. CASE UNCHANGED vars
  BY <1>1 DEF LearnInv, vars
<1>2. ASSUME NEW doc \in Docs, NEW tags \in TagLists, NEW flag \in BOOLEAN, Upload(doc, tags, flag)
      PROVE  LearnInv'
  BY <1>2, UploadSteps
<1>3. ASSUME NEW t \in DOMAIN threads, LearnSample(t) \/ EndThread(t) PROVE LearnInv'
  BY <1>3, LearnSampleSteps, EndThreadSteps
<1> QED  BY <1>1, <1>2, <1>3, SkipBatchSteps, StartBatchSteps, EndBatchSteps, EndUploadSteps,
            SerializeSteps, RestartSteps DEF Next

LEMMA LearnInvAlways == Spec => []LearnInv
<1> QED  BY LearnInvInit, LearnInvNext, PTL DEF Spec

-----------------------------------------------------------------------------
LEMMA ShapeIs ==
  ASSUME NEW n, NetOK(n)
  PROVE  NetShape(n)
<1>1. PICK a \in Nat, b \in Nat, H \in Nat, p \in Nat, q \in Nat :
        a = n.in /\ b = n.out /\ H = Hidden /\ a >= 1 /\ b >= 1 /\ p = a * H /\ q = H * b
  BY HiddenIs DEF NetOK
<1>2. /\ n.w1 \in [1..p -> Weight] /\ n.b1 \in [1..H -> Nat]
      /\ n.w2 \in [1..q -> Weight] /\ n.b2 \in [1..b -> Nat]
  BY <1>1 DEF NetOK
<1>3. Len(n.w1) = p /\ Len(n.b1) = H /\ Len(n.w2) = q /\ Len(n.b2) = b
  <2>1. ASSUME NEW S, NEW k \in Nat, NEW f \in [1..k -> S] PROVE Len(f) = k
    BY SeqDef, LenProperties
  <2> QED  BY <1>2, <2>1
<1> QED  BY <1>1, <1>3 DEF NetShape

(* In memory and in both databases the arrays are as long as the sizes     *)
(* say, although no table has the sizes (load_state divides the lengths),  *)
(* and every cached vector is as long as the vocabulary: for any documents,*)
(* any number of hidden units and any number of threads.                   *)
THEOREM LearningTypeCorrect == Spec => []LearningTypeOK
<1>1. LearnInv => LearningTypeOK
  <2> SUFFICES ASSUME LearnInv PROVE LearningTypeOK
    OBVIOUS
  <2>1. NetShape(net)
    BY ShapeIs DEF LearnInv
  <2>2. ASSUME NEW d \in {tables, file} PROVE d.model = NoModel \/ NetShape(Sized(d.model))
    <3>1. ModelOK(d.model)
      BY DEF LearnInv, TablesOK
    <3> QED  BY <3>1, SizedIs, ShapeIs DEF ModelOK
  <2>3. ASSUME NEW id \in DOMAIN upload.inputs PROVE Len(upload.inputs[id]) = Len(vocab.words)
    BY UploadParts, InputLength DEF LearnInv
  <2>4. DOMAIN threads \in {{}, 0..NumThreads - 1}
    BY DEF LearnInv, ThreadsOK
  <2> QED  BY <2>1, <2>2, <2>3, <2>4 DEF LearningTypeOK
<1> QED  BY <1>1, LearnInvAlways, PTL

(* word2idx and words say the same, and what would be loaded is what runs, *)
(* whatever was added, counted, saved and lost since: for any documents.   *)
THEOREM IndexStaysInverse == Spec => []IndexIsInverse
<1>1. LearnInv => IndexIsInverse
  <2> SUFFICES ASSUME LearnInv PROVE IndexIsInverse
    OBVIOUS
  <2>1. /\ DOMAIN vocab.index = ToSet(vocab.words) /\ Len(vocab.df) = Len(vocab.words)
        /\ \A i \in DOMAIN vocab.words : vocab.index[vocab.words[i]] = i - 1
    BY DEF LearnInv, Vocabs
  <2>2. ASSUME upload = Idle PROVE LoadedVocab(tables) = vocab
    <3>1. tables.rows = Rows(vocab) /\ vocab.docs = Len(tables.chunks) /\ vocab \in Vocabs
      BY <2>2, IdleIs DEF LearnInv
    <3>2. Len(tables.chunks) \in Nat
      BY LenProperties DEF LearnInv, TablesOK
    <3> QED  BY <3>1, <3>2, LoadedVocabIs
  <2> QED  BY <2>1, <2>2 DEF IndexIsInverse
<1> QED  BY <1>1, LearnInvAlways, PTL

(* The chunks of a first upload are its text, for any text and any limit:  *)
(* the lines in their order, cut only where the next one would not fit.    *)
THEOREM SplittingKeepsTheText == Spec => []ChunksKeepTheText
<1>1. ChunksKeepTheText
  <2> SUFFICES ASSUME tables.chunks = <<>>, NEW lines \in Docs \cup Samples
               PROVE  IsSplitting(lines, NewChunks(lines))
    BY DEF ChunksKeepTheText
  <2>1. lines \in Chunk
    BY LearningConstants DEF LearningConstants, Chunk, Line
  <2>2. Stored = {}
    BY DEF Stored
  <2>3. NewChunks(lines) = SplitIntoChunks(lines)
    BY <2>1, <2>2, NewChunksAre
  <2> QED  BY <2>1, <2>3, SplittingIs
<1> QED  BY <1>1, PTL

-----------------------------------------------------------------------------
(* What the arrays mean.  For each step, the rows of the words and of the  *)
(* chunks have to be found in the arrays, before and after it.             *)

TokensOf(chunk) == ToSet(Tokens(chunk.text))

(* Every word of a stored text is known, unless the vocabulary is full, and*)
(* counted are the words of the stored texts.                              *)
Known(v, chunks) ==
  /\ \A d \in DOMAIN chunks : \A w \in TokensOf(chunks[d]) : Has(v, w)
  /\ \A i \in DOMAIN v.words :
       v.df[i] # 0 <=> \E d \in DOMAIN chunks : v.words[i] \in TokensOf(chunks[d])

(* A word that is new now was in no text before: there was room for it.    *)
LEMMA NewWordIsNew ==
  ASSUME NEW v \in Vocabs, NEW chunks, Known(v, chunks), NEW u \in Grown(v),
         NEW i \in DOMAIN u.words, Len(v.words) < i, NEW d \in DOMAIN chunks
  PROVE  u.words[i] \notin TokensOf(chunks[d])
<1>1. SUFFICES ASSUME u.words[i] \in TokensOf(chunks[d]) PROVE FALSE
  OBVIOUS
<1>2. u \in Vocabs
  BY DEF Grown
<1>3. PICK k \in Nat, m \in Nat : k = Len(v.words) /\ m = Len(u.words)
  BY <1>2, VocabParts
<1>4. /\ DOMAIN v.words = 1..k /\ DOMAIN u.words = 1..m
      /\ \A j \in 1..m : u.index[u.words[j]] = j - 1
  BY <1>2, <1>3, VocabParts
<1>5. k <= m /\ k < i /\ i \in 1..m /\ \A j \in 1..k : u.words[j] = v.words[j]
  BY <1>3, <1>4 DEF Grown
<1>6. IsValidWord(u.words[i]) /\ k < MaxVocab
  BY <1>3, <1>4 DEF Grown
<1>7. Has(v, u.words[i])
  BY <1>1 DEF Known
<1>8. u.words[i] \in ToSet(v.words)
  BY <1>3, <1>6, <1>7, VocabularyConstants DEF Has, VocabularyConstants
<1>9. PICK j \in 1..k : v.words[j] = u.words[i]
  BY <1>4, <1>8 DEF ToSet
<1>10. j \in 1..m /\ u.words[j] = u.words[i]
  BY <1>5, <1>9
<1>11. j - 1 = i - 1
  BY <1>4, <1>5, <1>10
<1> QED  BY <1>5, <1>11

HasAll(v, texts, k) == \A d \in 1..k : \A w \in ToSet(texts[d]) : Has(v, w)

CountsAll(u, v, texts, k) ==
  \A i \in DOMAIN v.words : u.df[i] # 0 <=>
    v.df[i] # 0 \/ \E d \in 1..k : v.words[i] \in ToSet(texts[d])

AddsTexts(chunks, old, n, texts, k) ==
  /\ DOMAIN chunks = 1..n + k /\ \A d \in 1..n : chunks[d] = old[d]
  /\ \A d \in 1..k : TokensOf(chunks[n + d]) = ToSet(texts[d])

LEMMA KnownGrows ==
  ASSUME NEW v \in Vocabs, NEW n \in Nat, NEW old, DOMAIN old = 1..n, Known(v, old),
         NEW full \in Grown(v), NEW k \in Nat, NEW texts, HasAll(full, texts, k),
         NEW u \in Recounted(full), CountsAll(u, full, texts, k),
         NEW chunks, AddsTexts(chunks, old, n, texts, k)
  PROVE  Known(u, chunks)
<1> USE DEF HasAll, CountsAll, AddsTexts
<1>1. full \in Vocabs /\ u \in Vocabs /\ u.words = full.words
  BY DEF Grown, Recounted
<1>2. PICK a \in Nat, b \in Nat : a = Len(v.words) /\ b = Len(full.words)
  BY <1>1, VocabParts
<1>3. DOMAIN v.words = 1..a /\ DOMAIN full.words = 1..b
  BY <1>1, <1>2, VocabParts
<1>4. /\ \A i \in 1..a : full.words[i] = v.words[i] /\ full.df[i] = v.df[i]
      /\ \A i \in 1..b : a < i => full.df[i] = 0
  BY <1>2, <1>3 DEF Grown
<1>5. \A d \in 1..n + k : d \in 1..n \/ \E e \in 1..k : d = n + e
  <2> SUFFICES ASSUME NEW d \in 1..n + k, d \notin 1..n PROVE \E e \in 1..k : d = n + e
    OBVIOUS
  <2>1. d - n \in 1..k /\ d = n + (d - n)
    OBVIOUS
  <2> QED  BY <2>1
<1>6. \A d \in 1..n : d \in 1..n + k
  OBVIOUS
<1>7. \A e \in 1..k : n + e \in 1..n + k
  OBVIOUS
<1>8. ASSUME NEW d \in 1..n + k, NEW w \in TokensOf(chunks[d]) PROVE Has(u, w)
  <2>1. CASE d \in 1..n
    <3>1. Has(v, w)
      BY <1>8, <2>1 DEF Known
    <3> QED  BY <1>1, <3>1, GrownHas DEF Has
  <2>2. ASSUME NEW e \in 1..k, d = n + e PROVE Has(u, w)
    BY <1>1, <1>8, <2>2 DEF Has
  <2> QED  BY <1>5, <2>1, <2>2
<1> DEFINE In(w) == \E d \in 1..n : w \in TokensOf(old[d])
           Now(w) == \E d \in 1..k : w \in ToSet(texts[d])
<1>9. ASSUME NEW i \in 1..b PROVE full.df[i] # 0 <=> In(full.words[i])
  <2>1. CASE i <= a
    <3>1. i \in 1..a
      BY <2>1
    <3>2. v.df[i] # 0 <=> In(v.words[i])
      BY <1>3, <3>1 DEF Known
    <3> QED  BY <1>4, <3>1, <3>2
  <2>2. CASE ~(i <= a)
    <3>1. full.df[i] = 0
      BY <1>4, <2>2
    <3>2. \A d \in 1..n : full.words[i] \notin TokensOf(old[d])
      <4>1. i \in DOMAIN full.words /\ Len(v.words) < i
        BY <1>2, <1>3, <2>2
      <4>2. \A d \in DOMAIN old : full.words[i] \notin TokensOf(old[d])
        BY <4>1, NewWordIsNew
      <4> QED  BY <4>2
    <3> QED  BY <3>1, <3>2
  <2> QED  BY <2>1, <2>2
<1>10. \A w : In(w) \/ Now(w) <=> \E d \in 1..n + k : w \in TokensOf(chunks[d])
  <2> SUFFICES ASSUME NEW w PROVE In(w) \/ Now(w) <=> \E d \in 1..n + k : w \in TokensOf(chunks[d])
    OBVIOUS
  <2>1. ASSUME In(w) PROVE \E d \in 1..n + k : w \in TokensOf(chunks[d])
    BY <1>6, <2>1
  <2>2. ASSUME Now(w) PROVE \E d \in 1..n + k : w \in TokensOf(chunks[d])
    <3>1. PICK e \in 1..k : w \in ToSet(texts[e])
      BY <2>2
    <3> QED  BY <1>7, <3>1
  <2>3. ASSUME NEW d \in 1..n + k, w \in TokensOf(chunks[d]) PROVE In(w) \/ Now(w)
    <3>1. CASE d \in 1..n
      BY <2>3, <3>1
    <3>2. ASSUME NEW e \in 1..k, d = n + e PROVE Now(w)
      BY <2>3, <3>2
    <3> QED  BY <1>5, <3>1, <3>2
  <2> QED  BY <2>1, <2>2, <2>3
<1>11. ASSUME NEW i \in 1..b
       PROVE  u.df[i] # 0 <=> \E d \in 1..n + k : u.words[i] \in TokensOf(chunks[d])
  <2>1. u.df[i] # 0 <=> full.df[i] # 0 \/ Now(full.words[i])
    BY <1>3
  <2> HIDE DEF In, Now
  <2> QED  BY <1>1, <1>9, <1>10, <2>1
<1> QED  BY <1>1, <1>3, <1>8, <1>11 DEF Known
-----------------------------------------------------------------------------
(* How many of S are after a and not after b.                              *)
Hits(S, a, b) == Cardinality({c \in S : a < c /\ c <= b})

LEMMA HitsJoin ==
  ASSUME NEW S \in SUBSET Nat, IsFiniteSet(S), NEW a \in Nat, NEW b \in Nat, NEW c \in Nat, a <= b, b <= c
  PROVE  /\ Hits(S, a, b) \in Nat
         /\ Hits(S, a, c) = Hits(S, a, b) + Hits(S, b, c)
<1> DEFINE Part(x, y) == {e \in S : x < e /\ e <= y}
<1>1. \A x, y : IsFiniteSet(Part(x, y))
  BY FS_Subset
<1>2. Part(a, c) = Part(a, b) \cup Part(b, c) /\ Part(a, b) \cap Part(b, c) = {}
  <2>1. \A e \in S : e \in Nat
    OBVIOUS
  <2>2. \A e \in S : /\ a < e /\ e <= c <=> (a < e /\ e <= b) \/ (b < e /\ e <= c)
                    /\ ~((a < e /\ e <= b) /\ (b < e /\ e <= c))
    BY <2>1
  <2> QED  BY <2>2, Zenon
<1> HIDE DEF Part
<1>3. Cardinality(Part(a, b)) \in Nat /\ Cardinality(Part(b, c)) \in Nat
  BY <1>1, FS_CardinalityType
<1>4. Cardinality(Part(a, c)) = Cardinality(Part(a, b)) + Cardinality(Part(b, c))
  <2>1. PICK P, Q : P = Part(a, b) /\ Q = Part(b, c)
    OBVIOUS
  <2>2. IsFiniteSet(P) /\ IsFiniteSet(Q) /\ Cardinality(P) \in Nat /\ Cardinality(Q) \in Nat
    BY <1>1, <1>3, <2>1
  <2>3. Cardinality(P \cup Q) = Cardinality(P) + Cardinality(Q) - Cardinality(P \cap Q)
    BY <2>2, FS_Union
  <2>4. P \cap Q = {} /\ Part(a, c) = P \cup Q
    BY <1>2, <2>1
  <2> QED  BY <2>1, <2>2, <2>3, <2>4, FS_EmptySet
<1> QED  BY <1>3, <1>4 DEF Hits, Part

LEMMA HitsMore ==
  ASSUME NEW S \in SUBSET Nat, IsFiniteSet(S), NEW a \in Nat, NEW b \in Nat, a <= b
  PROVE  /\ Hits(S, a, b) \in Nat /\ Hits(S, a, a) = 0
         /\ Hits(S, a, b + 1) = Hits(S, a, b) + (IF b + 1 \in S THEN 1 ELSE 0)
<1>1. /\ Hits(S, a, b) \in Nat
      /\ Hits(S, a, b + 1) = Hits(S, a, b) + Hits(S, b, b + 1)
  BY HitsJoin
<1>2. Hits(S, b, b + 1) = IF b + 1 \in S THEN 1 ELSE 0
  <2>0. \A c \in S : (b < c /\ c <= b + 1) <=> c = b + 1
    <3>1. \A c \in S : c \in Nat
      OBVIOUS
    <3> QED  BY <3>1
  <2>1. {c \in S : b < c /\ c <= b + 1} = IF b + 1 \in S THEN {b + 1} ELSE {}
    BY <2>0
  <2> QED  BY <2>1, FS_EmptySet, FS_Singleton DEF Hits
<1>3. Hits(S, a, a) = 0
  <2>0. \A c \in S : ~(a < c /\ c <= a)
    <3>1. \A c \in S : c \in Nat
      OBVIOUS
    <3> QED  BY <3>1
  <2>1. {c \in S : a < c /\ c <= a} = {}
    BY <2>0
  <2> QED  BY <2>1, FS_EmptySet DEF Hits
<1> QED  BY <1>1, <1>2, <1>3

LEMMA HitsAll ==
  ASSUME NEW N \in Nat, NEW S \in SUBSET (1..N)
  PROVE  /\ IsFiniteSet(S) /\ S \in SUBSET Nat /\ Hits(S, 0, N) = Cardinality(S)
         /\ \A y \in 1..N : Hits({y}, 0, N) = 1
<1>1. IsFiniteSet(S) /\ S \in SUBSET Nat
  <2>1. IsFiniteSet(1..N) /\ 1..N \subseteq Nat
    BY FS_Interval
  <2> QED  BY <2>1, FS_Subset
<1>2. {c \in S : 0 < c /\ c <= N} = S
  <2>1. \A c \in S : c \in 1..N
    OBVIOUS
  <2>2. \A c \in S : 0 < c /\ c <= N
    BY <2>1
  <2> QED  BY <2>2
<1>3. ASSUME NEW y \in 1..N PROVE Hits({y}, 0, N) = 1
  <2>1. {c \in {y} : 0 < c /\ c <= N} = {y}
    OBVIOUS
  <2> QED  BY <2>1, FS_Singleton DEF Hits
<1> QED  BY <1>1, <1>2, <1>3 DEF Hits

(* What the threads share: the first k of them have the samples up to here.*)
Upto(N, k) == Smaller(k * ChunkSize(N), N)

LEMMA SharesOfThreads ==
  ASSUME NEW N \in Nat
  PROVE  /\ \A k \in 0..NumThreads : Upto(N, k) \in 0..N
         /\ Upto(N, 0) = 0 /\ Upto(N, NumThreads) = N
         /\ \A t \in 0..NumThreads - 1 :
              /\ Upto(N, t) <= Upto(N, t + 1)
              /\ (IF t \in Launched(N) THEN First(N, t) ELSE N) = Upto(N, t)
              /\ (IF t \in Launched(N) THEN Beyond(N, t) ELSE N) = Upto(N, t + 1)
<1>1. PICK m \in Nat, d \in Nat : m = NumThreads /\ m >= 1 /\ d = N + m - 1
  BY HiddenIs
<1>2. PICK q \in Nat : q = d \div m /\ ChunkSize(N) = q
  BY <1>1, Dividing DEF ChunkSize
<1>3. PICK r \in Nat : r < m /\ d = r + m * q
  <2>1. d % m \in 0..m - 1 /\ d = (d % m) + m * q
    <3>1. d % m \in 0..m - 1 /\ d = (d % m) + m * (d \div m)
      BY <1>1, Dividing
    <3> QED  BY <1>2, <3>1
  <2>2. PICK r : r = d % m
    OBVIOUS
  <2>3. r \in Nat /\ r < m /\ d = r + m * q
    BY <1>1, <2>1, <2>2
  <2> QED  BY <2>3
<1>4. m * q >= N /\ (q = 0 => N = 0)
  <2>1. PICK s \in Nat : s = m * q
    OBVIOUS
  <2>2. s >= N
    BY <1>1, <1>3, <2>1
  <2>3. q = 0 => s = 0
    BY <2>1
  <2> QED  BY <2>1, <2>2, <2>3
<1>5. ASSUME NEW k \in 0..m PROVE Upto(N, k) \in 0..N
  <2>1. PICK s \in Nat : s = k * q
    OBVIOUS
  <2> QED  BY <1>2, <2>1 DEF Upto, Smaller
<1>6. Upto(N, 0) = 0 /\ Upto(N, m) = N
  <2>1. 0 * q = 0
    OBVIOUS
  <2>2. PICK s \in Nat : s = m * q /\ s >= N
    BY <1>4
  <2> QED  BY <1>2, <2>1, <2>2 DEF Upto, Smaller
<1>7. ASSUME NEW t \in 0..m - 1
      PROVE  /\ Upto(N, t) <= Upto(N, t + 1)
             /\ (IF t \in Launched(N) THEN First(N, t) ELSE N) = Upto(N, t)
             /\ (IF t \in Launched(N) THEN Beyond(N, t) ELSE N) = Upto(N, t + 1)
  <2>1. PICK f \in Nat : f = t * q
    OBVIOUS
  <2>2. (t + 1) * q = f + q
    BY <2>1
  <2>3. /\ First(N, t) = f /\ Beyond(N, t) = (IF f + q <= N THEN f + q ELSE N)
        /\ Upto(N, t) = (IF f <= N THEN f ELSE N)
        /\ Upto(N, t + 1) = (IF f + q <= N THEN f + q ELSE N)
    BY <1>2, <2>1, <2>2 DEF First, Beyond, Upto, Smaller
  <2>4. t \in Launched(N) <=> f < (IF f + q <= N THEN f + q ELSE N)
    BY <1>1, <2>3 DEF Launched
  <2> QED  BY <1>4, <2>3, <2>4
<1> QED  BY <1>1, <1>5, <1>6, <1>7

(* The samples that have input i, and what those after a and not after b   *)
(* add to the weights.                                                     *)
Having(xs, i) == {c \in DOMAIN xs : xs[c][i + 1] = 1}

Gained(g, n, xs, a, b) ==
  /\ \A p \in 1..n.in * Hidden : g.w1[p] = Hits(Having(xs, (p - 1) \div Hidden), a, b)
  /\ \A p \in 1..Hidden * n.out : g.w2[p] = Hits({((p - 1) % n.out) + 1}, a, b)
  /\ \A k \in 1..n.out : g.b2[k] = Hits({k}, a, b)

LEMMA HavingIs ==
  ASSUME NEW N \in Nat, NEW xs, DOMAIN xs = 1..N, NEW i
  PROVE  Having(xs, i) \in SUBSET Nat /\ IsFiniteSet(Having(xs, i))
<1>1. Having(xs, i) \in SUBSET (1..N)
  BY DEF Having
<1> QED  BY <1>1, HitsAll

LEMMA LabelIs ==
  ASSUME NEW b \in Nat, b >= 1, NEW p \in Nat, p >= 1
  PROVE  ((p - 1) % b) + 1 \in 1..b
<1>1. PICK m \in Nat : m = p - 1
  OBVIOUS
<1>2. m % b \in 0..b - 1
  BY Dividing
<1> QED  BY <1>1, <1>2

LEMMA GainedNothing ==
  ASSUME NEW n, NetOK(n), NEW N \in Nat, NEW xs, DOMAIN xs = 1..N, NEW a \in Nat
  PROVE  Gained(NoGradient(n), n, xs, a, a)
<1>1. PICK A \in Nat, B \in Nat : A = n.in /\ B = n.out /\ B >= 1
  BY DEF NetOK
<1>2. /\ \A p \in 1..A * Hidden : NoGradient(n).w1[p] = 0
      /\ \A p \in 1..Hidden * B : NoGradient(n).w2[p] = 0
      /\ \A k \in 1..B : NoGradient(n).b2[k] = 0
  BY <1>1 DEF NoGradient
<1>3. \A i : Hits(Having(xs, i), a, a) = 0
  BY HavingIs, HitsMore
<1>4. ASSUME NEW y \in Nat PROVE Hits({y}, a, a) = 0
  <2>1. PICK S \in SUBSET Nat : S = {y} /\ IsFiniteSet(S)
    <3>1. {y} \in SUBSET Nat
      OBVIOUS
    <3> QED  BY <3>1, FS_Singleton
  <2> QED  BY <2>1, HitsMore
<1>5. \A p \in 1..Hidden * B : ((p - 1) % B) + 1 \in Nat
  BY <1>1, HiddenIs, LabelIs
<1>6. ASSUME NEW p \in 1..Hidden * B PROVE NoGradient(n).w2[p] = Hits({((p - 1) % B) + 1}, a, a)
  BY <1>2, <1>4, <1>5
<1>7. ASSUME NEW k \in 1..B PROVE NoGradient(n).b2[k] = Hits({k}, a, a)
  BY <1>2, <1>4
<1> QED  BY <1>1, <1>2, <1>3, <1>6, <1>7 DEF Gained

LEMMA GainedMore ==
  ASSUME NEW n, NetOK(n), NEW g \in Gradients(n.in, n.out), NEW N \in Nat,
         NEW xs \in [1..N -> [1..n.in -> {0, 1}]], NEW a \in Nat, NEW b \in Nat, a <= b, b < N,
         Gained(g, n, xs, a, b)
  PROVE  Gained(Accumulated(g, n, xs[b + 1], b), n, xs, a, b + 1)
<1>1. PICK A \in Nat, B \in Nat : A = n.in /\ B = n.out /\ B >= 1
  BY DEF NetOK
<1>2. /\ DOMAIN g.w1 = 1..A * Hidden /\ DOMAIN g.w2 = 1..Hidden * B /\ DOMAIN g.b2 = 1..B
  BY <1>1 DEF Gradients
<1>3. b + 1 \in 1..N /\ DOMAIN xs = 1..N
  OBVIOUS
<1> DEFINE h == Accumulated(g, n, xs[b + 1], b)
<1>4. ASSUME NEW p \in 1..A * Hidden
      PROVE  h.w1[p] = Hits(Having(xs, (p - 1) \div Hidden), a, b + 1)
  <2>1. PICK i \in Nat : i = (p - 1) \div Hidden /\ i < A
    BY HiddenIs, RowAndColumn
  <2>2. h.w1[p] = g.w1[p] + xs[b + 1][i + 1]
    BY <1>2, <2>1 DEF Accumulated, At
  <2>3. xs[b + 1][i + 1] = IF b + 1 \in Having(xs, i) THEN 1 ELSE 0
    <3>1. xs[b + 1] \in [1..A -> {0, 1}] /\ i + 1 \in 1..A
      BY <1>1, <1>3, <2>1
    <3>2. xs[b + 1][i + 1] \in {0, 1}
      BY <3>1
    <3> QED  BY <1>3, <3>2 DEF Having
  <2>4. g.w1[p] = Hits(Having(xs, i), a, b)
    BY <1>1, <2>1 DEF Gained
  <2>5. Hits(Having(xs, i), a, b + 1) = Hits(Having(xs, i), a, b) + (IF b + 1 \in Having(xs, i) THEN 1 ELSE 0)
    BY <1>3, HavingIs, HitsMore
  <2> QED  BY <2>1, <2>2, <2>3, <2>4, <2>5
<1>5. ASSUME NEW y \in 1..B
      PROVE  Hits({y}, a, b + 1) = Hits({y}, a, b) + (IF y - 1 = b THEN 1 ELSE 0)
  <2>0. PICK S \in SUBSET Nat : S = {y} /\ IsFiniteSet(S)
    <3>1. {y} \in SUBSET Nat
      OBVIOUS
    <3> QED  BY <3>1, FS_Singleton
  <2>1. Hits({y}, a, b + 1) = Hits({y}, a, b) + (IF b + 1 \in {y} THEN 1 ELSE 0)
    BY <2>0, HitsMore
  <2>2. b + 1 \in {y} <=> y - 1 = b
    OBVIOUS
  <2> QED  BY <2>1, <2>2
<1>6. ASSUME NEW p \in 1..Hidden * B
      PROVE  h.w2[p] = Hits({((p - 1) % B) + 1}, a, b + 1)
  <2>1. PICK y \in 1..B : y = ((p - 1) % B) + 1
    BY <1>1, HiddenIs, LabelIs
  <2>2. (p - 1) % B = y - 1
    <3>1. PICK k : k = (p - 1) % B
      OBVIOUS
    <3>2. k \in Int
      BY <1>1, <3>1
    <3> QED  BY <2>1, <3>1, <3>2
  <2>3. h.w2[p] = g.w2[p] + (IF y - 1 = b THEN 1 ELSE 0)
    BY <1>1, <1>2, <2>2 DEF Accumulated
  <2>4. g.w2[p] = Hits({y}, a, b)
    BY <1>1, <2>1 DEF Gained
  <2> QED  BY <1>5, <2>1, <2>3, <2>4
<1>7. ASSUME NEW k \in 1..B PROVE h.b2[k] = Hits({k}, a, b + 1)
  <2>1. h.b2[k] = g.b2[k] + (IF k - 1 = b THEN 1 ELSE 0)
    BY <1>2 DEF Accumulated
  <2>2. g.b2[k] = Hits({k}, a, b)
    BY <1>1 DEF Gained
  <2> QED  BY <1>5, <2>1, <2>2
<1> HIDE DEF h
<1>8. Gained(h, n, xs, a, b + 1)
  BY <1>1, <1>4, <1>6, <1>7 DEF Gained
<1> QED  BY <1>8 DEF h
-----------------------------------------------------------------------------
(* All threads together: a pass adds each sample once.                     *)
More(w, k) == [w EXCEPT !.seen = @ + k]

LEMMA MoreIs ==
  ASSUME NEW w \in Weight, NEW k \in Nat, NEW l \in Nat
  PROVE  More(w, k) \in Weight /\ More(w, 0) = w /\ More(More(w, k), l) = More(w, k + l)
<1>1. w = [born |-> w.born, seen |-> w.seen] /\ w.born \in Nat \X Nat \X Nat /\ w.seen \in Nat
  BY DEF Weight
<1>2. ASSUME NEW x \in Weight, NEW i \in Nat PROVE More(x, i) = [born |-> x.born, seen |-> x.seen + i]
  BY DEF More, Weight
<1>3. PICK x : x = More(w, k)
  OBVIOUS
<1>4. x = [born |-> w.born, seen |-> w.seen + k]
  BY <1>2, <1>3
<1>5. x \in Weight
  BY <1>1, <1>4 DEF Weight
<1>6. More(x, l) = [born |-> w.born, seen |-> (w.seen + k) + l]
  BY <1>2, <1>4, <1>5
<1>7. (w.seen + k) + l = w.seen + (k + l) /\ w.seen + 0 = w.seen /\ k + l \in Nat
  BY <1>1
<1>8. More(w, k + l) = [born |-> w.born, seen |-> w.seen + (k + l)] /\ More(w, 0) = w
  BY <1>1, <1>2, <1>7
<1> QED  BY <1>3, <1>5, <1>6, <1>7, <1>8

Learns(m, n, xs, u) ==
  /\ \A p \in 1..n.in * Hidden : m.w1[p] = More(n.w1[p], Hits(Having(xs, (p - 1) \div Hidden), 0, u))
  /\ \A p \in 1..Hidden * n.out : m.w2[p] = More(n.w2[p], Hits({((p - 1) % n.out) + 1}, 0, u))
  /\ \A k \in 1..n.out : m.b2[k] = n.b2[k] + Hits({k}, 0, u)

LEMMA UpdatedAdds ==
  ASSUME NEW a \in Nat, NEW b \in Nat, NEW n \in Nets(a, b), NEW g \in Gradients(a, b)
  PROVE  /\ \A p \in 1..a * Hidden : Updated(n, g).w1[p] = More(n.w1[p], g.w1[p])
         /\ \A p \in 1..Hidden * b : Updated(n, g).w2[p] = More(n.w2[p], g.w2[p])
         /\ \A k \in 1..b : Updated(n, g).b2[k] = n.b2[k] + g.b2[k]
<1>1. /\ n = [in |-> n.in, out |-> n.out, w1 |-> n.w1, b1 |-> n.b1, w2 |-> n.w2, b2 |-> n.b2]
      /\ DOMAIN n.w1 = 1..a * Hidden /\ DOMAIN n.w2 = 1..Hidden * b /\ DOMAIN n.b2 = 1..b
  BY DEF Nets
<1>2. PICK w1, b1, w2, b2 :
        /\ w1 = [p \in DOMAIN n.w1 |-> [n.w1[p] EXCEPT !.seen = @ + g.w1[p]]]
        /\ b1 = [j \in DOMAIN n.b1 |-> n.b1[j] + g.b1[j]]
        /\ w2 = [p \in DOMAIN n.w2 |-> [n.w2[p] EXCEPT !.seen = @ + g.w2[p]]]
        /\ b2 = [k \in DOMAIN n.b2 |-> n.b2[k] + g.b2[k]]
  OBVIOUS
<1>3. Updated(n, g) = [n EXCEPT !.w1 = w1, !.b1 = b1, !.w2 = w2, !.b2 = b2]
  BY <1>2 DEF Updated
<1>4. Updated(n, g).w1 = w1 /\ Updated(n, g).w2 = w2 /\ Updated(n, g).b2 = b2
  <2>1. PICK x : x = [n EXCEPT !.w1 = w1, !.b1 = b1, !.w2 = w2, !.b2 = b2]
    OBVIOUS
  <2>2. x.w1 = w1 /\ x.w2 = w2 /\ x.b2 = b2
    BY ONLY <1>1, <2>1
  <2> QED  BY <1>3, <2>1, <2>2
<1> QED  BY <1>1, <1>2, <1>4 DEF More

LEMMA BatchLearns ==
  ASSUME NEW a \in Nat, NEW b \in Nat, b >= 1, NEW n \in Nets(a, b), NEW N \in Nat,
         NEW xs, DOMAIN xs = 1..N, NEW sums \in [1..NumThreads -> Gradients(a, b)],
         \A k \in 1..NumThreads : Gained(sums[k], n, xs, Upto(N, k - 1), Upto(N, k))
  PROVE  Learns(FoldLeft(Updated, n, sums), n, xs, N)
<1>0. PICK T \in Nat : T = NumThreads /\ T >= 1
  BY HiddenIs
<1>1. PICK V : V = Nets(a, b)
  OBVIOUS
<1>2. DOMAIN sums = 1..T /\ \A i \in 1..T : sums[i] \in Gradients(a, b)
  BY <1>0
<1>3. n \in V /\ \A m \in V, i \in 1..T : Updated(m, sums[i]) \in V
  BY <1>1, <1>2, UpdatedIs
<1>4. PICK h : EachThread!Steps(h, V, n, T, sums) /\ h[T] = EachThread!Fold(n, sums)
  BY <1>2, <1>3, EachThread!FoldSteps
<1>5. EachThread!Fold(n, sums) = FoldLeft(Updated, n, sums)
  BY DEF EachThread!Fold, EachThread!FoldLeft, EachThread!MapThenFoldSet, EachThread!Max,
         FoldLeft, MapThenFoldSet, Max
<1>6. /\ h \in [0..T -> V] /\ h[0] = n
      /\ \A k \in 1..T : h[k] = Updated(h[k - 1], sums[k])
  BY <1>4 DEF EachThread!Steps
<1>7. /\ n.in = a /\ n.out = b
      /\ \A p \in 1..a * Hidden : n.w1[p] \in Weight
      /\ \A p \in 1..Hidden * b : n.w2[p] \in Weight
      /\ \A k \in 1..b : n.b2[k] \in Nat
  BY DEF Nets
<1>8. /\ \A k \in 0..T : Upto(N, k) \in Nat
      /\ Upto(N, 0) = 0 /\ Upto(N, T) = N
      /\ \A k \in 0..T - 1 : Upto(N, k) <= Upto(N, k + 1)
  <2>1. \A k \in 0..T : Upto(N, k) \in 0..N
    BY <1>0, SharesOfThreads
  <2>2. Upto(N, 0) = 0 /\ Upto(N, T) = N /\ \A k \in 0..T - 1 : Upto(N, k) <= Upto(N, k + 1)
    BY <1>0, SharesOfThreads
  <2>3. \A k \in 0..T : Upto(N, k) \in Nat
    BY <2>1
  <2> QED  BY <2>2, <2>3
<1>9. \A p \in 1..Hidden * b : ((p - 1) % b) + 1 \in Nat
  BY HiddenIs, LabelIs
<1>10. ASSUME NEW S \in SUBSET Nat, IsFiniteSet(S), NEW k \in 0..T, k < T
       PROVE  /\ Hits(S, 0, Upto(N, k)) \in Nat /\ Hits(S, Upto(N, k), Upto(N, k + 1)) \in Nat
              /\ Hits(S, 0, Upto(N, k + 1)) = Hits(S, 0, Upto(N, k)) + Hits(S, Upto(N, k), Upto(N, k + 1))
  <2>1. PICK x \in Nat, y \in Nat : x = Upto(N, k) /\ y = Upto(N, k + 1) /\ x <= y /\ 0 <= x
    <3>1. k \in 0..T - 1 /\ k + 1 \in 0..T
      BY <1>10
    <3> QED  BY <1>8, <3>1
  <2> QED  BY <1>10, <2>1, HitsJoin
<1>11. \A i : Having(xs, i) \in SUBSET Nat /\ IsFiniteSet(Having(xs, i))
  BY HavingIs
<1>12. \A y \in Nat : {y} \in SUBSET Nat /\ IsFiniteSet({y})
  BY FS_Singleton
<1> DEFINE S == {k \in 0..T : Learns(h[k], n, xs, Upto(N, k))}
<1>13. 0 \in S
  <2>1. \A Q \in SUBSET Nat : IsFiniteSet(Q) => Hits(Q, 0, 0) = 0
    BY HitsMore
  <2>2. ASSUME NEW p \in 1..a * Hidden
        PROVE  h[0].w1[p] = More(n.w1[p], Hits(Having(xs, (p - 1) \div Hidden), 0, 0))
    <3>1. Hits(Having(xs, (p - 1) \div Hidden), 0, 0) = 0
      BY <1>11, <2>1
    <3>2. n.w1[p] \in Weight
      BY <1>7
    <3> QED  BY <1>6, <3>1, <3>2, MoreIs
  <2>3. ASSUME NEW p \in 1..Hidden * b
        PROVE  h[0].w2[p] = More(n.w2[p], Hits({((p - 1) % b) + 1}, 0, 0))
    <3>1. Hits({((p - 1) % b) + 1}, 0, 0) = 0
      BY <1>9, <1>12, <2>1
    <3>2. n.w2[p] \in Weight
      BY <1>7
    <3> QED  BY <1>6, <3>1, <3>2, MoreIs
  <2>4. ASSUME NEW k \in 1..b PROVE h[0].b2[k] = n.b2[k] + Hits({k}, 0, 0)
    <3>1. k \in Nat
      OBVIOUS
    <3>2. Hits({k}, 0, 0) = 0
      BY <1>12, <2>1, <3>1
    <3>3. n.b2[k] \in Nat
      BY <1>7
    <3> QED  BY <1>6, <3>2, <3>3
  <2> QED  BY <1>7, <1>8, <2>2, <2>3, <2>4 DEF Learns
<1>14. ASSUME NEW k \in 0..T, k < T, k \in S PROVE k + 1 \in S
  <2>1. k + 1 \in 1..T /\ (k + 1) - 1 = k /\ k + 1 \in 0..T /\ k < T
    BY <1>14
  <2>2. PICK m, g : m = h[k] /\ g = sums[k + 1]
    OBVIOUS
  <2>3. m \in Nets(a, b) /\ g \in Gradients(a, b) /\ h[k + 1] = Updated(m, g)
    BY <1>1, <1>2, <1>6, <2>1, <2>2
  <2>4. Learns(m, n, xs, Upto(N, k))
    BY <1>14, <2>2
  <2>5. Gained(g, n, xs, Upto(N, k), Upto(N, k + 1))
    BY <1>0, <2>1, <2>2
  <2>6. ASSUME NEW p \in 1..a * Hidden
        PROVE  h[k + 1].w1[p] = More(n.w1[p], Hits(Having(xs, (p - 1) \div Hidden), 0, Upto(N, k + 1)))
    <3>1. PICK Q : Q = Having(xs, (p - 1) \div Hidden)
      OBVIOUS
    <3>2. PICK x \in Nat, y \in Nat : /\ x = Hits(Q, 0, Upto(N, k)) /\ y = Hits(Q, Upto(N, k), Upto(N, k + 1))
                                      /\ Hits(Q, 0, Upto(N, k + 1)) = x + y
      BY <1>10, <1>11, <1>14, <3>1
    <3>3. h[k + 1].w1[p] = More(m.w1[p], g.w1[p])
      BY <2>3, UpdatedAdds
    <3>4. m.w1[p] = More(n.w1[p], x) /\ g.w1[p] = y
      BY <1>7, <2>4, <2>5, <3>1, <3>2 DEF Learns, Gained
    <3> QED  BY <1>7, <3>1, <3>2, <3>3, <3>4, MoreIs
  <2>7. ASSUME NEW p \in 1..Hidden * b
        PROVE  h[k + 1].w2[p] = More(n.w2[p], Hits({((p - 1) % b) + 1}, 0, Upto(N, k + 1)))
    <3>1. PICK Q : Q = {((p - 1) % b) + 1}
      OBVIOUS
    <3>2. PICK x \in Nat, y \in Nat : /\ x = Hits(Q, 0, Upto(N, k)) /\ y = Hits(Q, Upto(N, k), Upto(N, k + 1))
                                      /\ Hits(Q, 0, Upto(N, k + 1)) = x + y
      BY <1>9, <1>10, <1>12, <1>14, <3>1
    <3>3. h[k + 1].w2[p] = More(m.w2[p], g.w2[p])
      BY <2>3, UpdatedAdds
    <3>4. m.w2[p] = More(n.w2[p], x) /\ g.w2[p] = y
      BY <1>7, <2>4, <2>5, <3>1, <3>2 DEF Learns, Gained
    <3> QED  BY <1>7, <3>1, <3>2, <3>3, <3>4, MoreIs
  <2>8. ASSUME NEW l \in 1..b PROVE h[k + 1].b2[l] = n.b2[l] + Hits({l}, 0, Upto(N, k + 1))
    <3>1. PICK Q : Q = {l}
      OBVIOUS
    <3>2. PICK x \in Nat, y \in Nat : /\ x = Hits(Q, 0, Upto(N, k)) /\ y = Hits(Q, Upto(N, k), Upto(N, k + 1))
                                      /\ Hits(Q, 0, Upto(N, k + 1)) = x + y
      <4>1. l \in Nat
        OBVIOUS
      <4>2. Q \in SUBSET Nat /\ IsFiniteSet(Q)
        BY <1>12, <3>1, <4>1
      <4> QED  BY <1>10, <2>1, <4>2
    <3>3. h[k + 1].b2[l] = m.b2[l] + g.b2[l]
      BY <2>3, UpdatedAdds
    <3>4. m.b2[l] = n.b2[l] + x /\ g.b2[l] = y
      BY <1>7, <2>4, <2>5, <3>1, <3>2 DEF Learns, Gained
    <3>5. n.b2[l] \in Nat
      BY <1>7
    <3> QED  BY <3>1, <3>2, <3>3, <3>4, <3>5
  <2>9. Learns(h[k + 1], n, xs, Upto(N, k + 1))
    BY <1>7, <2>6, <2>7, <2>8 DEF Learns
  <2> QED  BY <2>1, <2>9
<1>15. T \in S
  <2>1. T \in 0..T
    OBVIOUS
  <2> HIDE DEF S
  <2> QED  BY <1>13, <1>14, <2>1, UpTo
<1> QED  BY <1>4, <1>5, <1>8, <1>15
-----------------------------------------------------------------------------
(* Rows.  The row of word i is row i - 1 of the first array, that of chunk *)
(* c is column c - 1 of the second.                                        *)
FirstWords(v, k) == {v.words[i] : i \in 1..k}

RowAt(n, i) == [j \in 1..Hidden |-> At(n.w1, (i - 1) * Hidden + j - 1)]

LEMMA InputRowsAre ==
  ASSUME NEW v \in Vocabs, NEW n, NetOK(n), NEW k \in Nat, k = Smaller(n.in, Len(v.words))
  PROVE  /\ k <= n.in /\ k <= Len(v.words)
         /\ DOMAIN InputRows(v, n) = FirstWords(v, k)
         /\ \A i \in 1..k : InputRows(v, n)[v.words[i]] = RowAt(n, i)
<1>1. PICK a \in Nat, b \in Nat : a = n.in /\ b = Len(v.words)
  BY VocabParts DEF NetOK
<1>2. k <= a /\ k <= b
  BY <1>1 DEF Smaller
<1>3. \A i \in 1..k : v.index[v.words[i]] = i - 1
  <2>1. \A i \in 1..k : i \in 1..b
    BY <1>2
  <2> QED  BY <1>1, <2>1, VocabParts
<1>4. InputRows(v, n) = [w \in {v.words[i] : i \in 1..k} |->
        [j \in 1..Hidden |-> At(n.w1, v.index[w] * Hidden + j - 1)]]
  BY DEF InputRows
<1>5. ASSUME NEW i \in 1..k
      PROVE  InputRows(v, n)[v.words[i]] = [j \in 1..Hidden |-> At(n.w1, (i - 1) * Hidden + j - 1)]
  <2>1. v.words[i] \in {v.words[e] : e \in 1..k}
    OBVIOUS
  <2>2. InputRows(v, n)[v.words[i]] = [j \in 1..Hidden |-> At(n.w1, v.index[v.words[i]] * Hidden + j - 1)]
    BY <1>4, <2>1
  <2> QED  BY <1>3, <2>2
<1> QED  BY <1>1, <1>2, <1>4, <1>5 DEF FirstWords, RowAt

(* Words keep their rows when words and inputs are added; what a new word  *)
(* gets has learned nothing.                                               *)
LEMMA InputRowsGrow ==
  ASSUME NEW v \in Vocabs, NEW u \in Vocabs, NEW n, NetOK(n), NEW m, NetOK(m),
         Len(v.words) <= Len(u.words), \A i \in DOMAIN v.words : u.words[i] = v.words[i],
         n.in <= m.in,
         \A i \in 0..m.in - 1, j \in 0..Hidden - 1 :
           /\ i < n.in => At(m.w1, i * Hidden + j) = At(n.w1, i * Hidden + j)
           /\ n.in <= i \/ Len(v.words) <= i => At(m.w1, i * Hidden + j).seen = 0
  PROVE  /\ Net!Extends(InputRows(u, m), InputRows(v, n))
         /\ \A w \in DOMAIN InputRows(u, m) \ DOMAIN InputRows(v, n) : Net!Unlearned(InputRows(u, m)[w])
<1>1. PICK a \in Nat, b \in Nat, c \in Nat, d \in Nat :
        a = n.in /\ b = m.in /\ c = Len(v.words) /\ d = Len(u.words) /\ a <= b /\ c <= d
  BY VocabParts DEF NetOK
<1>2. PICK k \in Nat, l \in Nat : /\ k = Smaller(a, c) /\ l = Smaller(b, d) /\ k <= l
                                  /\ k <= a /\ k <= c /\ l <= b /\ l <= d
                                  /\ (k = a \/ k = c)
  BY <1>1 DEF Smaller
<1>3. PICK R, Q : R = InputRows(v, n) /\ Q = InputRows(u, m)
  OBVIOUS
<1>4. /\ DOMAIN R = {v.words[i] : i \in 1..k} /\ DOMAIN Q = {u.words[i] : i \in 1..l}
      /\ \A i \in 1..k : R[v.words[i]] = [j \in 1..Hidden |-> At(n.w1, (i - 1) * Hidden + j - 1)]
      /\ \A i \in 1..l : Q[u.words[i]] = [j \in 1..Hidden |-> At(m.w1, (i - 1) * Hidden + j - 1)]
  <2>1. k = Smaller(n.in, Len(v.words)) /\ l = Smaller(m.in, Len(u.words))
    BY <1>1, <1>2
  <2>2. DOMAIN R = FirstWords(v, k) /\ \A i \in 1..k : R[v.words[i]] = RowAt(n, i)
    BY <1>3, <2>1, InputRowsAre
  <2>3. DOMAIN Q = FirstWords(u, l) /\ \A i \in 1..l : Q[u.words[i]] = RowAt(m, i)
    BY <1>3, <2>1, InputRowsAre
  <2> QED  BY <2>2, <2>3 DEF FirstWords, RowAt
<1>5. \A i \in 1..k : i \in 1..l /\ u.words[i] = v.words[i]
  <2>1. DOMAIN v.words = 1..c
    BY <1>1, VocabParts
  <2>2. \A i \in 1..k : i \in 1..c /\ i \in 1..l
    BY <1>2
  <2> QED  BY <2>1, <2>2
<1>6. ASSUME NEW i \in 1..l, NEW j \in 1..Hidden
      PROVE  /\ i <= k => At(m.w1, (i - 1) * Hidden + j - 1) = At(n.w1, (i - 1) * Hidden + j - 1)
             /\ k < i => At(m.w1, (i - 1) * Hidden + j - 1).seen = 0
  <2>1. i - 1 \in 0..b - 1 /\ j - 1 \in 0..Hidden - 1
    BY <1>2, HiddenIs
  <2>2. PICK p, q : p = i - 1 /\ q = j - 1 /\ p \in 0..b - 1 /\ q \in 0..Hidden - 1
    BY <2>1
  <2>3. /\ p < a => At(m.w1, p * Hidden + q) = At(n.w1, p * Hidden + q)
        /\ a <= p \/ c <= p => At(m.w1, p * Hidden + q).seen = 0
    BY <1>1, <2>2
  <2>4. (i - 1) * Hidden + j - 1 = p * Hidden + q
    <3>1. PICK s \in Int : s = (i - 1) * Hidden
      BY HiddenIs
    <3>2. p * Hidden = s
      BY <2>2, <3>1
    <3>3. (s + j) - 1 = s + (j - 1)
      BY HiddenIs, <3>1
    <3> QED  BY <2>2, <3>1, <3>2, <3>3
  <2>5. (i <= k => p < a) /\ (k < i => a <= p \/ c <= p)
    BY <1>2, <2>2
  <2> QED  BY <2>3, <2>4, <2>5
<1>7. ASSUME NEW w \in DOMAIN R PROVE w \in DOMAIN Q /\ Q[w] = R[w]
  <2>1. PICK i \in 1..k : w = v.words[i]
    BY <1>4
  <2>2. i \in 1..l /\ w = u.words[i] /\ i <= k
    BY <1>5, <2>1
  <2>3. R[w] = [j \in 1..Hidden |-> At(n.w1, (i - 1) * Hidden + j - 1)]
    BY <1>4, <2>1
  <2>4. Q[w] = [j \in 1..Hidden |-> At(m.w1, (i - 1) * Hidden + j - 1)]
    BY <1>4, <2>2
  <2>5. \A j \in 1..Hidden : At(m.w1, (i - 1) * Hidden + j - 1) = At(n.w1, (i - 1) * Hidden + j - 1)
    BY <1>6, <2>2
  <2> QED  BY <1>4, <2>2, <2>3, <2>4, <2>5
<1>8. ASSUME NEW w \in DOMAIN Q \ DOMAIN R PROVE Net!Unlearned(Q[w])
  <2>1. PICK i \in 1..l : w = u.words[i]
    BY <1>4
  <2>2. k < i
    <3>1. SUFFICES ASSUME i \in 1..k PROVE FALSE
      OBVIOUS
    <3> QED  BY <1>4, <1>5, <1>8, <2>1, <3>1
  <2>3. Q[w] = [j \in 1..Hidden |-> At(m.w1, (i - 1) * Hidden + j - 1)]
    BY <1>4, <2>1
  <2>4. \A j \in 1..Hidden : At(m.w1, (i - 1) * Hidden + j - 1).seen = 0
    BY <1>6, <2>2
  <2> QED  BY <2>3, <2>4 DEF Net!Unlearned
<1> QED  BY <1>3, <1>7, <1>8 DEF Net!Extends

(* Chunks keep their rows in the array that is laid out anew.              *)
LEMMA OutputRowsGrow ==
  ASSUME NEW n, NetOK(n), NEW size \in Nat, NEW m, m = ExpandOutputs(n, size)
  PROVE  /\ Net!Extends(OutputRows(m), OutputRows(n))
         /\ \A c \in DOMAIN OutputRows(m) \ DOMAIN OutputRows(n) : Net!Unlearned(OutputRows(m)[c])
<1>1. PICK a \in Nat, b \in Nat : a = n.out /\ b = m.out /\ a <= b
  BY OutputsExpand DEF NetOK, Larger
<1>2. /\ \A k \in 1..b : m.b2[k] = IF k <= a THEN n.b2[k] ELSE 0
      /\ \A j \in 0..Hidden - 1, k \in 0..b - 1 :
           At(m.w2, j * b + k) = IF k < a THEN At(n.w2, j * a + k) ELSE Fresh(2, j, k)
  <2>1. /\ \A k \in 1..m.out : m.b2[k] = IF k <= n.out THEN n.b2[k] ELSE 0
        /\ \A j \in 0..Hidden - 1, k \in 0..m.out - 1 :
             At(m.w2, j * m.out + k) = IF k < n.out THEN At(n.w2, j * n.out + k) ELSE Fresh(2, j, k)
    BY OutputsExpand, ZenonT(60)
  <2> QED  BY <1>1, <2>1
<1>3. PICK R, Q : R = OutputRows(n) /\ Q = OutputRows(m)
  OBVIOUS
<1>4. /\ R = [c \in 1..a |-> [j \in 0..Hidden |-> IF j = 0 THEN [born |-> <<3, c>>, seen |-> n.b2[c]]
                                                  ELSE At(n.w2, (j - 1) * a + c - 1)]]
      /\ Q = [c \in 1..b |-> [j \in 0..Hidden |-> IF j = 0 THEN [born |-> <<3, c>>, seen |-> m.b2[c]]
                                                  ELSE At(m.w2, (j - 1) * b + c - 1)]]
  BY <1>1, <1>3 DEF OutputRows
<1>5. ASSUME NEW j \in 0..Hidden, j # 0, NEW c \in 1..b
      PROVE  /\ c <= a => At(m.w2, (j - 1) * b + c - 1) = At(n.w2, (j - 1) * a + c - 1)
             /\ a < c => At(m.w2, (j - 1) * b + c - 1).seen = 0
  <2>1. j - 1 \in 0..Hidden - 1 /\ c - 1 \in 0..b - 1
    BY <1>5, HiddenIs
  <2>2. PICK p, q : p = j - 1 /\ q = c - 1 /\ p \in 0..Hidden - 1 /\ q \in 0..b - 1
    BY <2>1
  <2>3. At(m.w2, p * b + q) = IF q < a THEN At(n.w2, p * a + q) ELSE Fresh(2, p, q)
    BY <1>2, <2>2
  <2>4. (j - 1) * b + c - 1 = p * b + q /\ (j - 1) * a + c - 1 = p * a + q
    <3>1. PICK s \in Int, t \in Int : s = p * b /\ t = p * a
      BY <2>2
    <3>2. (s + c) - 1 = s + (c - 1) /\ (t + c) - 1 = t + (c - 1)
      BY <3>1
    <3> QED  BY <2>2, <3>1, <3>2
  <2>5. (c <= a => q < a) /\ (a < c => ~(q < a))
    BY <2>2
  <2> QED  BY <2>3, <2>4, <2>5 DEF Fresh
<1>6. ASSUME NEW c \in 1..a PROVE c \in 1..b /\ Q[c] = R[c]
  <2>1. c \in 1..b /\ c <= a
    BY <1>1
  <2>2. m.b2[c] = n.b2[c]
    BY <1>2, <2>1
  <2>3. \A j \in 0..Hidden : j # 0 => At(m.w2, (j - 1) * b + c - 1) = At(n.w2, (j - 1) * a + c - 1)
    BY <1>5, <2>1
  <2> QED  BY <1>4, <2>1, <2>2, <2>3
<1>7. ASSUME NEW c \in 1..b, c \notin 1..a PROVE Net!Unlearned(Q[c])
  <2>1. a < c
    BY <1>7
  <2>2. m.b2[c] = 0
    BY <1>2, <2>1
  <2>3. \A j \in 0..Hidden : j # 0 => At(m.w2, (j - 1) * b + c - 1).seen = 0
    BY <1>5, <2>1
  <2> QED  BY <1>4, <2>2, <2>3 DEF Net!Unlearned
<1>8. DOMAIN R = 1..a /\ DOMAIN Q = 1..b
  BY <1>4
<1> QED  BY <1>3, <1>6, <1>7, <1>8 DEF Net!Extends
-----------------------------------------------------------------------------
(* Inputs that are ahead of the vocabulary have learned nothing.           *)
Spare(v, n) ==
  \A i \in 0..n.in - 1, j \in 0..Hidden - 1 :
    Len(v.words) <= i => At(n.w1, i * Hidden + j).seen = 0

StoreOK(v, n, chunks) ==
  Known(v, chunks) /\ Spare(v, n) /\ n.out = Larger(1, Len(chunks))

(* More words, and inputs for them.                                        *)
LEMMA WideRows ==
  ASSUME NEW v \in Vocabs, NEW u \in Vocabs, NEW n, NetOK(n), NEW size \in Nat, Spare(v, n),
         Len(v.words) <= Len(u.words), \A i \in DOMAIN v.words : u.words[i] = v.words[i],
         NEW m, m = ExpandInputs(n, size)
  PROVE  /\ NetOK(m) /\ m.out = n.out /\ OutputRows(m) = OutputRows(n) /\ Spare(u, m)
         /\ Net!Extends(InputRows(u, m), InputRows(v, n))
         /\ \A w \in DOMAIN InputRows(u, m) \ DOMAIN InputRows(v, n) : Net!Unlearned(InputRows(u, m)[w])
<1>1. /\ NetOK(m) /\ m.out = n.out /\ m.w2 = n.w2 /\ m.b2 = n.b2
      /\ m.in = Larger(n.in, size)
      /\ \A i \in 0..m.in - 1, j \in 0..Hidden - 1 :
           At(m.w1, i * Hidden + j) = IF i < n.in THEN At(n.w1, i * Hidden + j) ELSE Fresh(1, i, j)
  BY InputsExpand
<1>2. PICK a \in Nat, b \in Nat, c \in Nat, d \in Nat :
        a = n.in /\ b = m.in /\ c = Len(v.words) /\ d = Len(u.words) /\ a <= b /\ c <= d
  <2>1. PICK a \in Nat, b \in Nat : a = n.in /\ b = m.in
    BY <1>1 DEF NetOK
  <2>2. a <= b
    BY <1>1, <2>1 DEF Larger
  <2>3. PICK c \in Nat, d \in Nat : c = Len(v.words) /\ d = Len(u.words)
    BY VocabParts
  <2>4. c <= d
    BY <2>3
  <2> QED  BY <2>1, <2>2, <2>3, <2>4
<1>3. ASSUME NEW i \in 0..b - 1, NEW j \in 0..Hidden - 1
      PROVE  /\ i < a => At(m.w1, i * Hidden + j) = At(n.w1, i * Hidden + j)
             /\ a <= i \/ c <= i => At(m.w1, i * Hidden + j).seen = 0
  <2>1. At(m.w1, i * Hidden + j) = IF i < a THEN At(n.w1, i * Hidden + j) ELSE Fresh(1, i, j)
    BY <1>1, <1>2
  <2>2. Fresh(1, i, j).seen = 0
    BY DEF Fresh
  <2>3. i < a /\ c <= i => At(n.w1, i * Hidden + j).seen = 0
    <3>1. i < a => i \in 0..a - 1
      BY <1>2
    <3> QED  BY <1>2, <3>1 DEF Spare
  <2>4. a <= i => ~(i < a)
    BY <1>2
  <2> QED  BY <2>1, <2>2, <2>3, <2>4
<1>4. Spare(u, m)
  <2>1. \A i \in 0..b - 1 : d <= i => c <= i
    BY <1>2
  <2> QED  BY <1>2, <1>3, <2>1 DEF Spare
<1>5. OutputRows(m) = OutputRows(n)
  BY <1>1 DEF OutputRows
<1>6. n.in <= m.in
  BY <1>2
<1>7. \A i \in 0..m.in - 1, j \in 0..Hidden - 1 :
        /\ i < n.in => At(m.w1, i * Hidden + j) = At(n.w1, i * Hidden + j)
        /\ n.in <= i \/ Len(v.words) <= i => At(m.w1, i * Hidden + j).seen = 0
  BY <1>2, <1>3
<1> QED  BY <1>1, <1>4, <1>5, <1>6, <1>7, InputRowsGrow

(* What a store is loaded as when it is saved now.                         *)
LEMMA WideIsOK ==
  ASSUME NEW v \in Vocabs, NEW n, NetOK(n), NEW chunks, StoreOK(v, n, chunks),
         NEW size \in Nat, NEW m, m = ExpandInputs(n, size)
  PROVE  StoreOK(v, m, chunks)
<1>1. Len(v.words) \in Nat
  BY VocabParts
<1>2. Len(v.words) <= Len(v.words)
  BY <1>1
<1>3. m.out = n.out /\ Spare(v, m)
  BY <1>2, WideRows DEF StoreOK
<1> QED  BY <1>3 DEF StoreOK

LEMMA ExpandedAlready ==
  ASSUME NEW n, NetOK(n), NEW size \in Nat
  PROVE  ExpandInputs(ExpandInputs(n, size), size) = ExpandInputs(n, size)
<1>1. PICK m : m = ExpandInputs(n, size)
  OBVIOUS
<1>2. m.in = Larger(n.in, size)
  BY <1>1, InputsExpand
<1>3. size <= m.in
  BY <1>2 DEF Larger, NetOK
<1> QED  BY <1>1, <1>3 DEF ExpandInputs
-----------------------------------------------------------------------------
(* A pass, in the rows: each word's is learned once for every sample that  *)
(* has it, each chunk's once.                                              *)
RowOf(n, c) ==
  [j \in 0..Hidden |-> IF j = 0 THEN [born |-> <<3, c>>, seen |-> n.b2[c]]
                                ELSE At(n.w2, (j - 1) * n.out + c - 1)]

LEMMA RowLearns ==
  ASSUME NEW a \in Nat, NEW n, NetOK(n), n.in = a, NEW m, NetOK(m), m.in = a,
         NEW N \in Nat, NEW xs, DOMAIN xs = 1..N, Learns(m, n, xs, N), NEW i \in 1..a
  PROVE  RowAt(m, i) = Net!Learned(RowAt(n, i), Cardinality(Having(xs, i - 1)))
<1>1. ASSUME NEW j \in 1..Hidden
      PROVE  At(m.w1, (i - 1) * Hidden + j - 1) =
               More(At(n.w1, (i - 1) * Hidden + j - 1), Cardinality(Having(xs, i - 1)))
  <2>1. PICK k \in Nat, l \in Nat : k = i - 1 /\ l = j - 1 /\ k < a /\ l < Hidden
    BY HiddenIs
  <2>2. PICK p : p = k * Hidden + l + 1 /\ p \in 1..a * Hidden
    BY <2>1, HiddenIs, InArray
  <2>3. PICK q \in Nat : q = k * Hidden + l /\ q \div Hidden = k
    BY <2>1, HiddenIs, PlaceOf
  <2>4. p - 1 = q
    BY <2>2, <2>3
  <2>5. m.w1[p] = More(n.w1[p], Hits(Having(xs, (p - 1) \div Hidden), 0, N))
    BY <2>2 DEF Learns
  <2>6. Hits(Having(xs, k), 0, N) = Cardinality(Having(xs, k))
    <3>1. Having(xs, k) \in SUBSET (1..N)
      BY DEF Having
    <3> QED  BY <3>1, HitsAll
  <2>7. (i - 1) * Hidden + j - 1 = q
    <3>1. PICK s \in Int : s = k * Hidden
      BY <2>1, HiddenIs
    <3>2. (s + j) - 1 = s + (j - 1)
      BY HiddenIs, <3>1
    <3> QED  BY <2>1, <2>3, <3>1, <3>2
  <2>8. At(m.w1, q) = m.w1[p] /\ At(n.w1, q) = n.w1[p]
    <3>1. q + 1 = p
      BY <2>2, <2>3
    <3> QED  BY <3>1 DEF At
  <2> QED  BY <2>1, <2>3, <2>4, <2>5, <2>6, <2>7, <2>8
<1>2. PICK k : k = Cardinality(Having(xs, i - 1))
  OBVIOUS
<1>3. Net!Learned(RowAt(n, i), k) = [j \in 1..Hidden |-> More(At(n.w1, (i - 1) * Hidden + j - 1), k)]
  BY DEF Net!Learned, RowAt, More
<1> QED  BY <1>1, <1>2, <1>3 DEF RowAt

LEMMA LabelLearns ==
  ASSUME NEW N \in Nat, NEW n, NetOK(n), n.out = N, NEW m, NetOK(m), m.out = N,
         NEW xs, Learns(m, n, xs, N), NEW c \in 1..N
  PROVE  RowOf(m, c) = Net!Learned(RowOf(n, c), 1)
<1>0. N >= 1 /\ Hits({c}, 0, N) = 1
  BY HitsAll DEF NetOK
<1>1. ASSUME NEW j \in 0..Hidden, j # 0
      PROVE  At(m.w2, (j - 1) * N + c - 1) = More(At(n.w2, (j - 1) * N + c - 1), 1)
  <2>1. PICK k \in Nat, l \in Nat : k = j - 1 /\ l = c - 1 /\ k < Hidden /\ l < N /\ l + 1 = c
    BY <1>1, HiddenIs
  <2>2. PICK p : p = k * N + l + 1 /\ p \in 1..Hidden * N
    BY <1>0, <2>1, HiddenIs, InArray
  <2>3. PICK q \in Nat : q = k * N + l /\ q % N = l
    BY <1>0, <2>1, PlaceOf
  <2>4. p - 1 = q
    BY <2>2, <2>3
  <2>5. m.w2[p] = More(n.w2[p], Hits({((p - 1) % N) + 1}, 0, N))
    BY <2>2 DEF Learns
  <2>6. ((p - 1) % N) + 1 = c
    BY <2>1, <2>3, <2>4
  <2>7. (j - 1) * N + c - 1 = q
    <3>1. PICK s \in Int : s = k * N
      BY <2>1
    <3>2. (s + c) - 1 = s + (c - 1)
      BY <3>1
    <3> QED  BY <2>1, <2>3, <3>1, <3>2
  <2>8. At(m.w2, q) = m.w2[p] /\ At(n.w2, q) = n.w2[p]
    <3>1. q + 1 = p
      BY <2>2, <2>3
    <3> QED  BY <3>1 DEF At
  <2> QED  BY <1>0, <2>5, <2>6, <2>7, <2>8
<1>2. m.b2[c] = n.b2[c] + 1
  BY <1>0 DEF Learns
<1>3. PICK R, Q : R = RowOf(n, c) /\ Q = RowOf(m, c)
  OBVIOUS
<1>4. /\ R = [j \in 0..Hidden |-> IF j = 0 THEN [born |-> <<3, c>>, seen |-> n.b2[c]]
                                  ELSE At(n.w2, (j - 1) * N + c - 1)]
      /\ Q = [j \in 0..Hidden |-> IF j = 0 THEN [born |-> <<3, c>>, seen |-> m.b2[c]]
                                  ELSE At(m.w2, (j - 1) * N + c - 1)]
  BY <1>3 DEF RowOf
<1>5. Net!Learned(R, 1) = [j \in 0..Hidden |-> More(R[j], 1)]
  BY <1>4 DEF Net!Learned, More
<1>6. ASSUME NEW j \in 0..Hidden PROVE Q[j] = More(R[j], 1)
  <2>1. CASE j = 0
    <3>1. R[j] = [born |-> <<3, c>>, seen |-> n.b2[c]] /\ Q[j] = [born |-> <<3, c>>, seen |-> n.b2[c] + 1]
      BY <1>2, <1>4, <2>1
    <3> QED  BY <3>1 DEF More
  <2>2. CASE j # 0
    <3>1. R[j] = At(n.w2, (j - 1) * N + c - 1) /\ Q[j] = At(m.w2, (j - 1) * N + c - 1)
      BY <1>4, <2>2
    <3> QED  BY <1>1, <2>2, <3>1
  <2> QED  BY <2>1, <2>2
<1>7. Q = [j \in 0..Hidden |-> Q[j]]
  BY <1>4
<1> QED  BY <1>3, <1>5, <1>6, <1>7
-----------------------------------------------------------------------------
WordsOf(chunk) ==
  UNION {ToSet(t) \cup ToSet(Bigrams(t)) : t \in {Tokens(chunk.text)} \cup chunk.tags}

(* The vectors that a batch learns from.                                   *)
Vectors(v, chunks) ==
  [id \in DOMAIN chunks |-> ChunkVector(v, [chunks[id] EXCEPT !.text = Tokens(@)])]

(* The chunks that a word weighs in.                                       *)
Weighing(chunks, w) ==
  {c \in DOMAIN chunks : /\ w \in WordsOf(chunks[c])
                         /\ \E d \in DOMAIN chunks : w \in TokensOf(chunks[d])}

LEMMA VectorHas ==
  ASSUME NEW v \in Vocabs, NEW chunk \in StoredChunk, NEW i \in DOMAIN v.words
  PROVE  ChunkVector(v, [chunk EXCEPT !.text = Tokens(@)])[i] = 1
           <=> v.df[i] # 0 /\ v.words[i] \in WordsOf(chunk)
<1>1. PICK x : x = [chunk EXCEPT !.text = Tokens(@)]
  OBVIOUS
<1>2. x.text = Tokens(chunk.text) /\ x.tags = chunk.tags
  BY <1>1 DEF StoredChunk
<1>3. \A t : Vectorize(v, t)[i] # 0 <=> v.df[i] # 0 /\ v.words[i] \in ToSet(t) \cup ToSet(Bigrams(t))
  BY DEF Vectorize
<1>4. ChunkVector(v, x)[i] =
        IF \E t \in {Tokens(chunk.text)} \cup chunk.tags : Vectorize(v, t)[i] # 0 THEN 1 ELSE 0
  BY <1>2 DEF ChunkVector
<1>5. v.words[i] \in WordsOf(chunk) <=> \E t \in {Tokens(chunk.text)} \cup chunk.tags :
        v.words[i] \in ToSet(t) \cup ToSet(Bigrams(t))
  BY DEF WordsOf
<1> QED  BY <1>1, <1>3, <1>4, <1>5

LEMMA VectorsHave ==
  ASSUME NEW v \in Vocabs, NEW chunks \in Seq(StoredChunk), Known(v, chunks), NEW i \in 1..Len(v.words)
  PROVE  Having(Vectors(v, chunks), i - 1) = Weighing(chunks, v.words[i])
<1>1. i \in DOMAIN v.words /\ i \in Nat
  BY VocabParts
<1>2. \A c \in DOMAIN chunks : chunks[c] \in StoredChunk
  OBVIOUS
<1>3. PICK xs : xs = Vectors(v, chunks)
  OBVIOUS
<1>4. DOMAIN xs = DOMAIN chunks
  BY <1>3 DEF Vectors
<1>5. v.df[i] # 0 <=> \E d \in DOMAIN chunks : v.words[i] \in TokensOf(chunks[d])
  BY <1>1 DEF Known
<1>6. ASSUME NEW c \in DOMAIN chunks
      PROVE  xs[c][i] = 1 <=> v.words[i] \in WordsOf(chunks[c]) /\ v.df[i] # 0
  <2>1. xs[c] = ChunkVector(v, [chunks[c] EXCEPT !.text = Tokens(@)])
    BY <1>3 DEF Vectors
  <2>2. PICK chunk \in StoredChunk : chunk = chunks[c]
    BY <1>2
  <2> QED  BY <1>1, <2>1, <2>2, VectorHas
<1>7. (i - 1) + 1 = i
  BY <1>1
<1>8. Having(xs, i - 1) = {c \in DOMAIN chunks : xs[c][i] = 1}
  BY <1>4, <1>7 DEF Having
<1> QED  BY <1>3, <1>5, <1>6, <1>8 DEF Weighing

WordsLearned(rows, chunks) ==
  [w \in DOMAIN rows |-> Net!Learned(rows[w], Cardinality(Weighing(chunks, w)))]

LabelsLearned(rows) == [c \in DOMAIN rows |-> Net!Learned(rows[c], 1)]

LEMMA PassRows ==
  ASSUME NEW v \in Vocabs, NEW chunks \in Seq(StoredChunk), Known(v, chunks),
         NEW n, NetOK(n), n.in = Len(v.words), n.out = Len(chunks),
         NEW m, NetOK(m), m.in = n.in, m.out = n.out,
         Learns(m, n, Vectors(v, chunks), Len(chunks))
  PROVE  /\ InputRows(v, m) = WordsLearned(InputRows(v, n), chunks)
         /\ OutputRows(m) = LabelsLearned(OutputRows(n))
<1>1. PICK a \in Nat, N \in Nat : /\ a = n.in /\ N = Len(chunks) /\ a = Len(v.words)
                                  /\ DOMAIN chunks = 1..N
  BY LenProperties DEF NetOK
<1>2. PICK xs : xs = Vectors(v, chunks)
  OBVIOUS
<1>3. DOMAIN xs = 1..N
  BY <1>1, <1>2 DEF Vectors
<1>4. a = Smaller(n.in, Len(v.words)) /\ a = Smaller(m.in, Len(v.words))
  BY <1>1 DEF Smaller
<1>5. PICK R, Q : R = InputRows(v, n) /\ Q = InputRows(v, m)
  OBVIOUS
<1>6. DOMAIN R = FirstWords(v, a) /\ \A i \in 1..a : R[v.words[i]] = RowAt(n, i)
  BY <1>4, <1>5, InputRowsAre
<1>7. DOMAIN Q = FirstWords(v, a) /\ \A i \in 1..a : Q[v.words[i]] = RowAt(m, i)
  BY <1>4, <1>5, InputRowsAre
<1>8. ASSUME NEW i \in 1..a
      PROVE  RowAt(m, i) = Net!Learned(RowAt(n, i), Cardinality(Weighing(chunks, v.words[i])))
  <2>1. RowAt(m, i) = Net!Learned(RowAt(n, i), Cardinality(Having(xs, i - 1)))
    BY <1>1, <1>2, <1>3, RowLearns
  <2>2. Having(xs, i - 1) = Weighing(chunks, v.words[i])
    BY <1>1, <1>2, VectorsHave
  <2> QED  BY <2>1, <2>2
<1>9. ASSUME NEW w \in DOMAIN R PROVE Q[w] = Net!Learned(R[w], Cardinality(Weighing(chunks, w)))
  <2>1. PICK i \in 1..a : w = v.words[i]
    BY <1>6 DEF FirstWords
  <2> QED  BY <1>6, <1>7, <1>8, <2>1
<1>10. Q = [w \in DOMAIN Q |-> Q[w]]
  BY <1>5 DEF InputRows
<1>11. Q = [w \in DOMAIN R |-> Net!Learned(R[w], Cardinality(Weighing(chunks, w)))]
  BY <1>6, <1>7, <1>9, <1>10
<1>12. OutputRows(n) = [c \in 1..N |-> RowOf(n, c)] /\ OutputRows(m) = [c \in 1..N |-> RowOf(m, c)]
  BY <1>1 DEF OutputRows, RowOf
<1>13. \A c \in 1..N : RowOf(m, c) = Net!Learned(RowOf(n, c), 1)
  BY <1>1, <1>2, LabelLearns
<1>14. OutputRows(m) = [c \in DOMAIN OutputRows(n) |-> Net!Learned(OutputRows(n)[c], 1)]
  BY <1>12, <1>13
<1> QED  BY <1>5, <1>11, <1>14 DEF WordsLearned, LabelsLearned

ChunksMean(chunks) ==
  [c \in DOMAIN chunks |-> [words |-> WordsOf(chunks[c]), tokens |-> TokensOf(chunks[c])]]

LEMMA MeaningIs ==
  ASSUME NEW d, NEW v, NEW n
  PROVE  Meaning(d, v, n) = [chunks |-> ChunksMean(d.chunks), inputs |-> InputRows(v, n),
                             outputs |-> OutputRows(n)]
BY DEF Meaning, ChunksMean, WordsOf, TokensOf
-----------------------------------------------------------------------------
ShareOK(t, share, n, xs) ==
  /\ share.end = Upto(Len(xs), t + 1)
  /\ Upto(Len(xs), t) <= share.next /\ share.next <= share.end
  /\ share.done => share.next = share.end
  /\ Gained(share.sum, n, xs, Upto(Len(xs), t), share.next)

BatchOK(v, n, u, th) ==
  u.doing = "batch" =>
    /\ Len(v.words) = n.in /\ n.out = Len(u.inputs)
    /\ \A t \in 0..NumThreads - 1 : ShareOK(t, th[t], n, u.inputs)

UploadSees(v, n, d, u) ==
  IF u.doing = "nothing"
  THEN LoadedNet(d) = ExpandInputs(n, Len(v.words))
  ELSE d.chunks # <<>> /\ u.inputs = Vectors(v, d.chunks)

(* The words of the stored texts are known and counted, spare inputs and   *)
(* outputs have learned nothing, what would be loaded is what runs, and the*)
(* sums of each thread are those of the samples it has been through.       *)
MeaningInv ==
  /\ StoreOK(vocab, net, tables.chunks)
  /\ StoreOK(LoadedVocab(file), LoadedNet(file), file.chunks)
  /\ UploadSees(vocab, net, tables, upload)
  /\ BatchOK(vocab, net, upload, threads)

LEMMA NewNetUnlearned ==
  ASSUME NEW in \in Nat, in >= 1, NEW out \in Nat, out >= 1
  PROVE  /\ \A i \in 0..in - 1, j \in 0..Hidden - 1 : At(NewNet(in, out).w1, i * Hidden + j).seen = 0
         /\ \A c \in DOMAIN OutputRows(NewNet(in, out)) : Net!Unlearned(OutputRows(NewNet(in, out))[c])
<1>1. PICK n : n = NewNet(in, out)
  OBVIOUS
<1>2. /\ n.out = out
      /\ \A p \in 1..in * Hidden : n.w1[p].seen = 0
      /\ \A p \in 1..Hidden * out : n.w2[p].seen = 0
      /\ \A k \in 1..out : n.b2[k] = 0
  <2>1. /\ n.out = out
        /\ \A p \in 1..in * Hidden : n.w1[p] = Fresh(1, (p - 1) \div Hidden, (p - 1) % Hidden)
        /\ \A p \in 1..Hidden * out : n.w2[p] = Fresh(2, (p - 1) \div out, (p - 1) % out)
        /\ \A k \in 1..out : n.b2[k] = 0
    BY <1>1 DEF NewNet
  <2>2. \A l, x, y : Fresh(l, x, y).seen = 0
    BY DEF Fresh
  <2> QED  BY <2>1, <2>2
<1>3. ASSUME NEW i \in 0..in - 1, NEW j \in 0..Hidden - 1 PROVE At(n.w1, i * Hidden + j).seen = 0
  <2>1. i * Hidden + j + 1 \in 1..in * Hidden
    BY HiddenIs, InArray
  <2> QED  BY <1>2, <2>1 DEF At
<1>4. ASSUME NEW c \in 1..out PROVE Net!Unlearned(RowOf(n, c))
  <2>1. ASSUME NEW j \in 0..Hidden, j # 0 PROVE At(n.w2, (j - 1) * out + c - 1).seen = 0
    <3>1. PICK k \in Nat, l \in Nat : k = j - 1 /\ l = c - 1 /\ k < Hidden /\ l < out
      BY <2>1, HiddenIs
    <3>2. k * out + l + 1 \in 1..Hidden * out
      BY <3>1, HiddenIs, InArray
    <3>3. At(n.w2, k * out + l).seen = 0
      BY <1>2, <3>2 DEF At
    <3>4. (j - 1) * out + c - 1 = k * out + l
      <4>1. PICK s \in Int : s = k * out
        BY <3>1
      <4>2. (s + c) - 1 = s + (c - 1)
        BY <4>1
      <4> QED  BY <3>1, <4>1, <4>2
    <3> QED  BY <3>3, <3>4
  <2>2. n.b2[c] = 0
    BY <1>2
  <2>3. PICK R : R = RowOf(n, c)
    OBVIOUS
  <2>4. R = [j \in 0..Hidden |-> IF j = 0 THEN [born |-> <<3, c>>, seen |-> n.b2[c]]
                                 ELSE At(n.w2, (j - 1) * out + c - 1)]
    BY <1>2, <2>3 DEF RowOf
  <2>5. \A j \in 0..Hidden : R[j].seen = 0
    BY <2>1, <2>2, <2>4
  <2> QED  BY <2>3, <2>4, <2>5 DEF Net!Unlearned
<1>5. OutputRows(n) = [c \in 1..out |-> RowOf(n, c)]
  BY <1>2 DEF OutputRows, RowOf
<1> QED  BY <1>1, <1>3, <1>4, <1>5

LEMMA MeaningInit == Init => MeaningInv /\ Net!Init
<1> SUFFICES ASSUME Init PROVE MeaningInv /\ Net!Init
  OBVIOUS
<1>0. LearnInv
  BY LearnInvInit
<1>1. /\ tables = [chunks |-> <<>>, rows |-> <<>>, model |-> NoModel]
      /\ file = tables /\ vocab = LoadedVocab(tables) /\ net = LoadedNet(tables)
      /\ upload = Idle /\ threads = <<>>
  BY DEF Init
<1>2. PICK n : n = NewNet(1, 1)
  OBVIOUS
<1>3. NetOK(n) /\ n.in = 1 /\ n.out = 1
  BY <1>2, NewNetOK
<1>4. net = n
  <2>1. Larger(1, Len(tables.rows)) = 1 /\ Larger(1, Len(tables.chunks)) = 1 /\ Len(tables.rows) = 0
    BY <1>1 DEF Larger
  <2>2. ~IsModel(Sized(tables.model))
    BY <1>1, SizedNoModel
  <2>3. net = ExpandInputs(n, 0)
    BY <1>1, <1>2, <2>1, <2>2 DEF LoadedNet
  <2> QED  BY <1>3, <2>3 DEF ExpandInputs
<1>5. DOMAIN vocab.words = {} /\ Len(vocab.words) = 0
  <2>1. vocab.words = [i \in DOMAIN tables.rows |-> tables.rows[i].word]
    BY <1>1 DEF LoadedVocab
  <2>2. DOMAIN vocab.words = {}
    BY <1>1, <2>1
  <2>3. PICK k \in Nat : k = Len(vocab.words) /\ DOMAIN vocab.words = 1..k
    BY <1>0, VocabParts DEF LearnInv
  <2>4. k = 0
    <3>1. SUFFICES ASSUME k # 0 PROVE FALSE
      OBVIOUS
    <3>2. 1 \in 1..k
      BY <3>1
    <3> QED  BY <2>2, <2>3, <3>2
  <2> QED  BY <2>2, <2>3, <2>4
<1>6. tables.chunks = <<>> /\ DOMAIN tables.chunks = {} /\ Larger(1, Len(tables.chunks)) = 1
  BY <1>1 DEF Larger
<1>7. /\ \A i \in 0..0, j \in 0..Hidden - 1 : At(n.w1, i * Hidden + j).seen = 0
      /\ \A c \in DOMAIN OutputRows(n) : Net!Unlearned(OutputRows(n)[c])
  <2>1. 1 - 1 = 0 /\ 1 \in Nat /\ 1 >= 1
    OBVIOUS
  <2> QED  BY <1>2, <2>1, NewNetUnlearned
<1>8. StoreOK(vocab, net, tables.chunks)
  <2>1. Known(vocab, tables.chunks)
    BY <1>5, <1>6 DEF Known
  <2>2. Spare(vocab, net)
    <3>1. n.in - 1 = 0
      BY <1>3
    <3> QED  BY <1>4, <1>7, <3>1 DEF Spare
  <2> QED  BY <1>3, <1>4, <1>6, <2>1, <2>2 DEF StoreOK
<1>9. UploadSees(vocab, net, tables, upload)
  <2>1. ExpandInputs(net, Len(vocab.words)) = net
    BY <1>3, <1>4, <1>5 DEF ExpandInputs
  <2> QED  BY <1>1, <2>1 DEF UploadSees, Idle
<1>10. BatchOK(vocab, net, upload, threads)
  BY <1>1 DEF BatchOK, Idle
<1>11. MeaningInv
  BY <1>1, <1>8, <1>9, <1>10 DEF MeaningInv
<1>12. InputRows(vocab, net) = <<>>
  <2>1. Smaller(net.in, Len(vocab.words)) = 0
    BY <1>3, <1>4, <1>5 DEF Smaller
  <2>2. {vocab.words[i] : i \in 1..Smaller(net.in, Len(vocab.words))} = {}
    BY <2>1
  <2>3. PICK f : f = InputRows(vocab, net)
    OBVIOUS
  <2>4. f = [w \in DOMAIN f |-> f[w]] /\ DOMAIN f = {}
    BY <2>2, <2>3 DEF InputRows
  <2>5. f = <<>>
    BY ONLY <2>4
  <2> QED  BY <2>3, <2>5
<1>13. ChunksMean(tables.chunks) = <<>>
  BY <1>6 DEF ChunksMean
<1>14. Net!Init
  <2>1. PICK x : x = Meaning(tables, vocab, net)
    OBVIOUS
  <2>2. x.chunks = <<>> /\ x.inputs = <<>> /\ x.outputs = OutputRows(n)
    BY <1>4, <1>12, <1>13, <2>1, MeaningIs
  <2>3. Meaning(file, LoadedVocab(file), LoadedNet(file)) = x
    BY <1>1, <2>1
  <2> QED  BY <1>7, <2>1, <2>2, <2>3 DEF Net!Init
<1> QED  BY <1>11, <1>14
-----------------------------------------------------------------------------
(* Steps that change nothing of what the arrays mean.                      *)
LEMMA MeaningStays ==
  ASSUME vocab' = vocab, net' = net, file' = file, tables'.chunks = tables.chunks
  PROVE  UNCHANGED Net!vars
<1>1. Meaning(tables', vocab, net) = Meaning(tables, vocab, net)
  BY MeaningIs
<1> QED  BY <1>1 DEF Net!vars

LEMMA InputsAre ==
  ASSUME LearnInv, MeaningInv, upload.doing # "nothing"
  PROVE  /\ tables.chunks \in Seq(StoredChunk) /\ upload.inputs = Vectors(vocab, tables.chunks)
         /\ Len(upload.inputs) \in Nat /\ Len(upload.inputs) >= 1
         /\ DOMAIN upload.inputs = 1..Len(upload.inputs)
         /\ Len(upload.inputs) = Len(tables.chunks) /\ net.out = Len(upload.inputs)
<1>1. /\ tables.chunks \in Seq(StoredChunk) /\ tables.chunks # <<>>
      /\ upload.inputs = Vectors(vocab, tables.chunks)
      /\ net.out = Larger(1, Len(tables.chunks))
  BY DEF LearnInv, TablesOK, MeaningInv, UploadSees, StoreOK
<1>2. PICK N \in Nat : N = Len(upload.inputs) /\ DOMAIN upload.inputs = 1..N
  BY UploadParts DEF LearnInv
<1>3. PICK k \in Nat : k = Len(tables.chunks) /\ DOMAIN tables.chunks = 1..k
  BY <1>1, LenProperties
<1>4. k >= 1
  <2>1. k # 0
    BY <1>1, <1>3, EmptySeq
  <2> QED  BY <2>1
<1>5. 1..N = 1..k
  BY <1>1, <1>2, <1>3 DEF Vectors
<1>6. N = k
  <2>1. k \in 1..N
    BY <1>4, <1>5
  <2>2. N \in 1..k
    BY <1>5, <2>1
  <2> QED  BY <2>1, <2>2
<1>7. net.out = k
  BY <1>1, <1>3, <1>4 DEF Larger
<1> QED  BY <1>1, <1>2, <1>3, <1>4, <1>6, <1>7

LEMMA SkipBatchMeans == LearnInv /\ MeaningInv /\ SkipBatch => MeaningInv' /\ UNCHANGED Net!vars
<1> SUFFICES ASSUME LearnInv, MeaningInv, SkipBatch PROVE MeaningInv' /\ UNCHANGED Net!vars
  OBVIOUS
<1>1. /\ upload.doing = "epochs" /\ upload' = [upload EXCEPT !.left = @ - 1]
      /\ vocab' = vocab /\ net' = net /\ tables' = tables /\ file' = file /\ threads' = threads
  BY DEF SkipBatch
<1>2. upload'.doing = "epochs" /\ upload'.inputs = upload.inputs
  BY <1>1, UploadParts DEF LearnInv
<1> QED  BY <1>1, <1>2, MeaningStays DEF MeaningInv, UploadSees, BatchOK

LEMMA EndThreadMeans ==
  ASSUME LearnInv, MeaningInv, NEW t \in DOMAIN threads, EndThread(t)
  PROVE  MeaningInv' /\ UNCHANGED Net!vars
<1>1. /\ upload.doing = "batch" /\ threads[t].next = threads[t].end
      /\ threads' = [threads EXCEPT ![t].done = TRUE]
      /\ vocab' = vocab /\ net' = net /\ tables' = tables /\ file' = file /\ upload' = upload
  BY DEF EndThread
<1>2. /\ threads \in [0..NumThreads - 1 -> Share(net, upload)]
      /\ \A u \in 0..NumThreads - 1 : ShareOK(u, threads[u], net, upload.inputs)
  BY <1>1 DEF LearnInv, ThreadsOK, MeaningInv, BatchOK
<1>3. ASSUME NEW u \in 0..NumThreads - 1 PROVE ShareOK(u, threads'[u], net, upload.inputs)
  <2>1. ShareOK(u, threads[u], net, upload.inputs) /\ threads[u] \in Share(net, upload)
    BY <1>2
  <2>2. CASE u = t
    <3>1. PICK s \in Share(net, upload) : s = threads[u]
      BY <2>1
    <3>2. threads'[u] = [s EXCEPT !.done = TRUE]
      BY <1>1, <1>2, <2>2, <3>1
    <3>3. PICK x : x = [s EXCEPT !.done = TRUE]
      OBVIOUS
    <3>4. x.next = s.next /\ x.end = s.end /\ x.sum = s.sum /\ s.next = s.end
      BY <1>1, <2>2, <3>1, <3>3 DEF Share
    <3> QED  BY <2>1, <3>1, <3>2, <3>3, <3>4 DEF ShareOK
  <2>3. CASE u # t
    BY <1>1, <1>2, <2>1, <2>3
  <2> QED  BY <2>2, <2>3
<1> QED  BY <1>1, <1>3, MeaningStays DEF MeaningInv, UploadSees, BatchOK

LEMMA StartBatchMeans == LearnInv /\ MeaningInv /\ StartBatch => MeaningInv' /\ UNCHANGED Net!vars
<1> SUFFICES ASSUME LearnInv, MeaningInv, StartBatch PROVE MeaningInv' /\ UNCHANGED Net!vars
  OBVIOUS
<1>1. upload.doing = "epochs"
  BY DEF StartBatch
<1>2. PICK N \in Nat : /\ N = Len(upload.inputs) /\ N >= 1 /\ DOMAIN upload.inputs = 1..N
                       /\ net.out = N
  BY <1>1, InputsAre
<1>3. /\ \A id \in DOMAIN upload.inputs : Len(upload.inputs[id]) = net.in
      /\ threads' = [t \in 0..NumThreads - 1 |->
           [next |-> IF t \in Launched(N) THEN First(N, t) ELSE N,
            end  |-> IF t \in Launched(N) THEN Beyond(N, t) ELSE N,
            done |-> t \notin Launched(N), sum |-> NoGradient(net)]]
      /\ upload' = [upload EXCEPT !.doing = "batch"]
      /\ vocab' = vocab /\ net' = net /\ tables' = tables /\ file' = file
  BY <1>2 DEF StartBatch
<1>4. upload'.doing = "batch" /\ upload'.inputs = upload.inputs
  BY <1>3, UploadParts DEF LearnInv
<1>5. Len(vocab.words) = net.in
  <2>1. 1 \in 1..N
    BY <1>2
  <2>2. upload.inputs[1] \in Input(vocab)
    BY <1>2, <2>1, UploadParts DEF LearnInv
  <2> QED  BY <1>2, <1>3, <2>1, <2>2, InputLength DEF LearnInv
<1>6. ASSUME NEW t \in 0..NumThreads - 1 PROVE ShareOK(t, threads'[t], net, upload.inputs)
  <2>1. /\ Upto(N, t) <= Upto(N, t + 1)
        /\ (IF t \in Launched(N) THEN First(N, t) ELSE N) = Upto(N, t)
        /\ (IF t \in Launched(N) THEN Beyond(N, t) ELSE N) = Upto(N, t + 1)
    BY SharesOfThreads
  <2>2. /\ threads'[t].next = Upto(N, t) /\ threads'[t].end = Upto(N, t + 1)
        /\ threads'[t].done = (t \notin Launched(N)) /\ threads'[t].sum = NoGradient(net)
    BY <1>3, <2>1
  <2>3. PICK a \in Nat : a = Upto(N, t)
    <3>1. t \in 0..NumThreads
      BY HiddenIs
    <3> QED  BY <3>1, SharesOfThreads
  <2>4. Gained(NoGradient(net), net, upload.inputs, a, a)
    BY <1>2, GainedNothing DEF LearnInv
  <2>5. threads'[t].done => threads'[t].next = threads'[t].end
    BY <2>1, <2>2
  <2> QED  BY <1>2, <2>1, <2>2, <2>3, <2>4, <2>5 DEF ShareOK
<1>7. BatchOK(vocab', net', upload', threads')
  BY <1>2, <1>3, <1>4, <1>5, <1>6 DEF BatchOK
<1>8. UploadSees(vocab', net', tables', upload')
  BY <1>1, <1>3, <1>4 DEF MeaningInv, UploadSees
<1> QED  BY <1>3, <1>7, <1>8, MeaningStays DEF MeaningInv
-----------------------------------------------------------------------------
LEMMA LearnSampleMeans ==
  ASSUME LearnInv, MeaningInv, NEW t \in DOMAIN threads, LearnSample(t)
  PROVE  MeaningInv' /\ UNCHANGED Net!vars
<1>1. /\ upload.doing = "batch" /\ threads[t].next < threads[t].end
      /\ threads' = [threads EXCEPT ![t].next = threads[t].next + 1,
           ![t].sum = Accumulated(threads[t].sum, net, upload.inputs[threads[t].next + 1], threads[t].next)]
      /\ vocab' = vocab /\ net' = net /\ tables' = tables /\ file' = file /\ upload' = upload
  BY DEF LearnSample
<1>2. /\ threads \in [0..NumThreads - 1 -> Share(net, upload)]
      /\ \A u \in 0..NumThreads - 1 : ShareOK(u, threads[u], net, upload.inputs)
      /\ Len(vocab.words) = net.in
  BY <1>1 DEF LearnInv, ThreadsOK, MeaningInv, BatchOK
<1>3. PICK N \in Nat : N = Len(upload.inputs) /\ DOMAIN upload.inputs = 1..N
  BY UploadParts DEF LearnInv
<1>4. upload.inputs \in [1..N -> [1..net.in -> {0, 1}]]
  <2>1. \A id \in 1..N : upload.inputs[id] \in Input(vocab)
    BY <1>3, UploadParts DEF LearnInv
  <2>2. upload.inputs = [id \in 1..N |-> upload.inputs[id]]
    BY <1>1, <1>3, InputsAre DEF Vectors
  <2> QED  BY <1>2, <2>1, <2>2 DEF Input
<1>5. t \in 0..NumThreads - 1 /\ threads[t] \in Share(net, upload)
  BY <1>2
<1>6. PICK s : s = threads[t]
  OBVIOUS
<1>7. PICK b \in Nat, e \in 0..N, a \in Nat :
        b = s.next /\ e = s.end /\ b < e /\ a = Upto(N, t) /\ a <= b
  <2>1. PICK b \in Nat, e \in 0..N : b = s.next /\ e = s.end /\ b < e
    BY <1>1, <1>3, <1>5, <1>6 DEF Share
  <2>2. t \in 0..NumThreads
    BY <1>5, HiddenIs
  <2>3. PICK a \in Nat : a = Upto(N, t)
    BY <2>2, SharesOfThreads
  <2>4. a <= b
    BY <1>2, <1>3, <1>5, <1>6, <2>1, <2>3 DEF ShareOK
  <2> QED  BY <2>1, <2>3, <2>4
<1>8. PICK g : g = Accumulated(s.sum, net, upload.inputs[b + 1], b)
  OBVIOUS
<1>9. Gained(g, net, upload.inputs, a, b + 1)
  <2>1. Gained(s.sum, net, upload.inputs, a, b) /\ s.sum \in Gradients(net.in, net.out)
    BY <1>2, <1>3, <1>5, <1>6, <1>7 DEF ShareOK, Share
  <2>2. b < N
    BY <1>7
  <2> QED  BY <1>4, <1>7, <1>8, <2>1, <2>2, GainedMore DEF LearnInv
<1>10. threads' = [threads EXCEPT ![t] = [@ EXCEPT !.next = b + 1, !.sum = g]]
  BY <1>1, <1>6, <1>7, <1>8
<1>11. ShareOK(t, threads'[t], net, upload.inputs)
  <2>1. PICK y : y = [s EXCEPT !.next = b + 1, !.sum = g]
    OBVIOUS
  <2>2. s = [next |-> s.next, end |-> s.end, done |-> s.done, sum |-> s.sum]
    BY <1>5, <1>6 DEF Share
  <2>3. y.next = b + 1 /\ y.end = e /\ y.done = s.done /\ y.sum = g
    BY <1>7, <2>1, <2>2
  <2>4. threads'[t] = y
    BY <1>2, <1>5, <1>6, <1>10, <2>1
  <2>5. ShareOK(t, s, net, upload.inputs)
    BY <1>2, <1>5, <1>6
  <2>6. e = Upto(N, t + 1) /\ ~s.done
    BY <1>3, <1>7, <2>5 DEF ShareOK
  <2>7. a <= b + 1 /\ b + 1 <= e
    BY <1>7
  <2>8. ShareOK(t, y, net, upload.inputs)
    BY <1>3, <1>7, <1>9, <2>3, <2>6, <2>7 DEF ShareOK
  <2> QED  BY <2>4, <2>8
<1>12. \A u \in 0..NumThreads - 1 : ShareOK(u, threads'[u], net, upload.inputs)
  <2>1. \A u \in 0..NumThreads - 1 : u # t => threads'[u] = threads[u]
    BY <1>2, <1>10
  <2> QED  BY <1>2, <1>11, <2>1
<1> QED  BY <1>1, <1>12, MeaningStays DEF MeaningInv, UploadSees, BatchOK

LEMMA SameCardinality == \A S : Net!Cardinality(S) = Cardinality(S)
BY DEF Net!Cardinality, Cardinality

(* What a pass makes of the rows.                                          *)
Trained(x) ==
  [x EXCEPT !.inputs  = [w \in DOMAIN x.inputs |-> Net!Learned(x.inputs[w],
                           Net!Cardinality({c \in DOMAIN x.chunks : /\ w \in x.chunks[c].words
                                          /\ \E d \in DOMAIN x.chunks : w \in x.chunks[d].tokens}))],
            !.outputs = [c \in DOMAIN x.outputs |-> Net!Learned(x.outputs[c], 1)]]

LEMMA EndBatchMeans == LearnInv /\ MeaningInv /\ EndBatch => MeaningInv' /\ Net!Train
<1> SUFFICES ASSUME LearnInv, MeaningInv, EndBatch PROVE MeaningInv' /\ Net!Train
  OBVIOUS
<1>1. /\ upload.doing = "batch" /\ \A t \in DOMAIN threads : threads[t].done
      /\ net' = FoldLeft(Updated, net, [i \in 1..NumThreads |-> threads[i - 1].sum])
      /\ upload' = [upload EXCEPT !.doing = "epochs", !.left = @ - 1]
      /\ threads' = <<>> /\ vocab' = vocab /\ tables' = tables /\ file' = file
  BY DEF EndBatch
<1>2. /\ threads \in [0..NumThreads - 1 -> Share(net, upload)]
      /\ \A u \in 0..NumThreads - 1 : ShareOK(u, threads[u], net, upload.inputs)
      /\ Len(vocab.words) = net.in
  BY <1>1 DEF LearnInv, ThreadsOK, MeaningInv, BatchOK
<1>3. PICK N \in Nat : /\ N = Len(upload.inputs) /\ DOMAIN upload.inputs = 1..N
                       /\ N = Len(tables.chunks) /\ net.out = N
                       /\ tables.chunks \in Seq(StoredChunk)
                       /\ upload.inputs = Vectors(vocab, tables.chunks)
  BY <1>1, InputsAre
<1>4. PICK a \in Nat, b \in Nat : a = net.in /\ b = net.out /\ b >= 1 /\ net \in Nets(a, b)
  BY NetsOK DEF LearnInv, NetOK
<1>5. PICK sums : sums = [i \in 1..NumThreads |-> threads[i - 1].sum]
  OBVIOUS
<1>6. ASSUME NEW k \in 1..NumThreads
      PROVE  /\ sums[k] \in Gradients(a, b)
             /\ Gained(sums[k], net, upload.inputs, Upto(N, k - 1), Upto(N, k))
  <2>1. PICK t \in 0..NumThreads - 1 : t = k - 1 /\ t + 1 = k
    BY HiddenIs
  <2>2. sums[k] = threads[t].sum
    BY <1>5, <2>1
  <2>3. threads[t] \in Share(net, upload) /\ ShareOK(t, threads[t], net, upload.inputs) /\ threads[t].done
    BY <1>1, <1>2
  <2>4. threads[t].next = Upto(N, k)
    BY <1>3, <2>1, <2>3 DEF ShareOK
  <2> QED  BY <1>3, <1>4, <2>1, <2>2, <2>3, <2>4 DEF ShareOK, Share
<1>7. sums \in [1..NumThreads -> Gradients(a, b)]
  BY <1>5, <1>6
<1>8. PICK m : m = net' /\ m = FoldLeft(Updated, net, sums)
  BY <1>1, <1>5
<1>9. Learns(m, net, Vectors(vocab, tables.chunks), Len(tables.chunks))
  BY <1>3, <1>4, <1>6, <1>7, <1>8, BatchLearns
<1>10. NetOK(m) /\ m.in = net.in /\ m.out = net.out
  <2>1. m \in Nets(a, b)
    BY <1>4, <1>7, <1>8, HiddenIs, AllUpdated
  <2>2. a >= 1
    BY <1>4 DEF LearnInv, NetOK
  <2> QED  BY <1>4, <2>1, <2>2, NetsOK
<1>11. StoreOK(vocab, net, tables.chunks)
  BY DEF MeaningInv
<1>12. StoreOK(vocab, m, tables.chunks)
  <2>1. \A i \in 0..a - 1 : ~(a <= i)
    OBVIOUS
  <2>2. Spare(vocab, m)
    BY <1>2, <1>4, <1>10, <2>1 DEF Spare
  <2> QED  BY <1>10, <1>11, <2>2 DEF StoreOK
<1>13. upload'.doing = "epochs" /\ upload'.inputs = upload.inputs
  BY <1>1, UploadParts DEF LearnInv
<1>14. MeaningInv'
  BY <1>1, <1>8, <1>12, <1>13 DEF MeaningInv, UploadSees, BatchOK
<1>15. /\ InputRows(vocab, m) = WordsLearned(InputRows(vocab, net), tables.chunks)
       /\ OutputRows(m) = LabelsLearned(OutputRows(net))
  <2>1. PICK v, n, cs : v = vocab /\ n = net /\ cs = tables.chunks
    OBVIOUS
  <2>2. v \in Vocabs /\ NetOK(n) /\ cs \in Seq(StoredChunk) /\ Known(v, cs)
    BY <1>3, <1>11, <2>1 DEF LearnInv, StoreOK
  <2>3. n.in = Len(v.words) /\ n.out = Len(cs) /\ m.in = n.in /\ m.out = n.out
    BY <1>2, <1>3, <1>10, <2>1
  <2>4. Learns(m, n, Vectors(v, cs), Len(cs)) /\ NetOK(m)
    BY <1>9, <1>10, <2>1
  <2>5. InputRows(v, m) = WordsLearned(InputRows(v, n), cs) /\ OutputRows(m) = LabelsLearned(OutputRows(n))
    BY ONLY <2>2, <2>3, <2>4, PassRows
  <2> QED  BY <2>1, <2>5
<1>16. Net!Train
  <2>1. PICK x, y : x = Meaning(tables, vocab, net) /\ y = Meaning(tables, vocab, m)
    OBVIOUS
  <2>2. PICK C, I, O : C = ChunksMean(tables.chunks) /\ I = InputRows(vocab, net) /\ O = OutputRows(net)
    OBVIOUS
  <2>3. PICK J, L : J = WordsLearned(I, tables.chunks) /\ L = LabelsLearned(O)
    OBVIOUS
  <2>4. x = [chunks |-> C, inputs |-> I, outputs |-> O] /\ y = [chunks |-> C, inputs |-> J, outputs |-> L]
    BY <1>15, <2>1, <2>2, <2>3, MeaningIs
  <2>5. ASSUME NEW w
        PROVE  {c \in DOMAIN x.chunks : /\ w \in x.chunks[c].words
                                        /\ \E d \in DOMAIN x.chunks : w \in x.chunks[d].tokens}
                 = Weighing(tables.chunks, w)
    BY <2>2, <2>4 DEF ChunksMean, Weighing
  <2>6. Trained(x) = [x EXCEPT !.inputs = J, !.outputs = L]
    <3>1. J = [w \in DOMAIN x.inputs |-> Net!Learned(x.inputs[w],
                 Net!Cardinality({c \in DOMAIN x.chunks : /\ w \in x.chunks[c].words
                                /\ \E d \in DOMAIN x.chunks : w \in x.chunks[d].tokens}))]
      BY <2>3, <2>4, <2>5, SameCardinality DEF WordsLearned
    <3>2. L = [c \in DOMAIN x.outputs |-> Net!Learned(x.outputs[c], 1)]
      BY <2>3, <2>4 DEF LabelsLearned
    <3> QED  BY <3>1, <3>2 DEF Trained
  <2>7. [x EXCEPT !.inputs = J, !.outputs = L] = y
    <3>1. PICK z : z = [x EXCEPT !.inputs = J, !.outputs = L]
      OBVIOUS
    <3>2. PICK r : r = [x EXCEPT !.inputs = J]
      OBVIOUS
    <3>3. r = [chunks |-> C, inputs |-> J, outputs |-> O]
      BY ONLY <2>4, <3>2
    <3>4. z = [r EXCEPT !.outputs = L]
      BY ONLY <3>1, <3>2
    <3>5. z = y
      BY ONLY <2>4, <3>3, <3>4
    <3> QED  BY <3>1, <3>5
  <2>8. Meaning(tables, vocab, net)' = y /\ UNCHANGED Meaning(file, LoadedVocab(file), LoadedNet(file))
    BY <1>1, <1>8, <2>1
  <2>9. Meaning(tables, vocab, net)' = Trained(Meaning(tables, vocab, net))
    BY <2>1, <2>6, <2>7, <2>8
  <2> QED  BY <2>8, <2>9 DEF Net!Train, Net!Weighs, Trained
<1> QED  BY <1>14, <1>16
-----------------------------------------------------------------------------
(* Writing the file keeps the rows and may add inputs that have learned    *)
(* nothing.                                                                *)
LEMMA WrittenMeans ==
  ASSUME LearnInv, MeaningInv, vocab' = vocab, net' = net, tables'.chunks = tables.chunks,
         LoadedVocab(file') = vocab, LoadedNet(file') = ExpandInputs(net, Len(vocab.words)),
         file'.chunks = tables.chunks
  PROVE  StoreOK(LoadedVocab(file'), LoadedNet(file'), file'.chunks) /\ Net!Save
<1>1. PICK v, n, s : v = vocab /\ n = net /\ s = Len(v.words)
  OBVIOUS
<1>2. v \in Vocabs /\ NetOK(n) /\ s \in Nat /\ StoreOK(v, n, tables.chunks)
  BY <1>1, VocabParts DEF LearnInv, MeaningInv
<1>3. PICK m : m = ExpandInputs(n, s)
  OBVIOUS
<1>4. StoreOK(v, m, tables.chunks)
  BY <1>2, <1>3, WideIsOK
<1>5. /\ OutputRows(m) = OutputRows(n)
      /\ Net!Extends(InputRows(v, m), InputRows(v, n))
      /\ \A w \in DOMAIN InputRows(v, m) \ DOMAIN InputRows(v, n) : Net!Unlearned(InputRows(v, m)[w])
  <2>1. Len(v.words) <= Len(v.words)
    BY <1>1, <1>2
  <2>2. Spare(v, n)
    BY <1>2 DEF StoreOK
  <2> QED  BY <1>2, <1>3, <2>1, <2>2, WideRows
<1>6. PICK x, y : x = Meaning(tables, v, n) /\ y = Meaning(file', v, m)
  OBVIOUS
<1>7. /\ x = [chunks |-> ChunksMean(tables.chunks), inputs |-> InputRows(v, n), outputs |-> OutputRows(n)]
      /\ y = [chunks |-> ChunksMean(tables.chunks), inputs |-> InputRows(v, m), outputs |-> OutputRows(m)]
  BY <1>6, MeaningIs
<1>8. Meaning(tables', v, n) = x
  BY <1>7, MeaningIs
<1>9. /\ y.chunks = x.chunks /\ y.outputs = x.outputs /\ Net!Extends(y.inputs, x.inputs)
      /\ \A w \in DOMAIN y.inputs \ DOMAIN x.inputs : Net!Unlearned(y.inputs[w])
  BY <1>5, <1>7
<1>10. /\ Meaning(tables, vocab, net) = x /\ Meaning(tables, vocab, net)' = x
       /\ Meaning(file, LoadedVocab(file), LoadedNet(file))' = y
  BY <1>1, <1>3, <1>6, <1>8
<1>11. Net!Save
  BY <1>9, <1>10 DEF Net!Save
<1> QED  BY <1>1, <1>3, <1>4, <1>11

LEMMA EndUploadMeans == LearnInv /\ MeaningInv /\ EndUpload => MeaningInv' /\ [Net!Next]_(Net!vars)
<1> SUFFICES ASSUME LearnInv, MeaningInv, EndUpload PROVE MeaningInv' /\ [Net!Next]_(Net!vars)
  OBVIOUS
<1>1. /\ tables' = Saved(tables, vocab, net) /\ file' = (IF upload.flag THEN tables' ELSE file)
      /\ upload' = Idle /\ vocab' = vocab /\ net' = net
  BY DEF EndUpload
<1>2. PICK d : d = Saved(tables, vocab, net)
  OBVIOUS
<1>3. TablesOK(d) /\ d.chunks = tables.chunks /\ d.rows = Rows(vocab) /\ d.model = ModelOf(net)
  BY <1>2, SavedIs DEF LearnInv
<1>4. Len(d.chunks) \in Nat /\ Len(d.rows) = Len(vocab.words) /\ Len(vocab.words) \in Nat
  <2>1. Len(d.chunks) \in Nat
    BY <1>3, LenProperties DEF TablesOK
  <2>2. PICK k \in Nat : k = Len(vocab.words) /\ DOMAIN vocab.words = 1..k
    BY VocabParts DEF LearnInv
  <2>3. Len(d.rows) = k
    <3>1. d.rows = [i \in 1..k |-> [word |-> vocab.words[i], df |-> vocab.df[i]]]
      BY <1>3, <2>2 DEF Rows
    <3> QED  BY <3>1
  <2> QED  BY <2>1, <2>2, <2>3
<1>5. LoadedVocab(d) = vocab
  BY <1>3, <1>4, LoadedVocabIs DEF LearnInv
<1>6. LoadedNet(d) = ExpandInputs(net, Len(vocab.words))
  <2>1. ModelOK(d.model)
    BY <1>3 DEF TablesOK
  <2> QED  BY <1>3, <1>4, <2>1, LoadedNetIs DEF LearnInv
<1>7. /\ StoreOK(vocab', net', tables'.chunks)
      /\ UploadSees(vocab', net', tables', upload') /\ BatchOK(vocab', net', upload', threads')
  BY <1>1, <1>2, <1>3, <1>6 DEF MeaningInv, UploadSees, BatchOK, Idle
<1>8. CASE upload.flag
  <2>1. file' = d /\ tables'.chunks = tables.chunks
    BY <1>1, <1>2, <1>3, <1>8
  <2>2. StoreOK(LoadedVocab(file'), LoadedNet(file'), file'.chunks) /\ Net!Save
    BY <1>1, <1>3, <1>5, <1>6, <2>1, WrittenMeans
  <2> QED  BY <1>7, <2>2 DEF MeaningInv, Net!Next
<1>9. CASE ~upload.flag
  <2>1. file' = file /\ tables'.chunks = tables.chunks
    BY <1>1, <1>2, <1>3, <1>9
  <2>2. UNCHANGED Net!vars
    BY <1>1, <2>1, MeaningStays
  <2> QED  BY <1>7, <2>1, <2>2 DEF MeaningInv
<1> QED  BY <1>8, <1>9

LEMMA SerializeMeans == LearnInv /\ MeaningInv /\ Serialize => MeaningInv' /\ [Net!Next]_(Net!vars)
<1> SUFFICES ASSUME LearnInv, MeaningInv, Serialize PROVE MeaningInv' /\ [Net!Next]_(Net!vars)
  OBVIOUS
<1>1. /\ upload.doing = "nothing" /\ file' = tables /\ vocab' = vocab /\ net' = net
      /\ tables' = tables /\ upload' = upload /\ threads' = threads
  BY DEF Serialize
<1>2. LoadedVocab(tables) = vocab
  BY <1>1, LoadedVocabIs, LenProperties DEF LearnInv, TablesOK
<1>3. LoadedNet(tables) = ExpandInputs(net, Len(vocab.words))
  BY <1>1 DEF MeaningInv, UploadSees
<1>4. StoreOK(LoadedVocab(file'), LoadedNet(file'), file'.chunks) /\ Net!Save
  BY <1>1, <1>2, <1>3, WrittenMeans
<1> QED  BY <1>1, <1>4 DEF MeaningInv, Net!Next

LEMMA RestartMeans == LearnInv /\ MeaningInv /\ Restart => MeaningInv' /\ [Net!Next]_(Net!vars)
<1> SUFFICES ASSUME LearnInv, MeaningInv, Restart PROVE MeaningInv' /\ [Net!Next]_(Net!vars)
  OBVIOUS
<1>1. /\ tables' = file /\ vocab' = LoadedVocab(file) /\ net' = LoadedNet(file)
      /\ upload' = Idle /\ threads' = <<>> /\ file' = file
  BY DEF Restart
<1>2. LoadedNet(file) = ExpandInputs(LoadedNet(file), Len(LoadedVocab(file).words))
  <2>1. PICK v \in Vocabs : file.rows = Rows(v)
    BY DEF LearnInv, TablesOK
  <2>2. PICK k \in Nat : k = Len(v.words) /\ DOMAIN v.words = 1..k
    BY VocabParts
  <2>3. Len(file.rows) = k
    <3>1. file.rows = [i \in 1..k |-> [word |-> v.words[i], df |-> v.df[i]]]
      BY <2>1, <2>2 DEF Rows
    <3> QED  BY <3>1
  <2>4. Len(file.chunks) \in Nat
    BY LenProperties DEF LearnInv, TablesOK
  <2>5. Len(LoadedVocab(file).words) = k
    BY <2>1, <2>2, <2>4, LoadedVocabIs
  <2>6. PICK n : NetOK(n) /\ LoadedNet(file) = ExpandInputs(n, k)
    <3>1. CASE file.model = NoModel
      <4>1. PICK a \in Nat, b \in Nat : /\ a = Larger(1, k) /\ b = Larger(1, Len(file.chunks))
                                        /\ a >= 1 /\ b >= 1
        BY <2>4 DEF Larger
      <4>2. LoadedNet(file) = ExpandInputs(NewNet(a, b), k)
        BY <2>3, <3>1, <4>1, SizedNoModel DEF LoadedNet
      <4> QED  BY <4>1, <4>2, NewNetOK
    <3>2. CASE file.model # NoModel
      <4>1. ModelOK(file.model)
        BY DEF LearnInv, TablesOK
      <4>2. PICK n : NetOK(n) /\ file.model = ModelOf(n)
        BY <3>2, <4>1 DEF ModelOK
      <4>3. LoadedNet(file) = ExpandInputs(n, k)
        BY <2>3, <2>4, <4>1, <4>2, LoadedNetIs
      <4> QED  BY <4>2, <4>3
    <3> QED  BY <3>1, <3>2
  <2> QED  BY <2>5, <2>6, ExpandedAlready
<1>3. MeaningInv'
  BY <1>1, <1>2 DEF MeaningInv, UploadSees, BatchOK, Idle
<1>4. Net!Reopen
  BY <1>1 DEF Net!Reopen
<1> QED  BY <1>3, <1>4 DEF Net!Next
-----------------------------------------------------------------------------
(* An upload: known words, counted; and rows only at the end.              *)
LEMMA RowsGrow ==
  ASSUME NEW v \in Vocabs, NEW n, NetOK(n), Spare(v, n), NEW u \in Vocabs,
         Len(v.words) <= Len(u.words), \A i \in DOMAIN v.words : u.words[i] = v.words[i],
         NEW size \in Nat, NEW labels \in Nat,
         NEW m, m = ExpandOutputs(ExpandInputs(n, size), labels)
  PROVE  /\ m.out = Larger(n.out, labels) /\ Spare(u, m)
         /\ Net!Extends(InputRows(u, m), InputRows(v, n))
         /\ \A w \in DOMAIN InputRows(u, m) \ DOMAIN InputRows(v, n) : Net!Unlearned(InputRows(u, m)[w])
         /\ Net!Extends(OutputRows(m), OutputRows(n))
         /\ \A c \in DOMAIN OutputRows(m) \ DOMAIN OutputRows(n) : Net!Unlearned(OutputRows(m)[c])
<1>1. PICK wide : wide = ExpandInputs(n, size)
  OBVIOUS
<1>2. /\ NetOK(wide) /\ wide.out = n.out /\ OutputRows(wide) = OutputRows(n) /\ Spare(u, wide)
      /\ Net!Extends(InputRows(u, wide), InputRows(v, n))
      /\ \A w \in DOMAIN InputRows(u, wide) \ DOMAIN InputRows(v, n) : Net!Unlearned(InputRows(u, wide)[w])
  BY <1>1, WideRows
<1>3. m = ExpandOutputs(wide, labels)
  BY <1>1
<1>4. m.in = wide.in /\ m.w1 = wide.w1 /\ m.out = Larger(wide.out, labels)
  BY <1>2, <1>3, OutputsExpand, ZenonT(60)
<1>5. InputRows(u, m) = InputRows(u, wide)
  BY <1>4 DEF InputRows
<1>6. Spare(u, m)
  BY <1>2, <1>4 DEF Spare
<1>7. /\ Net!Extends(OutputRows(m), OutputRows(wide))
      /\ \A c \in DOMAIN OutputRows(m) \ DOMAIN OutputRows(wide) : Net!Unlearned(OutputRows(m)[c])
  BY <1>2, <1>3, OutputRowsGrow
<1> QED  BY <1>2, <1>4, <1>5, <1>6, <1>7

LEMMA UploadMeans ==
  ASSUME LearnInv, LearnInv', MeaningInv, NEW doc \in Docs, NEW tags \in TagLists, NEW flag \in BOOLEAN,
         Upload(doc, tags, flag)
  PROVE  MeaningInv' /\ Net!Grow
<1> DEFINE fresh  == NewChunks(doc)
           texts  == [i \in DOMAIN fresh |-> Tokens(fresh[i])]
           tagged == FoldLeft(AddWords, vocab, tags)
           full   == FoldLeft(AddWords, tagged, texts)
           added  == [i \in DOMAIN fresh |-> [text |-> fresh[i], tags |-> ToSet(tags)]]
           chunks == tables.chunks \o added
           wide   == IF Len(full.words) > Len(tagged.words)
                     THEN ExpandInputs(net, Len(full.words)) ELSE net
<1>0. doc \in Chunk /\ tags \in Seq(Seq(Token))
  BY LearningConstants DEF LearningConstants, Chunk, Line
<1>1. PICK k \in Nat : /\ fresh \in Seq(Chunk) /\ k = Len(fresh) /\ DOMAIN fresh = 1..k
                       /\ \A i \in 1..k : fresh[i] \in Chunk
  BY <1>0, NewChunksAre, LenProperties
<1>2. k >= 1
  <2>1. fresh # <<>>
    BY DEF Upload
  <2>2. k # 0
    BY <1>1, <2>1, EmptySeq
  <2> QED  BY <2>2
<1> HIDE DEF fresh
<1>3. texts \in Seq(Seq(Token)) /\ DOMAIN texts = 1..k
  <2>1. \A i \in 1..k : Tokens(fresh[i]) \in Seq(Token)
    BY <1>1, TokensOfChunk
  <2>2. PICK s : s = texts
    OBVIOUS
  <2>3. s \in [1..k -> Seq(Token)]
    BY <1>1, <2>1, <2>2
  <2> QED  BY <2>2, <2>3, SeqDef
<1>4. added \in Seq(StoredChunk) /\ Len(added) = k
  <2>1. ToSet(tags) \in SUBSET Seq(Token)
    BY <1>0, LenProperties DEF ToSet
  <2>2. \A i \in 1..k : [text |-> fresh[i], tags |-> ToSet(tags)] \in StoredChunk
    BY <1>1, <2>1 DEF StoredChunk
  <2>3. PICK s : s = added
    OBVIOUS
  <2>4. s \in [1..k -> StoredChunk]
    BY <1>1, <2>2, <2>3
  <2> QED  BY <2>3, <2>4, SeqDef, LenProperties
<1>5. \A d \in 1..k : TokensOf(added[d]) = ToSet(texts[d])
  BY <1>1 DEF TokensOf
<1>6. tagged \in Grown(vocab)
  BY <1>0, TextsGrow DEF LearnInv
<1> HIDE DEF texts, tagged, added
<1>7. full \in Grown(tagged) /\ \A d \in 1..k : \A w \in ToSet(texts[d]) : Has(full, w)
  BY <1>3, <1>6, TextsGrow DEF Grown
<1> HIDE DEF full
<1>8. full \in Grown(vocab)
  BY <1>6, <1>7, GrownTwice DEF LearnInv
<1>9. PICK c \in Nat : tables.chunks \in Seq(StoredChunk) /\ c = Len(tables.chunks) /\ DOMAIN tables.chunks = 1..c
  BY LenProperties DEF LearnInv, TablesOK
<1>10. /\ chunks \in Seq(StoredChunk) /\ Len(chunks) = c + k /\ DOMAIN chunks = 1..c + k
       /\ \A d \in 1..c : chunks[d] = tables.chunks[d]
       /\ \A d \in 1..k : chunks[c + d] = added[d]
  <2>1. PICK s, t : s = tables.chunks /\ t = added
    OBVIOUS
  <2>2. s \in Seq(StoredChunk) /\ t \in Seq(StoredChunk) /\ Len(s) = c /\ Len(t) = k
    BY <1>4, <1>9, <2>1
  <2>3. /\ s \o t \in Seq(StoredChunk) /\ Len(s \o t) = c + k
        /\ \A d \in 1..c + k : (s \o t)[d] = IF d <= c THEN s[d] ELSE t[d - c]
    BY <2>2, ConcatProperties
  <2>4. DOMAIN (s \o t) = 1..c + k
    BY <2>3, LenProperties
  <2>5. \A d \in 1..c : d \in 1..c + k /\ d <= c
    OBVIOUS
  <2>6. \A d \in 1..k : c + d \in 1..c + k /\ ~(c + d <= c) /\ (c + d) - c = d
    OBVIOUS
  <2> QED  BY <2>1, <2>3, <2>4, <2>5, <2>6
<1> HIDE DEF chunks
<1>11. /\ vocab' = FoldLeft(CountDocument, full, texts) /\ net' = ExpandOutputs(wide, Len(chunks))
       /\ tables' = [tables EXCEPT !.chunks = chunks]
       /\ upload' = [doing |-> "epochs", left |-> Epochs, flag |-> flag,
                     inputs |-> [id \in DOMAIN chunks |-> ChunkVector(vocab',
                                     [chunks[id] EXCEPT !.text = Tokens(@)])]]
       /\ file' = file /\ upload.doing = "nothing"
  BY DEF Upload, fresh, texts, tagged, full, added, chunks, wide
<1>12. tables'.chunks = chunks
  <2>1. tables = [chunks |-> tables.chunks, rows |-> tables.rows, model |-> tables.model]
    BY DEF LearnInv, TablesOK
  <2> QED  BY <1>11, <2>1
<1>13. PICK v, n, u : v = vocab /\ n = net /\ u = vocab'
  OBVIOUS
<1>14. /\ v \in Vocabs /\ NetOK(n) /\ u \in Vocabs /\ full \in Vocabs
       /\ StoreOK(v, n, tables.chunks) /\ full \in Grown(v)
  BY <1>8, <1>13 DEF LearnInv, MeaningInv, Grown
<1>15. /\ u \in Recounted(full)
       /\ \A i \in DOMAIN full.words : u.df[i] # 0 <=>
            full.df[i] # 0 \/ \E d \in 1..k : full.words[i] \in ToSet(texts[d])
  BY <1>3, <1>11, <1>13, <1>14, TextsCounted
<1>16. Known(u, chunks)
  <2>1. Known(v, tables.chunks) /\ \A d \in 1..k : TokensOf(chunks[c + d]) = ToSet(texts[d])
    BY <1>5, <1>10, <1>14 DEF StoreOK
  <2>2. PICK old : old = tables.chunks
    OBVIOUS
  <2>3. /\ DOMAIN old = 1..c /\ Known(v, old) /\ HasAll(full, texts, k) /\ CountsAll(u, full, texts, k)
        /\ AddsTexts(chunks, old, c, texts, k)
    BY <1>7, <1>9, <1>10, <1>15, <2>1, <2>2 DEF HasAll, CountsAll, AddsTexts
  <2> QED  BY <1>14, <1>15, <2>3, KnownGrows
<1>17. Len(v.words) <= Len(u.words) /\ \A i \in DOMAIN v.words : u.words[i] = v.words[i]
  BY <1>14, <1>15 DEF Grown, Recounted
<1>18. PICK size \in Nat : wide = ExpandInputs(n, size)
  <2>1. Len(full.words) \in Nat
    BY <1>14, VocabParts
  <2>2. ExpandInputs(n, 0) = n
    BY <1>14 DEF ExpandInputs, NetOK
  <2> QED  BY <1>13, <2>1, <2>2
<1> HIDE DEF wide
<1>19. PICK m : m = net' /\ m = ExpandOutputs(ExpandInputs(n, size), c + k)
  BY <1>10, <1>11, <1>18
<1>20. /\ m.out = Larger(n.out, c + k) /\ Spare(u, m)
       /\ Net!Extends(InputRows(u, m), InputRows(v, n))
       /\ \A w \in DOMAIN InputRows(u, m) \ DOMAIN InputRows(v, n) : Net!Unlearned(InputRows(u, m)[w])
       /\ Net!Extends(OutputRows(m), OutputRows(n))
       /\ \A i \in DOMAIN OutputRows(m) \ DOMAIN OutputRows(n) : Net!Unlearned(OutputRows(m)[i])
  <2>1. Spare(v, n) /\ c + k \in Nat
    BY <1>14 DEF StoreOK
  <2> QED  BY <1>14, <1>17, <1>19, <2>1, RowsGrow
<1>21. StoreOK(u, m, chunks)
  <2>1. n.out = Larger(1, c)
    BY <1>9, <1>14 DEF StoreOK
  <2>2. m.out = Larger(1, Len(chunks))
    BY <1>10, <1>20, <2>1 DEF Larger
  <2> QED  BY <1>16, <1>20, <2>2 DEF StoreOK
<1>22. UploadSees(vocab', net', tables', upload') /\ BatchOK(vocab', net', upload', threads')
  <2>1. chunks # <<>>
    <3>1. 1 \in DOMAIN chunks
      BY <1>2, <1>10
    <3> QED  BY <3>1
  <2>2. upload'.doing = "epochs" /\ upload'.inputs = Vectors(vocab', chunks)
    BY <1>11 DEF Vectors
  <2> QED  BY <1>12, <2>1, <2>2 DEF UploadSees, BatchOK
<1>23. MeaningInv'
  BY <1>11, <1>12, <1>13, <1>19, <1>21, <1>22 DEF MeaningInv
<1>24. Net!Extends(ChunksMean(chunks), ChunksMean(tables.chunks))
  <2>1. \A d \in 1..c : d \in 1..c + k
    OBVIOUS
  <2> QED  BY <1>9, <1>10, <2>1 DEF ChunksMean, Net!Extends
<1>25. Net!Grow
  <2>1. PICK x, y : x = Meaning(tables, v, n) /\ y = Meaning(tables', u, m)
    OBVIOUS
  <2>2. /\ x = [chunks |-> ChunksMean(tables.chunks), inputs |-> InputRows(v, n), outputs |-> OutputRows(n)]
        /\ y = [chunks |-> ChunksMean(chunks), inputs |-> InputRows(u, m), outputs |-> OutputRows(m)]
    BY <1>12, <2>1, MeaningIs
  <2>3. /\ Meaning(tables, vocab, net) = x /\ Meaning(tables, vocab, net)' = y
        /\ UNCHANGED Meaning(file, LoadedVocab(file), LoadedNet(file))
    BY <1>11, <1>13, <1>19, <2>1
  <2>4. /\ Net!Extends(y.chunks, x.chunks) /\ Net!Extends(y.inputs, x.inputs) /\ Net!Extends(y.outputs, x.outputs)
        /\ \A w \in DOMAIN y.inputs \ DOMAIN x.inputs : Net!Unlearned(y.inputs[w])
        /\ \A i \in DOMAIN y.outputs \ DOMAIN x.outputs : Net!Unlearned(y.outputs[i])
    BY <1>20, <1>24, <2>2
  <2> QED  BY <2>3, <2>4 DEF Net!Grow
<1> QED  BY <1>23, <1>25
-----------------------------------------------------------------------------
LEMMA MeaningNext == LearnInv /\ LearnInv' /\ MeaningInv /\ [Next]_vars => MeaningInv' /\ [Net!Next]_(Net!vars)
<1> SUFFICES ASSUME LearnInv, LearnInv', MeaningInv, [Next]_vars
             PROVE  MeaningInv' /\ [Net!Next]_(Net!vars)
  OBVIOUS
<1>1. CASE UNCHANGED vars
  <2>1. /\ vocab' = vocab /\ net' = net /\ tables' = tables /\ file' = file /\ upload' = upload
        /\ threads' = threads
    BY <1>1 DEF vars
  <2>2. UNCHANGED Net!vars
    BY <2>1, MeaningStays
  <2> QED  BY <2>1, <2>2 DEF MeaningInv
<1>2. ASSUME NEW doc \in Docs, NEW tags \in TagLists, NEW flag \in BOOLEAN, Upload(doc, tags, flag)
      PROVE  MeaningInv' /\ [Net!Next]_(Net!vars)
  BY <1>2, UploadMeans DEF Net!Next
<1>3. ASSUME NEW t \in DOMAIN threads, LearnSample(t) \/ EndThread(t)
      PROVE  MeaningInv' /\ [Net!Next]_(Net!vars)
  BY <1>3, LearnSampleMeans, EndThreadMeans
<1>4. ASSUME SkipBatch \/ StartBatch PROVE MeaningInv' /\ [Net!Next]_(Net!vars)
  BY <1>4, SkipBatchMeans, StartBatchMeans
<1>5. ASSUME EndBatch PROVE MeaningInv' /\ [Net!Next]_(Net!vars)
  BY <1>5, EndBatchMeans DEF Net!Next
<1> QED  BY <1>1, <1>2, <1>3, <1>4, <1>5, EndUploadMeans, SerializeMeans, RestartMeans DEF Next

(* Words and chunks keep the weights they were given and trained with, and *)
(* a pass learns every chunk exactly once, whatever the sizes, the number  *)
(* of threads and the order of uploads, saves and restarts: growing the    *)
(* arrays (NeuralNetwork::expand_input, expand_output), sharing a pass     *)
(* between threads (train_batch) and reading the arrays back (load_state)  *)
(* implement Connections.                                                  *)
THEOREM LearningIsConnections == Spec => IsConnections
<1>1. Spec => [](MeaningInv /\ LearnInv)
  <2>1. Init => MeaningInv
    BY MeaningInit
  <2>2. LearnInv /\ LearnInv' /\ MeaningInv /\ [Next]_vars => MeaningInv'
    BY MeaningNext
  <2> QED  BY <2>1, <2>2, LearnInvAlways, PTL DEF Spec
<1>2. Init => Net!Init
  BY MeaningInit
<1>3. LearnInv /\ LearnInv' /\ MeaningInv /\ [Next]_vars => [Net!Next]_(Net!vars)
  BY MeaningNext
<1> QED  BY <1>1, <1>2, <1>3, PTL DEF Spec, IsConnections, Net!Spec
=============================================================================
