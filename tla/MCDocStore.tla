----------------------------- MODULE MCDocStore -----------------------------
(* Small instances of DocStore: the words of the texts and tags, and which *)
(* documents are uploaded.                                                 *)
EXTENDS DocStore

CONSTANTS MaxDocLen   \* chunks of the longest document

NoIds == {}
SomeIds == {2}

(* Text c brings no word that b does not have; tag s is a word of both,    *)
(* tag t is in no text.                                                   *)
NestedWords == [u \in Texts |-> CASE u = "a" -> {"x"} [] u = "b" -> {"y", "z"}
                                  [] OTHER -> {"y"}]
NestedTokens ==
  [u \in Texts |-> CASE u = "a" -> {<<"x", 1>>}
                     [] u = "b" -> {<<"y", 1>>, <<"z", 2>>, <<"y", 3>>}
                     [] OTHER -> {<<"y", 1>>}]
(* Text a has no valid word, b only words that others may have brought.    *)
SharedWords == [u \in Texts |-> IF u = "a" THEN {} ELSE {"x", "y"}]
(* All texts are made of the same words.                                   *)
SameWords == [u \in Texts |-> {"x", "y"}]
SharedTokens == [u \in Texts |-> SharedWords[u] \X {1}]
SameTokens   == [u \in Texts |-> SameWords[u] \X {1}]
(* A tag of two words that no text has.                                    *)
TwoTagWords == [u \in Tags |-> {"v", "w"}]

WordOfTag == [u \in Tags |-> IF u = "s" THEN {"y"} ELSE {"v"}]

AnyDocs == UNION {[1..n -> Texts] : n \in 0..MaxDocLen}
RepeatFreeDocs ==
  {doc \in AnyDocs : \A i, j \in DOMAIN doc : doc[i] = doc[j] => i = j}
=============================================================================
