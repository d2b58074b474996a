----------------------------- MODULE MCLearning -----------------------------
(* A small instance of Learning.                                           *)
EXTENDS Learning

aa == <<"aa">>
bb == <<"bb">>
cc == <<"cc">>
x  == <<"x">>
n7 == <<"7">>
v1 == <<"v1.0">>

(* A word, a pair, a repeated word, tokens that are words only as a pair,  *)
(* the pair as a token of its own, and nothing that is a word; a blank line*)
(* and lines that just fit, or just do not fit, into one chunk.            *)
MCDocs == { << <<aa, bb>> >>,
            << <<bb, aa>>, <<aa>>, <<>>, <<x, n7>> >>,
            << <<aa, bb>>, <<aa \o bb, n7>>, <<v1, x>> >> }

MCTagLists == { <<>>, << <<bb>>, <<cc>> >> }

(* All texts of four lines of any length up to one above the limit.        *)
MCSamples ==
  UNION {[1..n -> {[k \in 1..size |-> aa] : size \in {0, 1, 2, 5}}] : n \in 0..4}
=============================================================================
