-------------------------------- MODULE Texts --------------------------------
(***************************************************************************)
(* How a document is cut into chunks (split_into_chunks, store.cpp).  A    *)
(* text is the sequence of its lines, a line the sequence of its tokens;   *)
(* a token stands for its bytes, so that the size of a line is its length. *)
(* A chunk is the sequence of its lines again, joined by newlines.         *)
(***************************************************************************)
EXTENDS Naturals, Sequences, SequencesExt

CONSTANT MaxChunk    \* MAX_CHUNK_SIZE

ASSUME TextConstants == MaxChunk \in Nat

Blank == <<>>

(* Bytes of the lines joined by newlines.                                  *)
Size(chunk) ==
  FoldLeft(LAMBDA n, line : n + Len(line), 0, chunk) +
  (IF chunk = <<>> THEN 0 ELSE Len(chunk) - 1)

(* Mutant of Fits: the newline is not counted.                             *)
FitsWithoutNewline(chunk, line) == Size(chunk) + Len(line) <= MaxChunk

Fits(chunk, line) == Size(chunk) + Len(line) + 1 <= MaxChunk

(* A blank line that would begin a chunk leaves it empty.                  *)
Begin(line) == IF line = Blank THEN <<>> ELSE <<line>>

(* One turn of the loop: the chunks so far, and the current one.           *)
AddLine(acc, line) ==
  IF acc.current = <<>> THEN [acc EXCEPT !.current = Begin(line)]
  ELSE IF Fits(acc.current, line) THEN [acc EXCEPT !.current = Append(@, line)]
  ELSE [chunks |-> Append(acc.chunks, acc.current), current |-> Begin(line)]

(* A text of blank lines alone is one chunk as it is.                      *)
SplitIntoChunks(lines) ==
  LET cut == FoldLeft(AddLine, [chunks |-> <<>>, current |-> <<>>], lines)
      all == IF cut.current = <<>> THEN cut.chunks ELSE Append(cut.chunks, cut.current)
  IN  IF all = <<>> /\ lines # <<>> THEN <<lines>> ELSE all
-----------------------------------------------------------------------------
(* What a splitting should be: chunk i is the lines from first[i] to       *)
(* last[i], only blank lines are between chunks, each is within the limit  *)
(* unless it is a single line or the text is blank, and none could have    *)
(* taken the line that follows it.                                         *)
IsSplitting(lines, chunks) ==
  \E first, last \in [DOMAIN chunks -> DOMAIN lines] :
    LET from(i) == IF i = 1 THEN 1 ELSE last[i - 1] + 1
    IN  /\ \A i \in DOMAIN chunks :
             /\ from(i) <= first[i] /\ first[i] <= last[i]
             /\ chunks[i] = SubSeq(lines, first[i], last[i])
             /\ \A k \in from(i)..first[i] - 1 : lines[k] = Blank
             /\ \/ Size(chunks[i]) <= MaxChunk \/ first[i] = last[i]
                \/ \A k \in DOMAIN lines : lines[k] = Blank
             /\ last[i] < Len(lines) =>
                  Size(Append(chunks[i], lines[last[i] + 1])) > MaxChunk
        /\ chunks = <<>> => lines = <<>>
        /\ chunks # <<>> =>
             \A k \in last[Len(chunks)] + 1..Len(lines) : lines[k] = Blank
=============================================================================
