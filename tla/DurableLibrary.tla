--------------------------- MODULE DurableLibrary ---------------------------
(***************************************************************************)
(* What the document store promises, with no tables, words or network: a   *)
(* library keeps its items live in memory and a copy of some earlier live  *)
(* library on disk.  Only an upload adds items, nothing but the end of the *)
(* process removes them, and the next start brings back the copy exactly.  *)
(***************************************************************************)
CONSTANT Items

VARIABLES live,   \* items the running process can answer from
          kept    \* items in the copy on disk

vars == <<live, kept>>

Init == live = {} /\ kept = {}

(* New items arrive and, when asked to and when the disk takes it, the     *)
(* whole library is copied in the same step.                               *)
Learn(S) == /\ live' = live \cup S
            /\ kept' \in {kept, live'}

Save == kept' = live /\ UNCHANGED live

Reopen == live' = kept /\ UNCHANGED kept

Next == \/ \E S \in SUBSET Items : Learn(S)
        \/ Save
        \/ Reopen

Spec == Init /\ [][Next]_vars
=============================================================================
