----------------------------- MODULE UmlCatalog -----------------------------
(***************************************************************************)
(* What the store promises of UML containers, without tables, statements   *)
(* or locks: a container is uploaded whole or not at all, a name is given  *)
(* once, every reader is answered from one state of the catalog, and after *)
(* the end of the process the copy on disk is the catalog again.           *)
(***************************************************************************)
EXTENDS Naturals, Sequences

CONSTANTS
  Uploads,    \* what is uploaded: see UploadType of UmlStore
  SrcTypes,   \* the source types that have a name
  Threads,    \* who reads
  NoName      \* the empty event name

VARIABLES
  live,    \* the containers that can be read
  kept,    \* those in the copy on disk
  told,    \* per upload: "none", "created" or "exists"
  answer   \* per thread: the answer to its reader, until that is sent

vars == <<live, kept, told, answer>>

(* What a reader can see of an upload: each source once, of known types    *)
(* only, and of the events with one name the last.                         *)
Shown(u) ==
  [name    |-> u.name,
   schema  |-> u.schema,
   sources |-> {s \in {u.sources[i] : i \in DOMAIN u.sources} : s.type \in SrcTypes},
   events  |-> {u.events[i] : i \in
                  {i \in DOMAIN u.events :
                     /\ u.events[i].event # NoName
                     /\ \A j \in DOMAIN u.events :
                          u.events[j].event = u.events[i].event => j <= i}}]

(* seq has each element of S once.                                         *)
Enumerates(seq, S) ==
  /\ \A i, j \in DOMAIN seq : seq[i] = seq[j] => i = j
  /\ {seq[i] : i \in DOMAIN seq} = S

SourcesOnly(c) == [name |-> c.name, sources |-> c.sources]
SchemaOnly(c)  == [name |-> c.name, schema |-> c.schema]

Init ==
  /\ live = {} /\ kept = {}
  /\ told = [u \in Uploads |-> "none"]
  /\ answer = [t \in Threads |-> <<>>]

Create(u) ==
  /\ told[u] = "none"
  /\ \A c \in live : c.name # u.name
  /\ live' = live \cup {Shown(u)}
  /\ kept' \in {kept, live'}
  /\ told' = [told EXCEPT ![u] = "created"]
  /\ UNCHANGED answer

Refuse(u) ==
  /\ told[u] = "none"
  /\ \E c \in live : c.name = u.name
  /\ told' = [told EXCEPT ![u] = "exists"]
  /\ UNCHANGED <<live, kept, answer>>

(* A list has all, a search those near the query, a table those that match *)
(* its filter.                                                             *)
Read(t) ==
  /\ \/ Enumerates(answer'[t], live)
     \/ \E S \in SUBSET live : \/ Enumerates(answer'[t], {SourcesOnly(c) : c \in S})
                              \/ Enumerates(answer'[t], {SchemaOnly(c) : c \in S})
  /\ answer' = [answer EXCEPT ![t] = answer'[t]]
  /\ UNCHANGED <<live, kept, told>>

(* The named containers in the order they were named, without those that   *)
(* do not exist.                                                           *)
Compose(t, names) ==
  LET found == {i \in DOMAIN names : \E c \in live : c.name = names[i]}
  IN  /\ \E at \in [DOMAIN answer'[t] -> found] :
           /\ \A i, j \in DOMAIN at : i < j => at[i] < at[j]
           /\ \A i \in found : \E j \in DOMAIN at : at[j] = i
           /\ \A i \in DOMAIN at : answer'[t][i] \in live /\ answer'[t][i].name = names[at[i]]
      /\ answer' = [answer EXCEPT ![t] = answer'[t]]
      /\ UNCHANGED <<live, kept, told>>

(* The answer is handed on.                                                *)
Reply(t) ==
  /\ answer' = [answer EXCEPT ![t] = <<>>]
  /\ UNCHANGED <<live, kept, told>>

Save ==
  /\ kept' = live
  /\ UNCHANGED <<live, told, answer>>

Reopen ==
  /\ live' = kept
  /\ answer' = [t \in Threads |-> <<>>]
  /\ UNCHANGED <<kept, told>>

CONSTANT Projects    \* the lists of names that are composed

Next == \/ \E u \in Uploads : Create(u) \/ Refuse(u)
        \/ \E t \in Threads : Read(t) \/ Reply(t) \/ \E names \in Projects : Compose(t, names)
        \/ Save \/ Reopen

Spec == Init /\ [][Next]_vars
=============================================================================
