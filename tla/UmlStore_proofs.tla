--------------------------- MODULE UmlStore_proofs ---------------------------
(* Proofs about UmlStore, for any uploads and projects.                    *)
EXTENDS UmlStore, SequenceTheorems, FiniteSetTheorems, TLAPS

-----------------------------------------------------------------------------
(* The tables.  Ids count the rows, names are given once, and what refers  *)
(* to a container refers to one that is there.                             *)
TablesOK(d) ==
  /\ d = [uml |-> d.uml, src |-> d.src, events |-> d.events]
  /\ IsFiniteSet(d.uml) /\ RowIds(d) = 1..Cardinality(d.uml)
  /\ \A row \in d.uml : row = [id |-> row.id, name |-> row.name, schema |-> row.schema]
  /\ \A row, other \in d.uml : row.id = other.id \/ row.name = other.name => row = other
  /\ \A s \in d.src : s.uml \in RowIds(d)
  /\ \A e \in d.events : e.uml \in RowIds(d)

ContainerOf(d, row) ==
  [name |-> row.name, schema |-> row.schema,
   sources |-> {[type |-> s.type, content |-> s.content] :
                  s \in {s \in d.src : s.uml = row.id /\ s.type \in SrcTypes}},
   events |-> {[event |-> e.event, target |-> e.target] :
                 e \in {e \in d.events : e.uml = row.id}}]

Whole(d) == {ContainerOf(d, row) : row \in d.uml}

(* Who holds the lock, by where the threads are.                           *)
WriterAt == {"check", "insert", "addsources", "addevents", "serialize", "unlock"}
Outside  == {"idle", "exclusive", "shared", "reply"}
Sharing  == {"select", "row", "again", "sources", "readevents"}

Held(at) == IF at = "inner" THEN 2 ELSE IF at \in Sharing THEN 1 ELSE 0

LockOK ==
  /\ writer = (Writing.at \in WriterAt)
  /\ readers = [t \in Threads |-> Held(work[t].at)]
  /\ writer => \A t \in Threads : readers[t] = 0

(* The container that is being created: what its rows are so far.          *)
RowsOf(rows, id) == {r \in rows : r.uml = id}
ToSources(rows)  == {[type |-> s.type, content |-> s.content] : s \in rows}
ToEvents(rows)   == {[event |-> e.event, target |-> e.target] : e \in rows}

LastEvents(u, n) ==
  {u.events[i] : i \in {i \in 1..n : /\ u.events[i].event # NoName
                                     /\ \A j \in 1..n : u.events[j].event = u.events[i].event => j <= i}}

InsertedAre(d, u, id, sources, events) ==
  /\ [id |-> id, name |-> u.name, schema |-> u.schema] \in d.uml
  /\ ToSources(RowsOf(d.src, id)) = {u.sources[i] : i \in 1..sources}
  /\ ToEvents(RowsOf(d.events, id)) = LastEvents(u, events)

UploadWork ==
  [at : {"exclusive", "check", "insert", "unlock"}, upload : Uploads]
    \cup [at : {"addsources", "addevents", "serialize", "unlock"}, upload : Uploads,
          id : Nat, next : Nat \ {0}]

CreationOK(d, w, said) ==
  /\ w \in UploadWork /\ w.at # "unlock" => said[w.upload] = <<"accepted">>
  /\ w.at = "insert" => w.upload.name \notin Names(d)
  /\ w.at = "addsources" =>
       /\ w.next <= Len(w.upload.sources) + 1
       /\ InsertedAre(d, w.upload, w.id, w.next - 1, 0)
  /\ w.at = "addevents" =>
       /\ w.next <= Len(w.upload.events) + 1
       /\ InsertedAre(d, w.upload, w.id, Len(w.upload.sources), w.next - 1)
  /\ w.at = "serialize" =>
       InsertedAre(d, w.upload, w.id, Len(w.upload.sources), Len(w.upload.events))

(* What a reader has collected: blocks of containers, each of a name it is *)
(* through with; a list leaves none out, a composition those that do not   *)
(* exist.                                                                  *)
BlockOf(op, c) ==
  CASE op = "search" -> [name |-> c.name, sources |-> c.sources]
    [] op = "table"  -> [name |-> c.name, schema |-> c.schema]
    [] OTHER         -> c

Gathered(d, op, blocks, todo) ==
  /\ blocks \in Seq({BlockOf(op, c) : c \in Whole(d)}) /\ todo \in Seq(Names(d))
  /\ \A i, j \in DOMAIN blocks : blocks[i].name = blocks[j].name => i = j
  /\ \A i, j \in DOMAIN todo : todo[i] = todo[j] => i = j
  /\ \A i \in DOMAIN blocks, j \in DOMAIN todo : blocks[i].name # todo[j]
  /\ op = "list" => \A name \in Names(d) : \/ \E i \in DOMAIN blocks : blocks[i].name = name
                                           \/ \E j \in DOMAIN todo : todo[j] = name

ComposedOf(d, names, k, at, blocks, todo) ==
  /\ todo \in Seq(ToSet(names)) /\ Len(todo) = Len(names) - k
  /\ \A i \in DOMAIN todo : todo[i] = names[k + i]
  /\ blocks \in Seq(Whole(d)) /\ DOMAIN at = DOMAIN blocks
  /\ \A i, j \in DOMAIN at : i < j => at[i] < at[j]
  /\ \A i \in DOMAIN at : at[i] \in 1..k /\ blocks[i].name = names[at[i]]
  /\ \A i \in 1..k : names[i] \in Names(d) => \E j \in DOMAIN at : at[j] = i

Composed(d, blocks, todo) ==
  \E names \in Projects : \E k \in 0..Len(names) :
    \E at \in [DOMAIN blocks -> 1..k] : ComposedOf(d, names, k, at, blocks, todo)

Collected(d, op, blocks, todo) ==
  IF op = "compose" THEN Composed(d, blocks, todo) ELSE Gathered(d, op, blocks, todo)

(* A block whose events are still to be read.                              *)
HalfBlock(d, row) ==
  [name |-> row.name, schema |-> row.schema, sources |-> ContainerOf(d, row).sources]

FullOps == {"list", "compose"}

Asking(t, w) ==
  /\ w = [at |-> w.at, op |-> w.op, todo |-> w.todo, blocks |-> w.blocks]
  /\ w.op \in Reads(t)

AtRow(t, w) ==
  /\ w = [at |-> w.at, op |-> w.op, todo |-> w.todo, blocks |-> w.blocks, row |-> w.row]
  /\ w.op \in Reads(t) \cap FullOps

ReaderOK(d, t, w) ==
  \/ w \in [at : {"idle", "reply"}]
  \/ t = "admin" /\ w \in UploadWork
  \/ /\ Asking(t, w)
     /\ \/ /\ w.at = "shared" /\ w.blocks = <<>>
           /\ w.op = "compose" => w.todo \in Projects
        \/ w.at = "select" /\ w.op # "compose" /\ w.blocks = <<>>
        \/ w.at = "row" /\ Collected(d, w.op, w.blocks, w.todo)
        \/ w.at \in {"again", "inner"} /\ w.op = "table" /\ w.blocks = <<>>
        \/ /\ w.at \in {"again", "inner"} /\ w.op = "search" /\ w.todo # <<>>
           /\ Collected(d, w.op, w.blocks, w.todo)
  \/ /\ AtRow(t, w) /\ w.row \in d.uml
     /\ \/ /\ w.at = "sources" /\ w.blocks \in Seq(Whole(d))
           /\ Collected(d, w.op, Append(w.blocks, ContainerOf(d, w.row)), w.todo)
        \/ /\ w.at = "readevents" /\ Front(w.blocks) \in Seq(Whole(d))
           /\ w.blocks = Append(Front(w.blocks), HalfBlock(d, w.row))
           /\ Collected(d, w.op, Append(Front(w.blocks), ContainerOf(d, w.row)), w.todo)

Told == {"accepted", "duplicate", "ok"}

Inductive ==
  /\ TablesOK(db) /\ TablesOK(disk)
  /\ work = [t \in Threads |-> work[t]] /\ answer = [t \in Threads |-> answer[t]]
  /\ responses \in [Uploads -> Seq(Told)]
  /\ LockOK /\ CreationOK(db, Writing, responses)
  /\ \A t \in Threads : ReaderOK(db, t, work[t])
-----------------------------------------------------------------------------
(* The tables, statement by statement.                                     *)
LEMMA RowInserted ==
  ASSUME NEW d, TablesOK(d), NEW name, NEW schema, name \notin Names(d),
         NEW id, id = Cardinality(d.uml) + 1,
         NEW row, row = [id |-> id, name |-> name, schema |-> schema],
         NEW e, e = [d EXCEPT !.uml = d.uml \cup {row}]
  PROVE  /\ TablesOK(e) /\ row \in e.uml /\ e.uml = d.uml \cup {row}
         /\ e.src = d.src /\ e.events = d.events
         /\ id \in Nat /\ id \notin RowIds(d) /\ \A r \in d.uml : r.id # id
         /\ RowsOf(e.src, id) = {} /\ RowsOf(e.events, id) = {}
<1>1. PICK n \in Nat : n = Cardinality(d.uml) /\ RowIds(d) = 1..n
  BY FS_CardinalityType DEF TablesOK
<1>2. id = n + 1 /\ id \in Nat /\ id \notin RowIds(d) /\ row.id = id /\ row.name = name
  BY <1>1
<1>3. \A r \in d.uml : r.id # id /\ r.name # name
  BY <1>2 DEF RowIds, Names
<1>4. /\ e.uml = d.uml \cup {row} /\ e.src = d.src /\ e.events = d.events
      /\ e = [uml |-> e.uml, src |-> e.src, events |-> e.events]
  BY DEF TablesOK
<1>5. IsFiniteSet(e.uml) /\ Cardinality(e.uml) = n + 1
  BY <1>1, <1>2, <1>3, <1>4, FS_AddElement DEF TablesOK
<1>6. RowIds(e) = 1..(n + 1)
  <2>1. \A x : x \in RowIds(e) <=> x \in RowIds(d) \/ x = id
    BY <1>2, <1>4 DEF RowIds
  <2>2. \A x : x \in 1..(n + 1) <=> x \in 1..n \/ x = n + 1
    OBVIOUS
  <2> QED  BY <1>1, <1>2, <2>1, <2>2
<1>7. \A s \in d.src : s.uml # id
  BY <1>2 DEF TablesOK
<1>8. \A v \in d.events : v.uml # id
  BY <1>2 DEF TablesOK
<1>9. RowIds(d) \subseteq RowIds(e)
  BY <1>4 DEF RowIds
<1>10. TablesOK(e)
  <2>1. \A r \in e.uml : r = [id |-> r.id, name |-> r.name, schema |-> r.schema]
    BY <1>4 DEF TablesOK
  <2>2. \A r, other \in e.uml : r.id = other.id \/ r.name = other.name => r = other
    BY <1>2, <1>3, <1>4 DEF TablesOK
  <2>3. (\A s \in e.src : s.uml \in RowIds(e)) /\ (\A v \in e.events : v.uml \in RowIds(e))
    BY <1>4, <1>9 DEF TablesOK
  <2> QED  BY <1>4, <1>5, <1>6, <2>1, <2>2, <2>3 DEF TablesOK
<1> QED  BY <1>2, <1>3, <1>4, <1>7, <1>8, <1>10 DEF RowsOf

LEMMA SourceInserted ==
  ASSUME NEW d, TablesOK(d), NEW row, row.uml \in RowIds(d),
         NEW e, e = [d EXCEPT !.src = d.src \cup {row}]
  PROVE  /\ TablesOK(e) /\ e.uml = d.uml /\ e.events = d.events
         /\ ToSources(RowsOf(e.src, row.uml))
              = ToSources(RowsOf(d.src, row.uml)) \cup {[type |-> row.type, content |-> row.content]}
         /\ \A other : other # row.uml => RowsOf(e.src, other) = RowsOf(d.src, other)
<1>1. /\ e.uml = d.uml /\ e.src = d.src \cup {row} /\ e.events = d.events
      /\ e = [uml |-> e.uml, src |-> e.src, events |-> e.events]
  BY DEF TablesOK
<1>2. RowIds(e) = RowIds(d)
  BY <1>1 DEF RowIds
<1>3. TablesOK(e)
  BY <1>1, <1>2 DEF TablesOK
<1>4. RowsOf(e.src, row.uml) = RowsOf(d.src, row.uml) \cup {row}
  BY <1>1 DEF RowsOf
<1>5. ToSources(RowsOf(e.src, row.uml))
        = ToSources(RowsOf(d.src, row.uml)) \cup {[type |-> row.type, content |-> row.content]}
  <2> DEFINE Shown(s) == [type |-> s.type, content |-> s.content]
  <2>1. \A rows : ToSources(rows) = {Shown(s) : s \in rows}
    BY DEF ToSources
  <2> HIDE DEF Shown
  <2>2. ToSources(RowsOf(e.src, row.uml)) = ToSources(RowsOf(d.src, row.uml)) \cup {Shown(row)}
    BY <1>4, <2>1
  <2> QED  BY <2>2 DEF Shown
<1>6. \A other : other # row.uml => RowsOf(e.src, other) = RowsOf(d.src, other)
  BY <1>1 DEF RowsOf
<1> QED  BY <1>1, <1>3, <1>5, <1>6

LEMMA EventInserted ==
  ASSUME NEW d, TablesOK(d), NEW row, row.uml \in RowIds(d),
         NEW e, e = [d EXCEPT !.events = Replaced(d.events, row)]
  PROVE  /\ TablesOK(e) /\ e.uml = d.uml /\ e.src = d.src
         /\ ToEvents(RowsOf(e.events, row.uml))
              = {v \in ToEvents(RowsOf(d.events, row.uml)) : v.event # row.event}
                  \cup {[event |-> row.event, target |-> row.target]}
         /\ \A other : other # row.uml => RowsOf(e.events, other) = RowsOf(d.events, other)
<1>1. /\ e.uml = d.uml /\ e.src = d.src /\ e.events = Replaced(d.events, row)
      /\ e = [uml |-> e.uml, src |-> e.src, events |-> e.events]
  BY DEF TablesOK
<1>2. RowIds(e) = RowIds(d)
  BY <1>1 DEF RowIds
<1>3. e.events \subseteq d.events \cup {row}
  BY <1>1 DEF Replaced
<1>4. TablesOK(e)
  BY <1>1, <1>2, <1>3 DEF TablesOK
<1>5. RowsOf(e.events, row.uml) = {v \in RowsOf(d.events, row.uml) : v.event # row.event} \cup {row}
  BY <1>1 DEF RowsOf, Replaced
<1>6. ToEvents(RowsOf(e.events, row.uml))
        = {v \in ToEvents(RowsOf(d.events, row.uml)) : v.event # row.event}
            \cup {[event |-> row.event, target |-> row.target]}
  BY <1>1, <1>5 DEF ToEvents
<1>7. \A other : other # row.uml => RowsOf(e.events, other) = RowsOf(d.events, other)
  BY <1>1 DEF RowsOf, Replaced
<1> QED  BY <1>1, <1>4, <1>6, <1>7

(* Of the events with one name the last is kept.                           *)
LEMMA LastEventsGrow ==
  ASSUME NEW u \in Uploads, NEW n \in Nat, n + 1 <= Len(u.events)
  PROVE  LET e == u.events[n + 1]
         IN  LastEvents(u, n + 1) =
               IF e.event = NoName THEN LastEvents(u, n)
               ELSE {v \in LastEvents(u, n) : v.event # e.event} \cup {e}
<1> DEFINE e == u.events[n + 1]
           Latest(i, m) == /\ u.events[i].event # NoName
                           /\ \A j \in 1..m : u.events[j].event = u.events[i].event => j <= i
<1>1. \A i : i \in 1..(n + 1) <=> i \in 1..n \/ i = n + 1
  OBVIOUS
<1>2. \A i \in 1..n : Latest(i, n + 1) <=> Latest(i, n) /\ u.events[i].event # e.event
  BY <1>1
<1>3. Latest(n + 1, n + 1) <=> e.event # NoName
  OBVIOUS
<1>4. /\ \A v : v \in LastEvents(u, n) <=> \E i \in 1..n : Latest(i, n) /\ v = u.events[i]
      /\ \A v : v \in LastEvents(u, n + 1)
                  <=> \E i \in 1..(n + 1) : Latest(i, n + 1) /\ v = u.events[i]
  BY DEF LastEvents
<1> HIDE DEF Latest
<1>5. CASE e.event = NoName
  <2>1. \A i \in 1..n : Latest(i, n) => u.events[i].event # NoName
    BY DEF Latest
  <2>2. \A v : v \in LastEvents(u, n + 1) <=> v \in LastEvents(u, n)
    BY <1>1, <1>2, <1>3, <1>4, <1>5, <2>1
  <2> QED  BY <1>5, <2>2
<1>6. CASE e.event # NoName
  <2>1. \A v : v \in LastEvents(u, n + 1)
                 <=> (v \in LastEvents(u, n) /\ v.event # e.event) \/ v = e
    BY <1>1, <1>2, <1>3, <1>4, <1>6
  <2> QED  BY <1>6, <2>1
<1> QED  BY <1>5, <1>6

-----------------------------------------------------------------------------
(* Reading, row by row.                                                    *)
LEMMA HeadTaken ==
  ASSUME NEW S, NEW todo \in Seq(S), todo # <<>>
  PROVE  /\ Head(todo) \in S /\ Tail(todo) \in Seq(S) /\ Head(todo) = todo[1]
         /\ Len(todo) \in Nat \ {0} /\ Len(Tail(todo)) = Len(todo) - 1
         /\ DOMAIN todo = 1..Len(todo) /\ DOMAIN Tail(todo) = 1..(Len(todo) - 1)
         /\ \A i \in 1..(Len(todo) - 1) : Tail(todo)[i] = todo[i + 1] /\ i + 1 \in 1..Len(todo)
<1>1. /\ Tail(todo) \in Seq(S) /\ Head(todo) = todo[1] /\ Len(todo) \in Nat \ {0}
      /\ Len(Tail(todo)) = Len(todo) - 1 /\ todo[1] \in S
      /\ \A i \in 1..Len(Tail(todo)) : Tail(todo)[i] = todo[i + 1]
  BY HeadTailProperties, LenProperties, EmptySeq
<1> QED  BY <1>1, LenProperties

LEMMA Appended ==
  ASSUME NEW S, NEW s \in Seq(S), NEW x \in S
  PROVE  /\ Append(s, x) \in Seq(S) /\ Len(s) \in Nat /\ DOMAIN s = 1..Len(s)
         /\ DOMAIN Append(s, x) = 1..(Len(s) + 1) /\ Append(s, x)[Len(s) + 1] = x
         /\ \A i \in 1..Len(s) : Append(s, x)[i] = s[i]
         /\ \A i : i \in 1..(Len(s) + 1) <=> i \in 1..Len(s) \/ i = Len(s) + 1
BY AppendProperties, LenProperties

LEMMA TakeGathered ==
  ASSUME NEW d, NEW op, NEW blocks, NEW todo, Gathered(d, op, blocks, todo), todo # <<>>,
         NEW row \in d.uml, row.name = Head(todo)
  PROVE  Gathered(d, op, Append(blocks, BlockOf(op, ContainerOf(d, row))), Tail(todo))
<1> DEFINE x == BlockOf(op, ContainerOf(d, row))
           B == {BlockOf(op, c) : c \in Whole(d)}
           s == Append(blocks, x)
           r == Tail(todo)
           n == Len(blocks)
           m == Len(todo)
<1>1. /\ blocks \in Seq(B) /\ todo \in Seq(Names(d))
      /\ \A i, j \in DOMAIN blocks : blocks[i].name = blocks[j].name => i = j
      /\ \A i, j \in DOMAIN todo : todo[i] = todo[j] => i = j
      /\ \A i \in DOMAIN blocks, j \in DOMAIN todo : blocks[i].name # todo[j]
      /\ op = "list" => \A name \in Names(d) : \/ \E i \in DOMAIN blocks : blocks[i].name = name
                                               \/ \E j \in DOMAIN todo : todo[j] = name
  BY DEF Gathered
<1>2. x \in B /\ x.name = Head(todo)
  BY DEF Whole, BlockOf, ContainerOf
<1>3. /\ s \in Seq(B) /\ n \in Nat /\ DOMAIN blocks = 1..n /\ DOMAIN s = 1..(n + 1)
      /\ s[n + 1] = x /\ \A i \in 1..n : s[i] = blocks[i]
      /\ \A i : i \in 1..(n + 1) <=> i \in 1..n \/ i = n + 1
  <2> HIDE DEF B, x
  <2> QED  BY <1>1, <1>2, Appended
<1>4. /\ r \in Seq(Names(d)) /\ m \in Nat \ {0} /\ DOMAIN todo = 1..m /\ DOMAIN r = 1..(m - 1)
      /\ Head(todo) = todo[1] /\ \A i \in 1..(m - 1) : r[i] = todo[i + 1] /\ i + 1 \in 1..m
  <2>1. todo \in Seq(Names(d)) /\ todo # <<>>
    BY <1>1
  <2> QED  BY ONLY <2>1, HeadTaken
<1> HIDE DEF x, B, s, r, n, m
<1>5. /\ \A i, j \in 1..n : blocks[i].name = blocks[j].name => i = j
      /\ \A i, j \in 1..m : todo[i] = todo[j] => i = j
      /\ \A i \in 1..n, j \in 1..m : blocks[i].name # todo[j]
  BY <1>1, <1>3, <1>4
<1>6. 1 \in 1..m /\ n + 1 \notin 1..n /\ x.name = todo[1]
  BY <1>2, <1>3, <1>4
<1>7. \A i, j \in 1..(n + 1) : s[i].name = s[j].name => i = j
  <2> SUFFICES ASSUME NEW i \in 1..(n + 1), NEW j \in 1..(n + 1), s[i].name = s[j].name
               PROVE  i = j
    OBVIOUS
  <2>1. \A k \in 1..n : s[k].name # s[n + 1].name
    BY <1>3, <1>5, <1>6
  <2>2. CASE i \in 1..n /\ j \in 1..n
    BY <1>3, <1>5, <2>2
  <2>3. CASE i = n + 1 /\ j = n + 1
    BY <2>3
  <2> QED  BY <1>3, <2>1, <2>2, <2>3
<1>8. \A i, j \in 1..(m - 1) : r[i] = r[j] => i = j
  <2> SUFFICES ASSUME NEW i \in 1..(m - 1), NEW j \in 1..(m - 1), r[i] = r[j] PROVE i = j
    OBVIOUS
  <2>1. i + 1 \in 1..m /\ j + 1 \in 1..m /\ todo[i + 1] = todo[j + 1]
    BY <1>4
  <2>2. i + 1 = j + 1
    BY <1>5, <2>1
  <2> QED  BY <1>4, <2>2
<1>9. \A i \in 1..(n + 1), j \in 1..(m - 1) : s[i].name # r[j]
  <2> SUFFICES ASSUME NEW i \in 1..(n + 1), NEW j \in 1..(m - 1) PROVE s[i].name # r[j]
    OBVIOUS
  <2>1. r[j] = todo[j + 1] /\ j + 1 \in 1..m /\ j + 1 # 1
    BY <1>4
  <2>2. CASE i \in 1..n
    BY <1>3, <1>5, <2>1, <2>2
  <2>3. CASE i = n + 1
    BY <1>3, <1>5, <1>6, <2>1, <2>3
  <2> QED  BY <1>3, <2>2, <2>3
<1>10. op = "list" => \A name \in Names(d) : \/ \E i \in 1..(n + 1) : s[i].name = name
                                             \/ \E j \in 1..(m - 1) : r[j] = name
  <2> SUFFICES ASSUME op = "list", NEW name \in Names(d)
               PROVE  \/ \E i \in 1..(n + 1) : s[i].name = name
                      \/ \E j \in 1..(m - 1) : r[j] = name
    OBVIOUS
  <2>1. CASE \E i \in 1..n : blocks[i].name = name
    BY <1>3, <2>1
  <2>2. ASSUME NEW j \in 1..m, todo[j] = name
        PROVE  \/ \E i \in 1..(n + 1) : s[i].name = name
               \/ \E h \in 1..(m - 1) : r[h] = name
    <3>1. CASE j = 1
      BY <1>3, <1>6, <2>2, <3>1
    <3>2. CASE j # 1
      <4>1. j - 1 \in 1..(m - 1) /\ (j - 1) + 1 = j
        BY <1>4, <3>2
      <4>2. r[j - 1] = name
        BY <1>4, <2>2, <4>1
      <4> QED  BY <4>1, <4>2
    <3> QED  BY <3>1, <3>2
  <2>3. (\E i \in 1..n : blocks[i].name = name) \/ \E j \in 1..m : todo[j] = name
    BY <1>1, <1>3, <1>4
  <2> QED  BY <2>1, <2>2, <2>3
<1>11. /\ s \in Seq(B) /\ r \in Seq(Names(d)) /\ DOMAIN s = 1..(n + 1) /\ DOMAIN r = 1..(m - 1)
  BY <1>3, <1>4
<1>12. Gathered(d, op, s, r)
  BY <1>7, <1>8, <1>9, <1>10, <1>11 DEF Gathered, B
<1> QED  BY <1>12 DEF s, r, x

LEMMA PassGathered ==
  ASSUME NEW d, NEW op, NEW blocks, NEW todo, Gathered(d, op, blocks, todo), todo # <<>>,
         op # "list"
  PROVE  Gathered(d, op, blocks, Tail(todo))
<1> DEFINE r == Tail(todo)
           m == Len(todo)
<1>1. /\ todo \in Seq(Names(d)) /\ blocks \in Seq({BlockOf(op, c) : c \in Whole(d)})
      /\ \A i, j \in DOMAIN blocks : blocks[i].name = blocks[j].name => i = j
      /\ \A i, j \in DOMAIN todo : todo[i] = todo[j] => i = j
      /\ \A i \in DOMAIN blocks, j \in DOMAIN todo : blocks[i].name # todo[j]
  BY DEF Gathered
<1>2. /\ r \in Seq(Names(d)) /\ m \in Nat \ {0} /\ DOMAIN todo = 1..m /\ DOMAIN r = 1..(m - 1)
      /\ \A i \in 1..(m - 1) : r[i] = todo[i + 1] /\ i + 1 \in 1..m
  <2>1. todo \in Seq(Names(d)) /\ todo # <<>>
    BY <1>1
  <2> QED  BY ONLY <2>1, HeadTaken
<1> HIDE DEF r, m
<1>3. /\ \A i, j \in 1..m : todo[i] = todo[j] => i = j
      /\ \A i \in DOMAIN blocks, j \in 1..m : blocks[i].name # todo[j]
  BY <1>1, <1>2
<1>4. \A i, j \in 1..(m - 1) : r[i] = r[j] => i = j
  <2> SUFFICES ASSUME NEW i \in 1..(m - 1), NEW j \in 1..(m - 1), r[i] = r[j] PROVE i = j
    OBVIOUS
  <2>1. i + 1 \in 1..m /\ j + 1 \in 1..m /\ todo[i + 1] = todo[j + 1]
    BY <1>2
  <2>2. i + 1 = j + 1
    BY <1>3, <2>1
  <2> QED  BY <1>2, <2>2
<1>5. \A i \in DOMAIN blocks, j \in 1..(m - 1) : blocks[i].name # r[j]
  BY <1>2, <1>3
<1>6. Gathered(d, op, blocks, r)
  BY <1>1, <1>2, <1>4, <1>5 DEF Gathered
<1> QED  BY <1>6 DEF r

(* What a composition has, from what it has been through.                  *)
LEMMA ComposedParts ==
  ASSUME NEW d, NEW blocks, NEW todo, Composed(d, blocks, todo)
  PROVE  \E names \in Projects, l \in Nat, k \in Nat, n \in Nat :
           /\ l = Len(names) /\ DOMAIN names = 1..l /\ names \in Seq(ToSet(names)) /\ k <= l
           /\ n = Len(blocks) /\ DOMAIN blocks = 1..n
           /\ \E at \in [1..n -> 1..k] : ComposedOf(d, names, k, at, blocks, todo)
<1>1. PICK names \in Projects : \E k \in 0..Len(names) :
        \E at \in [DOMAIN blocks -> 1..k] : ComposedOf(d, names, k, at, blocks, todo)
  BY DEF Composed
<1>2. names \in Seq(ToSet(names))
  BY UmlConstants
<1>3. Len(names) \in Nat /\ DOMAIN names = 1..Len(names)
  BY <1>2, LenProperties
<1>4. PICK k \in 0..Len(names) :
        \E at \in [DOMAIN blocks -> 1..k] : ComposedOf(d, names, k, at, blocks, todo)
  BY <1>1
<1>5. PICK at \in [DOMAIN blocks -> 1..k] : ComposedOf(d, names, k, at, blocks, todo)
  BY <1>4
<1>6. blocks \in Seq(Whole(d))
  BY <1>5 DEF ComposedOf
<1>7. Len(blocks) \in Nat /\ DOMAIN blocks = 1..Len(blocks)
  BY <1>6, LenProperties
<1>8. k \in Nat /\ k <= Len(names)
  BY <1>3
<1> QED  BY <1>2, <1>3, <1>5, <1>7, <1>8

LEMMA ComposeStarts ==
  ASSUME NEW d, NEW names \in Projects
  PROVE  Composed(d, <<>>, names)
<1>1. names \in Seq(ToSet(names))
  BY UmlConstants
<1>2. Len(names) \in Nat /\ DOMAIN names = 1..Len(names) /\ 0 \in 0..Len(names)
  BY <1>1, LenProperties
<1>3. <<>> \in Seq(Whole(d)) /\ DOMAIN <<>> = {} /\ <<>> \in [DOMAIN <<>> -> 1..0]
  BY EmptySeq
<1>4. /\ Len(names) = Len(names) - 0 /\ 1..0 = {}
      /\ \A i \in DOMAIN names : names[i] = names[0 + i]
  BY <1>2
<1>5. ComposedOf(d, names, 0, <<>>, <<>>, names)
  BY <1>1, <1>3, <1>4 DEF ComposedOf
<1> QED  BY <1>2, <1>3, <1>5 DEF Composed

LEMMA TakeComposed ==
  ASSUME NEW d, NEW blocks, NEW todo, Composed(d, blocks, todo), todo # <<>>,
         NEW row \in d.uml, row.name = Head(todo)
  PROVE  Composed(d, Append(blocks, ContainerOf(d, row)), Tail(todo))
<1> DEFINE x == ContainerOf(d, row)
           s == Append(blocks, x)
           r == Tail(todo)
<1>1. PICK names \in Projects, l \in Nat, k \in Nat, n \in Nat :
        /\ l = Len(names) /\ DOMAIN names = 1..l /\ names \in Seq(ToSet(names)) /\ k <= l
        /\ n = Len(blocks) /\ DOMAIN blocks = 1..n
        /\ \E at \in [1..n -> 1..k] : ComposedOf(d, names, k, at, blocks, todo)
  BY ComposedParts
<1>2. PICK at \in [1..n -> 1..k] : ComposedOf(d, names, k, at, blocks, todo)
  BY <1>1
<1>3. /\ todo \in Seq(ToSet(names)) /\ Len(todo) = l - k /\ blocks \in Seq(Whole(d))
      /\ \A i \in DOMAIN todo : todo[i] = names[k + i]
      /\ \A i, j \in 1..n : i < j => at[i] < at[j]
      /\ \A i \in 1..n : at[i] \in 1..k /\ blocks[i].name = names[at[i]]
      /\ \A i \in 1..k : names[i] \in Names(d) => \E j \in 1..n : at[j] = i
  BY <1>1, <1>2 DEF ComposedOf
<1>4. /\ r \in Seq(ToSet(names)) /\ l - k \in Nat \ {0}
      /\ Len(r) = (l - k) - 1 /\ Head(todo) = todo[1]
      /\ DOMAIN todo = 1..(l - k) /\ DOMAIN r = 1..((l - k) - 1)
      /\ \A i \in 1..((l - k) - 1) : r[i] = todo[i + 1] /\ i + 1 \in 1..(l - k)
  <2>1. todo \in Seq(ToSet(names)) /\ todo # <<>> /\ Len(todo) = l - k
    BY <1>3
  <2> QED  BY ONLY <2>1, HeadTaken
<1>5. x \in Whole(d) /\ x.name = Head(todo)
  BY DEF Whole, ContainerOf
<1> HIDE DEF x
<1>6. /\ s \in Seq(Whole(d)) /\ DOMAIN s = 1..(n + 1) /\ s[n + 1] = x
      /\ \A i \in 1..n : s[i] = blocks[i]
      /\ \A i : i \in 1..(n + 1) <=> i \in 1..n \/ i = n + 1
  <2>1. blocks \in Seq(Whole(d)) /\ n = Len(blocks)
    BY <1>1, <1>3
  <2> QED  BY ONLY <1>5, <2>1, Appended
<1> HIDE DEF s, r
<1>7. PICK now \in [1..(n + 1) -> 1..(k + 1)] : now = [i \in 1..(n + 1) |-> IF i \in 1..n THEN at[i] ELSE k + 1]
  <2>1. [i \in 1..(n + 1) |-> IF i \in 1..n THEN at[i] ELSE k + 1] \in [1..(n + 1) -> 1..(k + 1)]
    BY <1>3
  <2> QED  BY <2>1
<1>8. now[n + 1] = k + 1 /\ (\A i \in 1..n : now[i] = at[i]) /\ k + 1 <= l /\ n + 1 \notin 1..n
  BY <1>4, <1>7
<1>9. names[k + 1] = Head(todo)
  <2>1. 1 \in DOMAIN todo
    BY <1>4
  <2> QED  BY <1>3, <1>4, <2>1
<1>10. \A i, j \in 1..(n + 1) : i < j => now[i] < now[j]
  <2> SUFFICES ASSUME NEW i \in 1..(n + 1), NEW j \in 1..(n + 1), i < j PROVE now[i] < now[j]
    OBVIOUS
  <2>1. i \in 1..n /\ now[i] = at[i] /\ at[i] \in 1..k
    BY <1>3, <1>8
  <2>2. CASE j \in 1..n
    BY <1>3, <1>8, <2>1, <2>2
  <2>3. CASE j = n + 1
    BY <1>8, <2>1, <2>3
  <2> QED  BY <1>6, <2>2, <2>3
<1>11. \A i \in 1..(n + 1) : now[i] \in 1..(k + 1) /\ s[i].name = names[now[i]]
  <2> SUFFICES ASSUME NEW i \in 1..(n + 1) PROVE s[i].name = names[now[i]]
    BY <1>7
  <2>1. CASE i \in 1..n
    BY <1>3, <1>6, <1>8, <2>1
  <2>2. CASE i = n + 1
    BY <1>5, <1>6, <1>8, <1>9, <2>2
  <2> QED  BY <1>6, <2>1, <2>2
<1>12. \A i \in 1..(k + 1) : names[i] \in Names(d) => \E j \in 1..(n + 1) : now[j] = i
  <2> SUFFICES ASSUME NEW i \in 1..(k + 1), names[i] \in Names(d)
               PROVE  \E j \in 1..(n + 1) : now[j] = i
    OBVIOUS
  <2>1. CASE i \in 1..k
    <3>1. PICK j \in 1..n : at[j] = i
      BY <1>3, <2>1
    <3> QED  BY <1>6, <1>8, <3>1
  <2>2. CASE i = k + 1
    BY <1>8, <2>2
  <2> QED  BY <2>1, <2>2
<1>13. \A i \in 1..((l - k) - 1) : r[i] = names[(k + 1) + i]
  <2> SUFFICES ASSUME NEW i \in 1..((l - k) - 1) PROVE r[i] = names[(k + 1) + i]
    OBVIOUS
  <2>1. r[i] = todo[i + 1] /\ i + 1 \in 1..(l - k) /\ k + (i + 1) = (k + 1) + i
    BY <1>4
  <2>2. todo[i + 1] = names[k + (i + 1)]
    BY <1>3, <1>4, <2>1
  <2> QED  BY <2>1, <2>2
<1>14. Len(r) = Len(names) - (k + 1)
  BY <1>1, <1>4
<1>15. DOMAIN now = DOMAIN s
  BY <1>6, <1>7
<1>16. ComposedOf(d, names, k + 1, now, s, r)
  BY <1>4, <1>6, <1>10, <1>11, <1>12, <1>13, <1>14, <1>15 DEF ComposedOf
<1>17. k + 1 \in 0..Len(names) /\ now \in [DOMAIN s -> 1..(k + 1)]
  BY <1>1, <1>6, <1>8
<1>18. Composed(d, s, r)
  BY <1>16, <1>17 DEF Composed
<1> QED  BY <1>18 DEF s, r, x

LEMMA PassComposed ==
  ASSUME NEW d, NEW blocks, NEW todo, Composed(d, blocks, todo), todo # <<>>,
         Head(todo) \notin Names(d)
  PROVE  Composed(d, blocks, Tail(todo))
<1> DEFINE r == Tail(todo)
<1>1. PICK names \in Projects, l \in Nat, k \in Nat, n \in Nat :
        /\ l = Len(names) /\ DOMAIN names = 1..l /\ names \in Seq(ToSet(names)) /\ k <= l
        /\ n = Len(blocks) /\ DOMAIN blocks = 1..n
        /\ \E at \in [1..n -> 1..k] : ComposedOf(d, names, k, at, blocks, todo)
  BY ComposedParts
<1>2. PICK at \in [1..n -> 1..k] : ComposedOf(d, names, k, at, blocks, todo)
  BY <1>1
<1>3. /\ todo \in Seq(ToSet(names)) /\ Len(todo) = l - k /\ blocks \in Seq(Whole(d))
      /\ \A i \in DOMAIN todo : todo[i] = names[k + i]
      /\ \A i, j \in 1..n : i < j => at[i] < at[j]
      /\ \A i \in 1..n : at[i] \in 1..k /\ blocks[i].name = names[at[i]]
      /\ \A i \in 1..k : names[i] \in Names(d) => \E j \in 1..n : at[j] = i
  BY <1>1, <1>2 DEF ComposedOf
<1>4. /\ r \in Seq(ToSet(names)) /\ l - k \in Nat \ {0}
      /\ Len(r) = (l - k) - 1 /\ Head(todo) = todo[1]
      /\ DOMAIN todo = 1..(l - k) /\ DOMAIN r = 1..((l - k) - 1)
      /\ \A i \in 1..((l - k) - 1) : r[i] = todo[i + 1] /\ i + 1 \in 1..(l - k)
  <2>1. todo \in Seq(ToSet(names)) /\ todo # <<>> /\ Len(todo) = l - k
    BY <1>3
  <2> QED  BY ONLY <2>1, HeadTaken
<1> HIDE DEF r
<1>5. names[k + 1] \notin Names(d)
  <2>1. 1 \in DOMAIN todo
    BY <1>4
  <2> QED  BY <1>3, <1>4, <2>1
<1>6. \A i \in 1..n : at[i] \in 1..(k + 1) /\ blocks[i].name = names[at[i]]
  BY <1>3
<1>7. \A i \in 1..(k + 1) : names[i] \in Names(d) => \E j \in 1..n : at[j] = i
  BY <1>3, <1>5
<1>8. \A i \in 1..((l - k) - 1) : r[i] = names[(k + 1) + i]
  <2> SUFFICES ASSUME NEW i \in 1..((l - k) - 1) PROVE r[i] = names[(k + 1) + i]
    OBVIOUS
  <2>1. r[i] = todo[i + 1] /\ i + 1 \in 1..(l - k) /\ k + (i + 1) = (k + 1) + i
    BY <1>4
  <2>2. todo[i + 1] = names[k + (i + 1)]
    BY <1>3, <1>4, <2>1
  <2> QED  BY <2>1, <2>2
<1>9. Len(r) = Len(names) - (k + 1) /\ k + 1 \in 0..Len(names)
  BY <1>1, <1>4
<1>10. DOMAIN at = DOMAIN blocks /\ at \in [DOMAIN blocks -> 1..(k + 1)]
  BY <1>1, <1>6
<1>11. ComposedOf(d, names, k + 1, at, blocks, r)
  BY <1>1, <1>3, <1>4, <1>6, <1>7, <1>8, <1>9, <1>10 DEF ComposedOf
<1>12. Composed(d, blocks, r)
  BY <1>9, <1>10, <1>11 DEF Composed
<1> QED  BY <1>12 DEF r

LEMMA TakeFull ==
  ASSUME NEW d, NEW op \in FullOps, NEW blocks, NEW todo, Collected(d, op, blocks, todo),
         todo # <<>>, NEW row \in d.uml, row.name = Head(todo)
  PROVE  /\ Collected(d, op, Append(blocks, ContainerOf(d, row)), Tail(todo))
         /\ blocks \in Seq(Whole(d))
<1>1. CASE op = "compose"
  <2>1. Composed(d, blocks, todo)
    BY <1>1 DEF Collected
  <2>2. blocks \in Seq(Whole(d))
    BY <2>1 DEF Composed, ComposedOf
  <2> QED  BY <1>1, <2>1, <2>2, TakeComposed DEF Collected
<1>2. CASE op = "list"
  <2>1. Gathered(d, op, blocks, todo) /\ \A c : BlockOf(op, c) = c
    BY <1>2 DEF Collected, BlockOf
  <2>2. blocks \in Seq({BlockOf(op, c) : c \in Whole(d)})
    BY <2>1 DEF Gathered
  <2>3. {BlockOf(op, c) : c \in Whole(d)} = Whole(d)
    BY <2>1
  <2>4. Gathered(d, op, Append(blocks, BlockOf(op, ContainerOf(d, row))), Tail(todo))
    BY <2>1, TakeGathered
  <2>5. BlockOf(op, ContainerOf(d, row)) = ContainerOf(d, row)
    BY <2>1
  <2>6. Gathered(d, op, Append(blocks, ContainerOf(d, row)), Tail(todo))
    BY <2>4, <2>5
  <2> QED  BY <1>2, <2>2, <2>3, <2>6 DEF Collected
<1> QED  BY <1>1, <1>2 DEF FullOps

(* The list of rows a reader begins with.                                  *)
LEMMA Listed ==
  ASSUME NEW S, IsFiniteSet(S)
  PROVE  /\ SetToSeq(S) \in Seq(S)
         /\ \A i, j \in DOMAIN SetToSeq(S) : SetToSeq(S)[i] = SetToSeq(S)[j] => i = j
         /\ \A x \in S : \E i \in DOMAIN SetToSeq(S) : SetToSeq(S)[i] = x
<1>1. PICK n \in Nat : n = Cardinality(S) /\ ExistsBijection(1..n, S)
  BY FS_CardinalityType
<1>2. \E f \in [1..n -> S] : IsInjective(f)
  BY <1>1 DEF ExistsBijection, Bijection, Injection
<1>3. SetToSeq(S) \in [1..n -> S] /\ IsInjective(SetToSeq(S))
  BY <1>1, <1>2 DEF SetToSeq
<1>4. IsFiniteSet(1..n) /\ Cardinality(1..n) = n
  BY FS_Interval
<1>5. SetToSeq(S) \in Injection(1..n, S)
  BY <1>3 DEF Injection
<1>6. SetToSeq(S) \in Surjection(1..n, S)
  BY <1>1, <1>4, <1>5, FS_Injection
<1>7. SetToSeq(S) \in Seq(S)
  BY <1>3, SeqDef
<1> QED  BY <1>3, <1>6, <1>7 DEF Surjection, IsInjective

LEMMA NamesFinite ==
  ASSUME NEW d, TablesOK(d)
  PROVE  IsFiniteSet(Names(d))
<1> DEFINE f == [row \in d.uml |-> row.name]
<1>1. f \in Surjection(d.uml, Names(d))
  BY DEF Surjection, Names
<1>2. IsFiniteSet(d.uml)
  BY DEF TablesOK
<1> QED  BY <1>1, <1>2, FS_Surjection

LEMMA RowsListed ==
  ASSUME NEW d, TablesOK(d), NEW rows, rows = Names(d) \/ rows = {}, NEW op,
         op = "list" => rows = Names(d)
  PROVE  Gathered(d, op, <<>>, SetToSeq(rows))
<1> DEFINE r == SetToSeq(rows)
<1>1. IsFiniteSet(rows) /\ rows \subseteq Names(d)
  BY NamesFinite, FS_EmptySet
<1>2. /\ r \in Seq(rows) /\ \A i, j \in DOMAIN r : r[i] = r[j] => i = j
      /\ \A x \in rows : \E i \in DOMAIN r : r[i] = x
  BY <1>1, Listed
<1> HIDE DEF r
<1>3. r \in Seq(Names(d))
  BY <1>1, <1>2, SeqDef
<1>4. <<>> \in Seq({BlockOf(op, c) : c \in Whole(d)}) /\ DOMAIN <<>> = {}
  BY EmptySeq
<1>5. Gathered(d, op, <<>>, r)
  BY <1>2, <1>3, <1>4 DEF Gathered
<1> QED  BY <1>5 DEF r

-----------------------------------------------------------------------------
(* One thread moves.                                                       *)
ReaderAt == {"idle", "reply", "shared", "inner"} \cup Sharing

LEMMA Moved ==
  ASSUME work = [t \in Threads |-> work[t]], NEW t \in Threads, NEW w, Goto(t, w)
  PROVE  /\ work' = [u \in Threads |-> work'[u]] /\ work'[t] = w
         /\ \A u \in Threads : u # t => work'[u] = work[u]
BY DEF Goto

LEMMA LockMoves ==
  ASSUME LockOK, work = [t \in Threads |-> work[t]], NEW t \in Threads, NEW w, Goto(t, w),
         work[t].at \in ReaderAt, w.at \in ReaderAt, UNCHANGED writer,
         \/ UNCHANGED readers /\ Held(w.at) = Held(work[t].at)
         \/ Share(t) /\ Held(w.at) = Held(work[t].at) + 1
         \/ Unshare(t) /\ Held(w.at) = Held(work[t].at) - 1
  PROVE  LockOK'
<1>1. work'[t] = w /\ \A u \in Threads : u # t => work'[u] = work[u]
  BY Moved
<1>2. \A at : Held(at) \in 0..2
  BY DEF Held
<1>3. readers = [u \in Threads |-> Held(work[u].at)] /\ writer = (Writing.at \in WriterAt)
  BY DEF LockOK
<1>4. readers' = [u \in Threads |-> Held(work'[u].at)]
  BY <1>1, <1>2, <1>3 DEF Share, Unshare
<1>5. ReaderAt \cap WriterAt = {}
  BY DEF ReaderAt, WriterAt, Sharing
<1>6. writer' = (Writing'.at \in WriterAt)
  BY <1>1, <1>3, <1>5 DEF Writing, Threads
<1>7. ASSUME writer' PROVE \A u \in Threads : readers'[u] = 0
  <2>1. \A u \in Threads : readers[u] = 0
    BY <1>7 DEF LockOK
  <2>2. Held(work[t].at) = 0
    BY <1>3, <2>1
  <2>3. Held(w.at) = 0
    BY <1>2, <1>7, <2>2 DEF Share, MayRead
  <2> QED  BY <1>1, <1>3, <1>4, <2>1, <2>3
<1> QED  BY <1>4, <1>6, <1>7 DEF LockOK

LEMMA ReaderMoves ==
  ASSUME Inductive, NEW t \in Threads, NEW w, Goto(t, w), UNCHANGED <<db, disk, responses>>,
         answer' = [u \in Threads |-> answer'[u]], LockOK', ReaderOK(db, t, w), w.at \in ReaderAt
  PROVE  Inductive'
<1>1. /\ work' = [u \in Threads |-> work'[u]] /\ work'[t] = w
      /\ \A u \in Threads : u # t => work'[u] = work[u]
  BY Moved DEF Inductive
<1>2. \A u \in Threads : ReaderOK(db, u, work'[u])
  BY <1>1 DEF Inductive
<1>3. CreationOK(db, work'["admin"], responses)
  <2>1. CASE t = "admin"
    <3>1. w.at \notin WriterAt \cup {"exclusive"} /\ w \notin UploadWork
      BY DEF ReaderAt, WriterAt, Sharing, UploadWork
    <3> QED  BY <1>1, <2>1, <3>1 DEF CreationOK, WriterAt
  <2>2. CASE t # "admin"
    BY <1>1, <2>2 DEF Inductive, Writing, Threads
  <2> QED  BY <2>1, <2>2
<1> QED  BY <1>1, <1>2, <1>3 DEF Inductive, Writing

(* Where a reader is, and what it has with it.                             *)
LEMMA ReaderShape ==
  ASSUME NEW d, NEW t, NEW w, ReaderOK(d, t, w)
  PROVE  /\ w.at = "shared" =>
              /\ Asking(t, w) /\ w.blocks = <<>>
              /\ w.op = "compose" => w.todo \in Projects
         /\ w.at = "select" => Asking(t, w) /\ w.op # "compose" /\ w.blocks = <<>>
         /\ w.at = "row" => Asking(t, w) /\ Collected(d, w.op, w.blocks, w.todo)
         /\ w.at \in {"again", "inner"} =>
              /\ Asking(t, w)
              /\ \/ w.op = "table" /\ w.blocks = <<>>
                 \/ w.op = "search" /\ w.todo # <<>> /\ Collected(d, w.op, w.blocks, w.todo)
         /\ w.at = "sources" =>
              /\ AtRow(t, w) /\ w.row \in d.uml /\ w.blocks \in Seq(Whole(d))
              /\ Collected(d, w.op, Append(w.blocks, ContainerOf(d, w.row)), w.todo)
         /\ w.at = "readevents" =>
              /\ AtRow(t, w) /\ w.row \in d.uml /\ Front(w.blocks) \in Seq(Whole(d))
              /\ w.blocks = Append(Front(w.blocks), HalfBlock(d, w.row))
              /\ Collected(d, w.op, Append(Front(w.blocks), ContainerOf(d, w.row)), w.todo)
         /\ w.at \in WriterAt \cup {"exclusive"} => t = "admin" /\ w \in UploadWork
<1>1. CASE w \in [at : {"idle", "reply"}]
  BY <1>1 DEF WriterAt
<1>2. CASE t = "admin" /\ w \in UploadWork
  BY <1>2 DEF UploadWork
<1>3. CASE Asking(t, w) /\ w.at \in {"shared", "select", "row", "again", "inner"}
  BY <1>3 DEF ReaderOK, WriterAt, UploadWork, AtRow
<1>4. CASE AtRow(t, w) /\ w.at \in {"sources", "readevents"}
  BY <1>4 DEF ReaderOK, WriterAt, UploadWork, Asking
<1> QED  BY <1>1, <1>2, <1>3, <1>4 DEF ReaderOK

-----------------------------------------------------------------------------
(* The readers' actions.                                                   *)
LEMMA InductiveParts ==
  ASSUME Inductive, NEW t \in Threads
  PROVE  /\ TablesOK(db) /\ work = [u \in Threads |-> work[u]] /\ LockOK
         /\ answer = [u \in Threads |-> answer[u]] /\ ReaderOK(db, t, work[t])
BY DEF Inductive

LEMMA AskReadInductive ==
  ASSUME Inductive, NEW t \in Threads, NEW op, NEW names, AskRead(t, op, names),
         op = "compose" => names \in Projects
  PROVE  Inductive'
<1> DEFINE w == [at |-> "shared", op |-> op, todo |-> names, blocks |-> <<>>]
<1>1. Goto(t, w) /\ op \in Reads(t) /\ work[t].at = "idle"
  BY DEF AskRead, Idle
<1>2. w.at = "shared" /\ Asking(t, w) /\ w.op = op /\ w.todo = names /\ w.blocks = <<>>
  BY <1>1 DEF Asking
<1> HIDE DEF w
<1>3. ReaderOK(db, t, w)
  BY <1>2 DEF ReaderOK
<1>4. w.at \in ReaderAt /\ work[t].at \in ReaderAt /\ Held(w.at) = Held(work[t].at)
  BY <1>1, <1>2 DEF ReaderAt, Held, Sharing
<1>5. LockOK'
  BY <1>1, <1>4, InductiveParts, LockMoves DEF AskRead
<1> QED  BY <1>1, <1>3, <1>4, <1>5, InductiveParts, ReaderMoves DEF AskRead

LEMMA LockSharedInductive ==
  ASSUME Inductive, NEW t \in Threads, LockShared(t)
  PROVE  Inductive'
<1> DEFINE a == IF work[t].op = "compose" THEN "row"
                ELSE IF work[t].op = "table" THEN "again" ELSE "select"
<1>1. PICK v : v = work[t]
  OBVIOUS
<1>2. PICK w : w = [v EXCEPT !.at = a]
  OBVIOUS
<1>3. v.at = "shared" /\ Goto(t, w) /\ a \in {"row", "again", "select"}
  BY <1>1, <1>2 DEF LockShared, AtRead, Step
<1>4. Asking(t, v) /\ v.blocks = <<>> /\ (v.op = "compose" => v.todo \in Projects)
  BY <1>1, <1>3, InductiveParts, ReaderShape
<1>5. Asking(t, w) /\ w.at = a /\ w.op = v.op /\ w.todo = v.todo /\ w.blocks = <<>>
  BY <1>2, <1>4 DEF Asking
<1>6. v.op = "compose" => Collected(db, v.op, w.blocks, w.todo)
  BY <1>4, <1>5, ComposeStarts DEF Collected
<1>7. ReaderOK(db, t, w)
  <2>1. CASE v.op = "compose"
    BY <1>1, <1>5, <1>6, <2>1 DEF ReaderOK
  <2>2. CASE v.op = "table"
    BY <1>1, <1>5, <2>2 DEF ReaderOK
  <2>3. CASE v.op \notin {"compose", "table"}
    BY <1>1, <1>5, <2>3 DEF ReaderOK
  <2> QED  BY <2>1, <2>2, <2>3
<1>8. w.at \in ReaderAt /\ work[t].at \in ReaderAt /\ Held(w.at) = Held(work[t].at) + 1
  BY <1>1, <1>3, <1>5 DEF ReaderAt, Held, Sharing
<1>9. Share(t) /\ UNCHANGED writer /\ UNCHANGED <<db, disk, answer, responses>>
  BY DEF LockShared, Share
<1>10. LockOK'
  BY <1>3, <1>8, <1>9, InductiveParts, LockMoves
<1> QED  BY <1>3, <1>7, <1>8, <1>9, <1>10, InductiveParts, ReaderMoves

LEMMA SelectRowsInductive ==
  ASSUME Inductive, NEW t \in Threads, SelectRows(t)
  PROVE  Inductive'
<1>1. PICK v : v = work[t]
  OBVIOUS
<1>2. PICK rows \in {Names(db)} \cup (IF v.op = "search" THEN {{}} ELSE {}) :
        Goto(t, [v EXCEPT !.at = "row", !.todo = SetToSeq(rows)])
  BY <1>1 DEF SelectRows
<1>3. PICK w : w = [v EXCEPT !.at = "row", !.todo = SetToSeq(rows)]
  OBVIOUS
<1>4. v.at = "select" /\ Goto(t, w) /\ UNCHANGED <<db, disk, writer, readers, answer, responses>>
  BY <1>1, <1>2, <1>3 DEF SelectRows, AtRead
<1>5. Asking(t, v) /\ v.op # "compose" /\ v.blocks = <<>>
  BY <1>1, <1>4, InductiveParts, ReaderShape
<1>6. Asking(t, w) /\ w.at = "row" /\ w.op = v.op /\ w.todo = SetToSeq(rows) /\ w.blocks = <<>>
  BY <1>3, <1>5 DEF Asking
<1>7. rows = Names(db) \/ rows = {}
  BY <1>2
<1>8. v.op = "list" => rows = Names(db)
  BY <1>2
<1>9. Gathered(db, v.op, <<>>, SetToSeq(rows))
  BY <1>7, <1>8, InductiveParts, RowsListed
<1>10. ReaderOK(db, t, w)
  BY <1>5, <1>6, <1>9 DEF ReaderOK, Collected
<1>11. w.at \in ReaderAt /\ work[t].at \in ReaderAt /\ Held(w.at) = Held(work[t].at)
  BY <1>1, <1>4, <1>6 DEF ReaderAt, Held, Sharing
<1>12. LockOK'
  BY <1>4, <1>11, InductiveParts, LockMoves
<1> QED  BY <1>4, <1>10, <1>11, <1>12, InductiveParts, ReaderMoves

(* A reader that stays where it holds the lock.                            *)
LEMMA SharingMoves ==
  ASSUME Inductive, NEW t \in Threads, NEW w, Goto(t, w), ReaderOK(db, t, w),
         work[t].at \in Sharing, w.at \in Sharing,
         UNCHANGED <<db, disk, writer, readers, answer, responses>>
  PROVE  Inductive'
<1>1. w.at \in ReaderAt /\ work[t].at \in ReaderAt /\ Held(w.at) = Held(work[t].at)
  BY DEF ReaderAt, Held, Sharing
<1>2. LockOK'
  BY <1>1, InductiveParts, LockMoves
<1> QED  BY <1>1, <1>2, InductiveParts, ReaderMoves

LEMMA NextRowInductive ==
  ASSUME Inductive, NEW t \in Threads, NextRow(t)
  PROVE  Inductive'
<1>1. PICK v : v = work[t]
  OBVIOUS
<1>2. PICK rest : rest = [v EXCEPT !.todo = Tail(@)]
  OBVIOUS
<1>3. /\ v.at = "row" /\ v.todo # <<>>
      /\ UNCHANGED <<db, disk, writer, readers, answer, responses>>
  BY <1>1 DEF NextRow, AtRead
<1>4. Asking(t, v) /\ Collected(db, v.op, v.blocks, v.todo)
  BY <1>1, <1>3, InductiveParts, ReaderShape
<1>5. /\ Asking(t, rest) /\ rest.at = "row" /\ rest.op = v.op /\ rest.todo = Tail(v.todo)
      /\ rest.blocks = v.blocks
  BY <1>2, <1>3, <1>4 DEF Asking
<1>6. v.op \in {"list", "table", "search", "compose"}
  BY <1>4 DEF Asking, Reads
<1>7. v.at \in Sharing
  BY <1>3 DEF Sharing
<1>8. CASE /\ {row \in db.uml : row.name = Head(v.todo)} = {} \/ v.op \in {"search", "table"}
           /\ Goto(t, rest)
  <2>1. CASE v.op = "compose"
    <3>1. Composed(db, v.blocks, v.todo)
      BY <1>4, <2>1 DEF Collected
    <3>2. Head(v.todo) \notin Names(db)
      BY <1>8, <2>1 DEF Names
    <3>3. Composed(db, rest.blocks, rest.todo)
      BY <1>3, <1>5, <3>1, <3>2, PassComposed
    <3> QED  BY <1>1, <1>3, <1>5, <1>7, <1>8, <2>1, <3>3, SharingMoves DEF ReaderOK, Collected
  <2>2. CASE v.op # "compose"
    <3>1. Gathered(db, v.op, v.blocks, v.todo)
      BY <1>4, <2>2 DEF Collected
    <3>2. v.op # "list"
      <4>1. Head(v.todo) \in Names(db)
        BY <1>3, <3>1, HeadTaken DEF Gathered
      <4> QED  BY <1>8, <4>1 DEF Names
    <3>3. Gathered(db, rest.op, rest.blocks, rest.todo)
      BY <1>3, <1>5, <3>1, <3>2, PassGathered
    <3> QED  BY <1>1, <1>3, <1>5, <1>7, <1>8, <2>2, <3>3, SharingMoves DEF ReaderOK, Collected
  <2> QED  BY <2>1, <2>2
<1>9. ASSUME NEW row \in db.uml, row.name = Head(v.todo), NEW w, Goto(t, w),
             \/ v.op = "table" /\ w = [rest EXCEPT !.blocks = Append(@, [name |-> row.name, schema |-> row.schema])]
             \/ v.op = "search" /\ w = [v EXCEPT !.at = "again"]
             \/ /\ v.op \notin {"table", "search"}
                /\ w = [at |-> "sources", op |-> v.op, todo |-> rest.todo,
                        blocks |-> v.blocks, row |-> row]
      PROVE  Inductive'
  <2>1. CASE v.op = "table"
    <3>1. Gathered(db, v.op, v.blocks, v.todo)
      BY <1>4, <2>1 DEF Collected
    <3>2. BlockOf(v.op, ContainerOf(db, row)) = [name |-> row.name, schema |-> row.schema]
      BY <2>1 DEF BlockOf, ContainerOf
    <3>3. Gathered(db, v.op, Append(v.blocks, [name |-> row.name, schema |-> row.schema]), Tail(v.todo))
      <4>1. Gathered(db, v.op, Append(v.blocks, BlockOf(v.op, ContainerOf(db, row))), Tail(v.todo))
        BY <1>3, <1>9, <3>1, TakeGathered
      <4> QED  BY <3>2, <4>1
    <3>4. /\ Asking(t, w) /\ w.at = "row" /\ w.op = v.op /\ w.todo = Tail(v.todo)
          /\ w.blocks = Append(v.blocks, [name |-> row.name, schema |-> row.schema])
      BY <1>5, <1>9, <2>1 DEF Asking
    <3>5. ReaderOK(db, t, w)
      BY <2>1, <3>3, <3>4 DEF ReaderOK, Collected
    <3> QED  BY <1>1, <1>3, <1>7, <1>9, <3>4, <3>5, SharingMoves
  <2>2. CASE v.op = "search"
    <3>1. /\ Asking(t, w) /\ w.at = "again" /\ w.op = v.op /\ w.todo = v.todo
          /\ w.blocks = v.blocks
      BY <1>3, <1>4, <1>9, <2>2 DEF Asking
    <3>2. ReaderOK(db, t, w)
      BY <1>3, <1>4, <2>2, <3>1 DEF ReaderOK
    <3>3. w.at \in Sharing
      BY <3>1 DEF Sharing
    <3> QED  BY <1>1, <1>3, <1>7, <1>9, <3>2, <3>3, SharingMoves
  <2>3. CASE v.op \notin {"table", "search"}
    <3>1. v.op \in FullOps /\ v.op \in Reads(t)
      BY <1>4, <1>6, <2>3 DEF FullOps, Asking
    <3>2. /\ AtRow(t, w) /\ w.row = row /\ w.at = "sources" /\ w.op = v.op
          /\ w.todo = Tail(v.todo) /\ w.blocks = v.blocks
      <4>1. w = [at |-> "sources", op |-> v.op, todo |-> rest.todo, blocks |-> v.blocks, row |-> row]
        BY <1>9, <2>3
      <4>2. /\ w.at = "sources" /\ w.op = v.op /\ w.todo = rest.todo /\ w.blocks = v.blocks
            /\ w.row = row
        BY <4>1
      <4> QED  BY <1>5, <3>1, <4>1, <4>2 DEF AtRow
    <3>3. /\ Collected(db, v.op, Append(v.blocks, ContainerOf(db, row)), Tail(v.todo))
          /\ v.blocks \in Seq(Whole(db))
      BY <1>3, <1>4, <1>9, <3>1, TakeFull
    <3>4. ReaderOK(db, t, w)
      BY <3>2, <3>3 DEF ReaderOK
    <3>5. w.at \in Sharing
      BY <3>2 DEF Sharing
    <3> QED  BY <1>1, <1>3, <1>7, <1>9, <3>4, <3>5, SharingMoves
  <2> QED  BY <2>1, <2>2, <2>3
<1>10. \/ /\ {row \in db.uml : row.name = Head(v.todo)} = {} \/ v.op \in {"search", "table"}
          /\ Goto(t, rest)
       \/ \E row \in {row \in db.uml : row.name = Head(v.todo)} :
            Goto(t, CASE v.op = "table" ->
                           [rest EXCEPT !.blocks = Append(@, [name |-> row.name, schema |-> row.schema])]
                      [] v.op = "search" -> [v EXCEPT !.at = "again"]
                      [] OTHER -> [at |-> "sources", op |-> v.op, todo |-> rest.todo,
                                   blocks |-> v.blocks, row |-> row])
  BY <1>1, <1>2 DEF NextRow
<1>11. ASSUME NEW row \in db.uml, row.name = Head(v.todo),
              Goto(t, CASE v.op = "table" ->
                             [rest EXCEPT !.blocks = Append(@, [name |-> row.name, schema |-> row.schema])]
                        [] v.op = "search" -> [v EXCEPT !.at = "again"]
                        [] OTHER -> [at |-> "sources", op |-> v.op, todo |-> rest.todo,
                                     blocks |-> v.blocks, row |-> row])
       PROVE  Inductive'
  <2>1. CASE v.op = "table"
    BY <1>9, <1>11, <2>1
  <2>2. CASE v.op = "search"
    BY <1>9, <1>11, <2>2
  <2>3. CASE v.op \notin {"table", "search"}
    BY <1>9, <1>11, <2>3
  <2> QED  BY <2>1, <2>2, <2>3
<1> QED  BY <1>8, <1>10, <1>11

(* The last block of a sequence.                                           *)
LEMMA LastBlock ==
  ASSUME NEW S, NEW s \in Seq(S), NEW x, NEW y
  PROVE  /\ Front(Append(s, x)) = s /\ Len(Append(s, x)) = Len(s) + 1
         /\ Append(s, x)[Len(s) + 1] = x
         /\ [Append(s, x) EXCEPT ![Len(s) + 1] = y] = Append(s, y)
<1>1. PICK n \in Nat : n = Len(s) /\ s \in [1..n -> S]
  BY LenProperties
<1>2. s \in Seq(S \cup {x, y}) /\ x \in S \cup {x, y} /\ y \in S \cup {x, y}
  BY SeqMonotonic
<1>3. /\ Append(s, x) \in Seq(S \cup {x, y}) /\ Append(s, y) \in Seq(S \cup {x, y})
      /\ Len(Append(s, x)) = n + 1 /\ Len(Append(s, y)) = n + 1
      /\ Append(s, x)[n + 1] = x /\ Append(s, y)[n + 1] = y
      /\ \A i \in 1..n : Append(s, x)[i] = s[i] /\ Append(s, y)[i] = s[i]
  BY <1>1, <1>2, AppendProperties
<1>4. /\ Append(s, x) \in [1..(n + 1) -> S \cup {x, y}]
      /\ Append(s, y) \in [1..(n + 1) -> S \cup {x, y}]
  BY <1>3, LenProperties
<1>5. \A i \in 1..(n + 1) : i \in 1..n \/ i = n + 1
  OBVIOUS
<1>6. [Append(s, x) EXCEPT ![n + 1] = y] = Append(s, y)
  <2>1. \A i \in 1..(n + 1) : [Append(s, x) EXCEPT ![n + 1] = y][i] = Append(s, y)[i]
    BY <1>1, <1>3, <1>4, <1>5
  <2>2. [Append(s, x) EXCEPT ![n + 1] = y] \in [1..(n + 1) -> S \cup {x, y}]
    BY <1>1, <1>4
  <2> QED  BY <1>4, <2>1, <2>2
<1>7. Front(Append(s, x)) = s
  <2>1. Front(Append(s, x)) = SubSeq(Append(s, x), 1, n)
    BY <1>1, <1>3 DEF Front
  <2>2. SubSeq(Append(s, x), 1, n) = s
    BY <1>1, <1>2, AppendProperties
  <2> QED  BY <2>1, <2>2
<1> QED  BY <1>1, <1>3, <1>6, <1>7

LEMMA ReadSourcesInductive ==
  ASSUME Inductive, NEW t \in Threads, ReadSources(t)
  PROVE  Inductive'
<1>1. PICK v : v = work[t]
  OBVIOUS
<1>2. PICK w : w = [v EXCEPT !.at = "readevents", !.blocks = Append(@, HalfBlock(db, v.row))]
  OBVIOUS
<1>3. HalfBlock(db, v.row) =
        [name |-> v.row.name, schema |-> v.row.schema, sources |-> SourcesOf(v.row.id)]
  BY DEF HalfBlock, ContainerOf, SourcesOf
<1>4. v.at = "sources" /\ Goto(t, w) /\ UNCHANGED <<db, disk, writer, readers, answer, responses>>
  BY <1>1, <1>2, <1>3 DEF ReadSources, AtRead
<1>5. /\ AtRow(t, v) /\ v.row \in db.uml /\ v.blocks \in Seq(Whole(db))
      /\ Collected(db, v.op, Append(v.blocks, ContainerOf(db, v.row)), v.todo)
  BY <1>1, <1>4, InductiveParts, ReaderShape
<1>6. /\ AtRow(t, w) /\ w.at = "readevents" /\ w.op = v.op /\ w.todo = v.todo /\ w.row = v.row
      /\ w.blocks = Append(v.blocks, HalfBlock(db, v.row))
  BY <1>2, <1>5 DEF AtRow
<1>7. Front(w.blocks) = v.blocks
  BY <1>5, <1>6, LastBlock
<1>8. ReaderOK(db, t, w)
  BY <1>5, <1>6, <1>7 DEF ReaderOK
<1>9. v.at \in Sharing /\ w.at \in Sharing
  BY <1>4, <1>6 DEF Sharing
<1> QED  BY <1>1, <1>4, <1>8, <1>9, SharingMoves

LEMMA ReadEventsInductive ==
  ASSUME Inductive, NEW t \in Threads, ReadEvents(t)
  PROVE  Inductive'
<1>1. PICK v : v = work[t]
  OBVIOUS
<1>2. v.at = "readevents" /\ UNCHANGED <<db, disk, writer, readers, answer, responses>>
  BY <1>1 DEF ReadEvents, AtRead
<1>3. /\ AtRow(t, v) /\ v.row \in db.uml /\ Front(v.blocks) \in Seq(Whole(db))
      /\ v.blocks = Append(Front(v.blocks), HalfBlock(db, v.row))
      /\ Collected(db, v.op, Append(Front(v.blocks), ContainerOf(db, v.row)), v.todo)
  BY <1>1, <1>2, InductiveParts, ReaderShape
<1>4. PICK blocks : blocks = Front(v.blocks)
  OBVIOUS
<1>5. PICK i : i = Len(v.blocks)
  OBVIOUS
<1>6. /\ i = Len(blocks) + 1 /\ v.blocks[i] = HalfBlock(db, v.row)
      /\ [v.blocks EXCEPT ![i] = ContainerOf(db, v.row)] = Append(blocks, ContainerOf(db, v.row))
  BY <1>3, <1>4, <1>5, LastBlock
<1>7. [name |-> v.blocks[i].name, schema |-> v.blocks[i].schema, sources |-> v.blocks[i].sources,
       events |-> EventsOf(v.row.id)] = ContainerOf(db, v.row)
  BY <1>6 DEF HalfBlock, ContainerOf, EventsOf
<1>8. PICK w : w = [at |-> "row", op |-> v.op, todo |-> v.todo,
                    blocks |-> Append(blocks, ContainerOf(db, v.row))]
  OBVIOUS
<1>9. Goto(t, w)
  <2>1. Goto(t, [at |-> "row", op |-> v.op, todo |-> v.todo,
                 blocks |-> [v.blocks EXCEPT ![i] =
                   [name |-> v.blocks[i].name, schema |-> v.blocks[i].schema,
                    sources |-> v.blocks[i].sources, events |-> EventsOf(v.row.id)]]])
    BY <1>1, <1>5 DEF ReadEvents
  <2> QED  BY <1>6, <1>7, <1>8, <2>1
<1>10. /\ Asking(t, w) /\ w.at = "row" /\ w.op = v.op /\ w.todo = v.todo
       /\ w.blocks = Append(blocks, ContainerOf(db, v.row))
  BY <1>3, <1>8 DEF Asking, AtRow
<1>11. ReaderOK(db, t, w)
  BY <1>3, <1>4, <1>10 DEF ReaderOK
<1>12. v.at \in Sharing /\ w.at \in Sharing
  BY <1>2, <1>10 DEF Sharing
<1> QED  BY <1>1, <1>2, <1>9, <1>11, <1>12, SharingMoves

LEMMA LockAgainInductive ==
  ASSUME Inductive, NEW t \in Threads, LockAgain(t)
  PROVE  Inductive'
<1>1. PICK v : v = work[t]
  OBVIOUS
<1>2. PICK w : w = [v EXCEPT !.at = "inner"]
  OBVIOUS
<1>3. v.at = "again" /\ Goto(t, w)
  BY <1>1, <1>2 DEF LockAgain, AtRead, Step
<1>4. /\ Asking(t, v)
      /\ \/ v.op = "table" /\ v.blocks = <<>>
         \/ v.op = "search" /\ v.todo # <<>> /\ Collected(db, v.op, v.blocks, v.todo)
  BY <1>1, <1>3, InductiveParts, ReaderShape
<1>5. Asking(t, w) /\ w.at = "inner" /\ w.op = v.op /\ w.todo = v.todo /\ w.blocks = v.blocks
  BY <1>2, <1>4 DEF Asking
<1>6. ReaderOK(db, t, w)
  BY <1>4, <1>5 DEF ReaderOK
<1>7. w.at \in ReaderAt /\ work[t].at \in ReaderAt /\ Held(w.at) = Held(work[t].at) + 1
  BY <1>1, <1>3, <1>5 DEF ReaderAt, Held, Sharing
<1>8. Share(t) /\ UNCHANGED writer /\ UNCHANGED <<db, disk, answer, responses>>
  BY DEF LockAgain, Share
<1>9. LockOK'
  BY <1>3, <1>7, <1>8, InductiveParts, LockMoves
<1> QED  BY <1>3, <1>6, <1>7, <1>8, <1>9, InductiveParts, ReaderMoves

(* A reader that gives up one of its holds.                                *)
LEMMA UnsharingMoves ==
  ASSUME Inductive, NEW t \in Threads, NEW w, Goto(t, w), ReaderOK(db, t, w), Unshare(t),
         \/ work[t].at = "inner" /\ w.at \in Sharing
         \/ work[t].at = "row" /\ w.at = "reply",
         UNCHANGED <<db, disk, responses>>, answer' = [u \in Threads |-> answer'[u]]
  PROVE  Inductive'
<1>1. w.at \in ReaderAt /\ work[t].at \in ReaderAt /\ Held(w.at) = Held(work[t].at) - 1
  BY DEF ReaderAt, Held, Sharing
<1>2. LockOK'
  BY <1>1, InductiveParts, LockMoves DEF Unshare
<1> QED  BY <1>1, <1>2, ReaderMoves

LEMMA ReadInnerInductive ==
  ASSUME Inductive, NEW t \in Threads, ReadInner(t)
  PROVE  Inductive'
<1>1. PICK v : v = work[t]
  OBVIOUS
<1>2. v.at = "inner" /\ Unshare(t) /\ UNCHANGED <<db, disk, answer, responses>>
  BY <1>1 DEF ReadInner, AtRead
<1>3. answer' = [u \in Threads |-> answer'[u]]
  BY <1>2, InductiveParts
<1>4. /\ Asking(t, v)
      /\ \/ v.op = "table" /\ v.blocks = <<>>
         \/ v.op = "search" /\ v.todo # <<>> /\ Collected(db, v.op, v.blocks, v.todo)
  BY <1>1, <1>2, InductiveParts, ReaderShape
<1>5. CASE v.op = "table"
  <2>1. PICK w : w = [v EXCEPT !.at = "select"]
    OBVIOUS
  <2>2. Goto(t, w)
    BY <1>1, <1>5, <2>1 DEF ReadInner, Step
  <2>3. Asking(t, w) /\ w.at = "select" /\ w.op = v.op /\ w.blocks = <<>>
    BY <1>4, <1>5, <2>1 DEF Asking
  <2>4. ReaderOK(db, t, w) /\ w.at \in Sharing
    BY <1>5, <2>3 DEF ReaderOK, Sharing
  <2> QED  BY <1>1, <1>2, <1>3, <2>2, <2>4, UnsharingMoves
<1>6. CASE v.op # "table"
  <2>1. v.op = "search" /\ v.todo # <<>> /\ Gathered(db, v.op, v.blocks, v.todo)
    BY <1>4, <1>6 DEF Collected
  <2>2. PICK name : name = Head(v.todo)
    OBVIOUS
  <2>3. name \in Names(db)
    BY <2>1, <2>2, HeadTaken DEF Gathered
  <2>4. PICK row : row = CHOOSE r \in db.uml : r.name = name
    OBVIOUS
  <2>5. row \in db.uml /\ row.name = name
    BY <2>3, <2>4 DEF Names
  <2>6. PICK b : b = [name |-> name, sources |-> SourcesOf(row.id)]
    OBVIOUS
  <2>7. BlockOf(v.op, ContainerOf(db, row)) = b
    BY <2>1, <2>5, <2>6 DEF BlockOf, ContainerOf, SourcesOf
  <2>8. Gathered(db, v.op, Append(v.blocks, b), Tail(v.todo))
    <3>1. Gathered(db, v.op, Append(v.blocks, BlockOf(v.op, ContainerOf(db, row))), Tail(v.todo))
      BY <2>1, <2>2, <2>5, TakeGathered
    <3> QED  BY <2>7, <3>1
  <2>9. PICK w : w = [v EXCEPT !.at = "row", !.todo = Tail(@), !.blocks = Append(@, b)]
    OBVIOUS
  <2>10. Goto(t, w)
    BY <1>1, <1>6, <2>2, <2>4, <2>6, <2>9 DEF ReadInner
  <2>11. /\ Asking(t, w) /\ w.at = "row" /\ w.op = v.op /\ w.todo = Tail(v.todo)
         /\ w.blocks = Append(v.blocks, b)
    BY <1>4, <2>9 DEF Asking
  <2>12. ReaderOK(db, t, w)
    BY <2>1, <2>8, <2>11 DEF ReaderOK, Collected
  <2>13. w.at \in Sharing
    BY <2>11 DEF Sharing
  <2> QED  BY <1>1, <1>2, <1>3, <2>10, <2>12, <2>13, UnsharingMoves
<1> QED  BY <1>5, <1>6

LEMMA ReturnInductive ==
  ASSUME Inductive, NEW t \in Threads, Return(t)
  PROVE  Inductive'
<1>1. PICK w : w = [at |-> "reply"]
  OBVIOUS
<1>2. /\ work[t].at = "row" /\ Goto(t, w) /\ w.at = "reply" /\ Unshare(t)
      /\ UNCHANGED <<db, disk, responses>>
  BY <1>1 DEF Return, AtRead
<1>3. answer' = [u \in Threads |-> answer'[u]]
  BY InductiveParts DEF Return
<1>4. ReaderOK(db, t, w)
  BY <1>1 DEF ReaderOK
<1> QED  BY <1>2, <1>3, <1>4, UnsharingMoves

LEMMA ReplyInductive ==
  ASSUME Inductive, NEW t \in Threads, Reply(t)
  PROVE  Inductive'
<1>1. PICK w : w = [at |-> "idle"]
  OBVIOUS
<1>2. /\ work[t].at = "reply" /\ Goto(t, w) /\ w.at = "idle"
      /\ UNCHANGED <<db, disk, writer, readers, responses>>
  BY <1>1 DEF Reply, AtRead, Idle
<1>3. answer' = [u \in Threads |-> answer'[u]]
  BY InductiveParts DEF Reply
<1>4. ReaderOK(db, t, w)
  BY <1>1 DEF ReaderOK
<1>5. w.at \in ReaderAt /\ work[t].at \in ReaderAt /\ Held(w.at) = Held(work[t].at)
  BY <1>2 DEF ReaderAt, Held, Sharing
<1>6. LockOK'
  BY <1>2, <1>5, InductiveParts, LockMoves
<1> QED  BY <1>2, <1>3, <1>4, <1>5, <1>6, ReaderMoves

-----------------------------------------------------------------------------
(* The writer's actions: while it holds the lock no reader depends on the  *)
(* tables.                                                                 *)
LEMMA Unsharing ==
  ASSUME NEW d, NEW e, NEW t, NEW w, ReaderOK(d, t, w), Held(w.at) = 0
  PROVE  ReaderOK(e, t, w)
<1>1. w.at \notin {"row", "again", "inner", "sources", "readevents"}
  BY DEF Held, Sharing
<1> QED  BY <1>1 DEF ReaderOK

LEMMA Alone ==
  ASSUME Inductive, Writing.at \in WriterAt
  PROVE  /\ writer /\ \A t \in Threads : readers[t] = 0 /\ Held(work[t].at) = 0
         /\ Writing \in UploadWork
<1>1. writer
  BY DEF Inductive, LockOK
<1>2. \A t \in Threads : readers[t] = 0 /\ Held(work[t].at) = 0
  BY <1>1 DEF Inductive, LockOK
<1>3. "admin" \in Threads
  BY DEF Threads
<1> QED  BY <1>1, <1>2, <1>3, InductiveParts, ReaderShape DEF Writing

LEMMA WriterMoves ==
  ASSUME Inductive, NEW w, Goto("admin", w), UNCHANGED <<readers, answer>>,
         Held(Writing.at) = 0, Held(w.at) = 0, writer' = (w.at \in WriterAt),
         TablesOK(db'), TablesOK(disk'), responses' \in [Uploads -> Seq(Told)],
         CreationOK(db', w, responses'), ReaderOK(db', "admin", w),
         readers["client"] = 0 \/ (UNCHANGED db /\ w.at \notin WriterAt)
  PROVE  Inductive'
<1>1. /\ "admin" \in Threads /\ "client" \in Threads
      /\ \A t \in Threads : t = "admin" \/ t = "client"
  BY DEF Threads
<1>2. /\ work' = [t \in Threads |-> work'[t]] /\ work'["admin"] = w
      /\ work'["client"] = work["client"]
  BY <1>1, Moved DEF Inductive
<1>3. readers = [t \in Threads |-> Held(work[t].at)]
  BY DEF Inductive, LockOK
<1>4. readers' = [t \in Threads |-> Held(work'[t].at)]
  BY <1>1, <1>2, <1>3 DEF Writing
<1>5. readers["admin"] = 0
  BY <1>1, <1>3 DEF Writing
<1>6. LockOK'
  BY <1>1, <1>2, <1>4, <1>5 DEF LockOK, Writing
<1>7. ReaderOK(db', "client", work["client"])
  <2>1. ReaderOK(db, "client", work["client"])
    BY <1>1, InductiveParts
  <2>2. CASE readers["client"] = 0
    BY <1>1, <1>3, <2>1, <2>2, Unsharing
  <2> QED  BY <2>1, <2>2
<1>8. answer' = [t \in Threads |-> answer'[t]]
  BY DEF Inductive
<1> QED  BY <1>1, <1>2, <1>6, <1>7, <1>8 DEF Inductive, Writing

(* An upload and where its creation is.                                    *)
LEMMA UploadShape ==
  ASSUME NEW w \in UploadWork
  PROVE  /\ w.upload \in Uploads
         /\ w.at \in {"addsources", "addevents", "serialize"} =>
              /\ w \in [at : {w.at}, upload : Uploads, id : Nat, next : Nat \ {0}]
              /\ w.id \in Nat /\ w.next \in Nat /\ w.next >= 1
         /\ w.at \in {"exclusive", "check", "insert"} => w \in [at : {w.at}, upload : Uploads]
         /\ w.at # "idle"
<1>1. CASE w \in [at : {"exclusive", "check", "insert", "unlock"}, upload : Uploads]
  BY <1>1
<1>2. CASE w \in [at : {"addsources", "addevents", "serialize", "unlock"}, upload : Uploads,
                  id : Nat, next : Nat \ {0}]
  BY <1>2
<1> QED  BY <1>1, <1>2 DEF UploadWork

LEMMA UploadParts ==
  ASSUME NEW u \in Uploads
  PROVE  /\ Len(u.sources) \in Nat /\ DOMAIN u.sources = 1..Len(u.sources)
         /\ \A i \in 1..Len(u.sources) :
              u.sources[i] = [type |-> u.sources[i].type, content |-> u.sources[i].content]
         /\ Len(u.events) \in Nat /\ DOMAIN u.events = 1..Len(u.events)
         /\ \A i \in 1..Len(u.events) :
              u.events[i] = [event |-> u.events[i].event, target |-> u.events[i].target]
<1>1. PICK S, E : /\ S = {[type |-> s.type, content |-> s.content] : s \in ToSet(u.sources)}
                  /\ E = {[event |-> e.event, target |-> e.target] : e \in ToSet(u.events)}
  OBVIOUS
<1>2. u.sources \in Seq(S) /\ u.events \in Seq(E)
  BY <1>1, UmlConstants
<1>3. /\ Len(u.sources) \in Nat /\ u.sources \in [1..Len(u.sources) -> S]
      /\ Len(u.events) \in Nat /\ u.events \in [1..Len(u.events) -> E]
  BY <1>2, LenProperties
<1>4. /\ \A x \in S : x = [type |-> x.type, content |-> x.content]
      /\ \A x \in E : x = [event |-> x.event, target |-> x.target]
  BY <1>1
<1> QED  BY <1>3, <1>4

LEMMA TrainInductive ==
  ASSUME Inductive, NEW u \in Uploads, Train(u)
  PROVE  Inductive'
<1>1. PICK w : w = [at |-> "exclusive", upload |-> u]
  OBVIOUS
<1>2. /\ Writing.at = "idle" /\ Goto("admin", w) /\ w.at = "exclusive" /\ w.upload = u
      /\ UNCHANGED <<db, disk, writer, readers, answer>> /\ w \in UploadWork
      /\ responses' = [responses EXCEPT ![u] = <<"accepted">>]
  BY <1>1 DEF Train, Idle, UploadWork
<1>3. responses' \in [Uploads -> Seq(Told)] /\ responses'[u] = <<"accepted">>
  <2>1. <<"accepted">> \in Seq(Told)
    BY DEF Told
  <2> QED  BY <1>2, <2>1 DEF Inductive
<1>4. writer' = (w.at \in WriterAt) /\ w.at \notin WriterAt
  BY <1>2 DEF Inductive, LockOK, WriterAt
<1>5. CreationOK(db, w, responses')
  BY <1>2, <1>3 DEF CreationOK
<1>6. ReaderOK(db, "admin", w) /\ Held(w.at) = 0 /\ Held(Writing.at) = 0
  BY <1>2 DEF ReaderOK, Held, Sharing
<1>7. TablesOK(db) /\ TablesOK(disk)
  BY DEF Inductive
<1> QED  BY <1>2, <1>3, <1>4, <1>5, <1>6, <1>7, WriterMoves

LEMMA LockExclusiveInductive ==
  ASSUME Inductive, LockExclusive
  PROVE  Inductive'
<1>1. PICK v : v = Writing
  OBVIOUS
<1>2. PICK w : w = [v EXCEPT !.at = "check"]
  OBVIOUS
<1>3. /\ v.at = "exclusive" /\ Goto("admin", w) /\ writer' = TRUE
      /\ UNCHANGED <<db, disk, readers, answer, responses>>
      /\ readers["client"] = 0 /\ "admin" \in Threads
  BY <1>1, <1>2 DEF LockExclusive, Step, Writing, Threads
<1>4. v \in UploadWork
  BY <1>1, <1>3, InductiveParts, ReaderShape DEF Writing
<1>5. v \in [at : {"exclusive"}, upload : Uploads]
  BY <1>3, <1>4, UploadShape
<1>6. w \in UploadWork /\ w.at = "check" /\ w.upload = v.upload
  BY <1>2, <1>5 DEF UploadWork
<1>7. responses[v.upload] = <<"accepted">>
  BY <1>1, <1>3, <1>4 DEF Inductive, CreationOK
<1>8. CreationOK(db, w, responses)
  BY <1>6, <1>7 DEF CreationOK
<1>9. /\ ReaderOK(db, "admin", w) /\ Held(w.at) = 0 /\ Held(Writing.at) = 0
      /\ writer' = (w.at \in WriterAt)
  BY <1>1, <1>3, <1>6 DEF ReaderOK, Held, Sharing, WriterAt
<1>10. TablesOK(db) /\ TablesOK(disk) /\ responses \in [Uploads -> Seq(Told)]
  BY DEF Inductive
<1> QED  BY <1>3, <1>8, <1>9, <1>10, WriterMoves

LEMMA UnlockExclusiveInductive ==
  ASSUME Inductive, UnlockExclusive
  PROVE  Inductive'
<1>1. PICK w : w = [at |-> "idle"]
  OBVIOUS
<1>2. /\ Writing.at = "unlock" /\ Goto("admin", w) /\ w.at = "idle" /\ writer' = FALSE
      /\ UNCHANGED <<db, disk, readers, answer, responses>>
  BY <1>1 DEF UnlockExclusive, Idle
<1>3. w \notin UploadWork
  BY <1>2, UploadShape
<1>4. CreationOK(db, w, responses)
  BY <1>2, <1>3 DEF CreationOK
<1>5. /\ ReaderOK(db, "admin", w) /\ Held(w.at) = 0 /\ Held(Writing.at) = 0
      /\ writer' = (w.at \in WriterAt) /\ w.at \notin WriterAt
  <2>1. ReaderOK(db, "admin", w)
    BY <1>1 DEF ReaderOK
  <2>2. Held(w.at) = 0 /\ Held(Writing.at) = 0
    BY <1>2 DEF Held, Sharing
  <2>3. w.at \notin WriterAt
    BY <1>2 DEF WriterAt
  <2>4. writer' = (w.at \in WriterAt)
    <3>1. (w.at \in WriterAt) = FALSE
      BY <2>3
    <3> QED  BY <1>2, <3>1
  <2> QED  BY <2>1, <2>2, <2>3, <2>4
<1>6. TablesOK(db) /\ TablesOK(disk) /\ responses \in [Uploads -> Seq(Told)]
  BY DEF Inductive
<1> QED  BY <1>2, <1>4, <1>5, <1>6, WriterMoves

(* What the writer has done when it is somewhere.                          *)
LEMMA WriterShape ==
  ASSUME Inductive, NEW v, v = Writing, v.at \in WriterAt
  PROVE  /\ v \in UploadWork /\ v.upload \in Uploads /\ CreationOK(db, v, responses)
         /\ readers["client"] = 0 /\ Held(Writing.at) = 0
         /\ TablesOK(db) /\ TablesOK(disk) /\ responses \in [Uploads -> Seq(Told)] /\ writer
         /\ v.at # "unlock" => responses[v.upload] = <<"accepted">>
<1>1. v \in UploadWork /\ readers["client"] = 0 /\ writer
  BY Alone DEF Threads
<1>2. Held(v.at) = 0
  BY DEF Held, WriterAt, Sharing
<1>3. CreationOK(db, v, responses) /\ TablesOK(db) /\ TablesOK(disk)
  BY DEF Inductive
<1>4. v.at # "unlock" => responses[v.upload] = <<"accepted">>
  BY <1>1, <1>3 DEF CreationOK
<1> QED  BY <1>1, <1>2, <1>3, <1>4, UploadShape DEF Inductive

LEMMA WriterStays ==
  ASSUME Inductive, Writing.at \in WriterAt, NEW w \in UploadWork, w.at \in WriterAt,
         Goto("admin", w), UNCHANGED <<writer, readers, answer>>, TablesOK(db'), TablesOK(disk'),
         responses' \in [Uploads -> Seq(Told)], CreationOK(db', w, responses')
  PROVE  Inductive'
<1>1. readers["client"] = 0 /\ Held(Writing.at) = 0 /\ writer = TRUE
  BY WriterShape DEF Inductive, LockOK
<1>2. ReaderOK(db', "admin", w)
  BY DEF ReaderOK
<1>3. Held(w.at) = 0
  BY DEF Held, WriterAt, Sharing
<1>4. writer' = (w.at \in WriterAt)
  BY <1>1
<1> QED  BY <1>1, <1>2, <1>3, <1>4, WriterMoves

LEMMA CheckNameInductive ==
  ASSUME Inductive, CheckName
  PROVE  Inductive'
<1>1. PICK v : v = Writing
  OBVIOUS
<1>2. v.at = "check" /\ v.at \in WriterAt
      /\ UNCHANGED <<db, disk, writer, readers, answer>>
  BY <1>1 DEF CheckName, WriterAt
<1>3. /\ v \in [at : {"check"}, upload : Uploads] /\ v.upload \in Uploads
      /\ TablesOK(db) /\ TablesOK(disk) /\ responses \in [Uploads -> Seq(Told)]
      /\ responses[v.upload] = <<"accepted">>
  BY <1>1, <1>2, WriterShape, UploadShape
<1>4. CASE v.upload.name \in Names(db)
  <2>1. PICK w : w = [v EXCEPT !.at = "unlock"]
    OBVIOUS
  <2>2. /\ Goto("admin", w)
        /\ responses' = [responses EXCEPT ![v.upload] = Append(@, "duplicate")]
    BY <1>1, <1>4, <2>1 DEF CheckName, Step, Writing
  <2>3. w \in UploadWork /\ w.at = "unlock"
    BY <1>3, <2>1 DEF UploadWork
  <2>4. CreationOK(db, w, responses')
    BY <2>3 DEF CreationOK
  <2>5. responses' \in [Uploads -> Seq(Told)]
    <3>1. "duplicate" \in Told /\ responses[v.upload] \in Seq(Told)
      BY <1>3 DEF Told
    <3>2. Append(responses[v.upload], "duplicate") \in Seq(Told)
      BY <3>1, AppendProperties
    <3> QED  BY <1>3, <2>2, <3>2
  <2> QED  BY <1>1, <1>2, <1>3, <2>2, <2>3, <2>4, <2>5, WriterStays DEF WriterAt
<1>5. CASE v.upload.name \notin Names(db)
  <2>1. PICK w : w = [v EXCEPT !.at = "insert"]
    OBVIOUS
  <2>2. Goto("admin", w) /\ UNCHANGED responses
    BY <1>1, <1>5, <2>1 DEF CheckName, Step, Writing
  <2>3. w \in UploadWork /\ w.at = "insert" /\ w.upload = v.upload
    BY <1>3, <2>1 DEF UploadWork
  <2>4. CreationOK(db, w, responses)
    BY <1>3, <1>5, <2>3 DEF CreationOK
  <2> QED  BY <1>1, <1>2, <1>3, <2>2, <2>3, <2>4, WriterStays DEF WriterAt
<1> QED  BY <1>4, <1>5

LEMMA InsertUmlInductive ==
  ASSUME Inductive, InsertUml
  PROVE  Inductive'
<1>1. PICK v : v = Writing
  OBVIOUS
<1>2. PICK u : u = v.upload
  OBVIOUS
<1>3. PICK id : id = Cardinality(db.uml) + 1
  OBVIOUS
<1>4. PICK w : w = [at |-> "addsources", upload |-> u, id |-> id, next |-> 1]
  OBVIOUS
<1>5. PICK row : row = [id |-> id, name |-> u.name, schema |-> u.schema]
  OBVIOUS
<1>6. /\ v.at = "insert" /\ v.at \in WriterAt /\ Goto("admin", w)
      /\ db' = [db EXCEPT !.uml = db.uml \cup {row}]
      /\ UNCHANGED <<disk, writer, readers, answer, responses>>
  BY <1>1, <1>2, <1>3, <1>4, <1>5 DEF InsertUml, WriterAt
<1>7. /\ v \in UploadWork /\ u \in Uploads /\ TablesOK(db) /\ TablesOK(disk)
      /\ responses \in [Uploads -> Seq(Told)] /\ responses[u] = <<"accepted">>
      /\ u.name \notin Names(db)
  BY <1>1, <1>2, <1>6, WriterShape DEF CreationOK
<1>8. /\ TablesOK(db') /\ row \in db'.uml /\ id \in Nat
      /\ RowsOf(db'.src, id) = {} /\ RowsOf(db'.events, id) = {}
  <2>1. PICK name, schema : name = u.name /\ schema = u.schema
    OBVIOUS
  <2>2. /\ TablesOK(db) /\ name \notin Names(db) /\ id = Cardinality(db.uml) + 1
        /\ row = [id |-> id, name |-> name, schema |-> schema]
        /\ db' = [db EXCEPT !.uml = db.uml \cup {row}]
    BY <1>3, <1>5, <1>6, <1>7, <2>1
  <2>3. TablesOK(db') /\ row \in db'.uml
    BY ONLY <2>2, RowInserted
  <2>4. id \in Nat /\ RowsOf(db'.src, id) = {}
    BY ONLY <2>2, RowInserted
  <2>5. RowsOf(db'.events, id) = {}
    BY ONLY <2>2, RowInserted
  <2> QED  BY ONLY <2>3, <2>4, <2>5
<1>9. /\ w \in UploadWork /\ w.at = "addsources" /\ w.upload = u /\ w.id = id /\ w.next = 1
      /\ 1 <= Len(u.sources) + 1
  BY <1>4, <1>7, <1>8, UploadParts DEF UploadWork
<1>10. InsertedAre(db', u, id, w.next - 1, 0)
  <2>1. w.next - 1 = 0 /\ 1..0 = {}
    BY <1>9
  <2>2. ToSources(RowsOf(db'.src, id)) = {} /\ ToEvents(RowsOf(db'.events, id)) = {}
    BY <1>8 DEF ToSources, ToEvents
  <2>3. LastEvents(u, 0) = {} /\ {u.sources[i] : i \in 1..0} = {}
    BY DEF LastEvents
  <2> QED  BY <1>5, <1>8, <2>1, <2>2, <2>3 DEF InsertedAre
<1>11. CreationOK(db', w, responses)
  BY <1>7, <1>9, <1>10 DEF CreationOK
<1> QED  BY <1>1, <1>6, <1>7, <1>8, <1>9, <1>11, WriterStays DEF WriterAt

LEMMA InsertSourceInductive ==
  ASSUME Inductive, InsertSource
  PROVE  Inductive'
<1>1. PICK v : v = Writing
  OBVIOUS
<1>2. PICK u : u = v.upload
  OBVIOUS
<1>3. PICK i : i = v.next
  OBVIOUS
<1>4. /\ v.at = "addsources" /\ v.at \in WriterAt
      /\ UNCHANGED <<disk, writer, readers, answer, responses>>
  BY <1>1 DEF InsertSource, WriterAt
<1>5. /\ v \in UploadWork /\ u \in Uploads /\ TablesOK(db) /\ TablesOK(disk)
      /\ responses \in [Uploads -> Seq(Told)] /\ responses[u] = <<"accepted">>
      /\ CreationOK(db, v, responses)
  BY <1>1, <1>2, <1>4, WriterShape
<1>6. /\ v \in [at : {"addsources"}, upload : Uploads, id : Nat, next : Nat \ {0}]
      /\ v.id \in Nat /\ i \in Nat /\ i >= 1
  BY <1>3, <1>4, <1>5, UploadShape
<1>7. i <= Len(u.sources) + 1 /\ InsertedAre(db, u, v.id, i - 1, 0)
  BY <1>2, <1>3, <1>4, <1>5 DEF CreationOK
<1>8. PICK l \in Nat : l = Len(u.sources)
  BY <1>5, UploadParts
<1>9. CASE i > l
  <2>1. PICK w : w = [v EXCEPT !.at = "addevents", !.next = 1]
    OBVIOUS
  <2>2. Goto("admin", w) /\ UNCHANGED db
    BY <1>1, <1>2, <1>3, <1>8, <1>9, <2>1 DEF InsertSource
  <2>3. w \in UploadWork /\ w.at = "addevents" /\ w.upload = u /\ w.id = v.id /\ w.next = 1
    <3>1. w = [at |-> "addevents", upload |-> u, id |-> v.id, next |-> 1]
      BY <1>2, <1>6, <2>1
    <3> QED  BY <1>5, <1>6, <3>1 DEF UploadWork
  <2>4. i - 1 = l /\ w.next - 1 = 0
    BY <1>6, <1>7, <1>8, <1>9, <2>3
  <2>5. 1 <= Len(u.events) + 1
    BY <1>5, UploadParts
  <2>6. CreationOK(db, w, responses)
    BY <1>5, <1>7, <1>8, <2>3, <2>4, <2>5 DEF CreationOK
  <2> QED  BY <1>1, <1>4, <1>5, <2>2, <2>3, <2>6, WriterStays DEF WriterAt
<1>10. CASE ~(i > l)
  <2>1. PICK w : w = [v EXCEPT !.next = i + 1]
    OBVIOUS
  <2>2. PICK s : s = u.sources[i]
    OBVIOUS
  <2>3. /\ Goto("admin", w)
        /\ db' = [db EXCEPT !.src = db.src \cup {[uml |-> v.id, type |-> s.type, content |-> s.content]}]
    BY <1>1, <1>2, <1>3, <1>8, <1>10, <2>1, <2>2 DEF InsertSource
  <2>4. i \in 1..l /\ s = [type |-> s.type, content |-> s.content]
    <3>1. i \in 1..l
      BY <1>6, <1>10
    <3> QED  BY <1>5, <1>8, <2>2, <3>1, UploadParts
  <2>5. /\ [id |-> v.id, name |-> u.name, schema |-> u.schema] \in db.uml
        /\ ToSources(RowsOf(db.src, v.id)) = {u.sources[j] : j \in 1..(i - 1)}
        /\ ToEvents(RowsOf(db.events, v.id)) = LastEvents(u, 0)
    BY <1>7 DEF InsertedAre
  <2>6. v.id \in RowIds(db)
    BY <2>5 DEF RowIds
  <2>7. /\ TablesOK(db') /\ db'.uml = db.uml /\ db'.events = db.events
        /\ ToSources(RowsOf(db'.src, v.id)) =
             ToSources(RowsOf(db.src, v.id)) \cup {[type |-> s.type, content |-> s.content]}
    <3>1. PICK row : row = [uml |-> v.id, type |-> s.type, content |-> s.content]
      OBVIOUS
    <3>2. row.uml = v.id /\ row.type = s.type /\ row.content = s.content
      BY <3>1
    <3>3. db' = [db EXCEPT !.src = db.src \cup {row}]
      BY <2>3, <3>1
    <3>4. row.uml \in RowIds(db) /\ TablesOK(db)
      BY <1>5, <2>6, <3>2
    <3>5. TablesOK(db')
      BY ONLY <3>3, <3>4, SourceInserted
    <3>6. db'.uml = db.uml /\ db'.events = db.events
      BY ONLY <3>3, <3>4, SourceInserted
    <3>7. ToSources(RowsOf(db'.src, row.uml)) =
             ToSources(RowsOf(db.src, row.uml)) \cup {[type |-> row.type, content |-> row.content]}
      BY ONLY <3>3, <3>4, SourceInserted
    <3> QED  BY <3>2, <3>5, <3>6, <3>7
  <2>8. {u.sources[j] : j \in 1..i} = {u.sources[j] : j \in 1..(i - 1)} \cup {s}
    <3>1. \A j : j \in 1..i <=> j \in 1..(i - 1) \/ j = i
      BY <1>6
    <3> QED  BY <2>2, <3>1
  <2>9. /\ w \in UploadWork /\ w.at = "addsources" /\ w.upload = u /\ w.id = v.id
        /\ w.next = i + 1
    BY <1>2, <1>6, <2>1 DEF UploadWork
  <2>10. w.next - 1 = i /\ w.next <= l + 1
    BY <1>6, <2>4, <2>9
  <2>11. InsertedAre(db', u, v.id, i, 0)
    BY <2>4, <2>5, <2>7, <2>8 DEF InsertedAre
  <2>12. CreationOK(db', w, responses)
    BY <1>5, <1>8, <2>9, <2>10, <2>11 DEF CreationOK
  <2> QED  BY <1>1, <1>4, <1>5, <2>3, <2>7, <2>9, <2>12, WriterStays DEF WriterAt
<1> QED  BY <1>9, <1>10

LEMMA InsertEventInductive ==
  ASSUME Inductive, InsertEvent
  PROVE  Inductive'
<1>1. PICK v : v = Writing
  OBVIOUS
<1>2. PICK u : u = v.upload
  OBVIOUS
<1>3. PICK i : i = v.next
  OBVIOUS
<1>4. /\ v.at = "addevents" /\ v.at \in WriterAt
      /\ UNCHANGED <<disk, writer, readers, answer, responses>>
  BY <1>1 DEF InsertEvent, WriterAt
<1>5. /\ v \in UploadWork /\ u \in Uploads /\ TablesOK(db) /\ TablesOK(disk)
      /\ responses \in [Uploads -> Seq(Told)] /\ responses[u] = <<"accepted">>
      /\ CreationOK(db, v, responses)
  BY <1>1, <1>2, <1>4, WriterShape
<1>6. /\ v \in [at : {"addevents"}, upload : Uploads, id : Nat, next : Nat \ {0}]
      /\ v.id \in Nat /\ i \in Nat /\ i >= 1
  BY <1>3, <1>4, <1>5, UploadShape
<1>7. i <= Len(u.events) + 1 /\ InsertedAre(db, u, v.id, Len(u.sources), i - 1)
  BY <1>2, <1>3, <1>4, <1>5 DEF CreationOK
<1>8. PICK l \in Nat : l = Len(u.events)
  BY <1>5, UploadParts
<1>9. CASE i > l
  <2>1. PICK w : w = [v EXCEPT !.at = "serialize"]
    OBVIOUS
  <2>2. Goto("admin", w) /\ UNCHANGED db
    BY <1>1, <1>2, <1>3, <1>8, <1>9, <2>1 DEF InsertEvent, Step, Writing
  <2>3. w \in UploadWork /\ w.at = "serialize" /\ w.upload = u /\ w.id = v.id
    BY <1>2, <1>6, <2>1 DEF UploadWork
  <2>4. i - 1 = l
    BY <1>6, <1>7, <1>8, <1>9
  <2>5. CreationOK(db, w, responses)
    BY <1>5, <1>7, <1>8, <2>3, <2>4 DEF CreationOK
  <2> QED  BY <1>1, <1>4, <1>5, <2>2, <2>3, <2>5, WriterStays DEF WriterAt
<1>10. CASE ~(i > l)
  <2>1. PICK w : w = [v EXCEPT !.next = i + 1]
    OBVIOUS
  <2>2. PICK e : e = u.events[i]
    OBVIOUS
  <2>3. PICK n \in Nat : i = n + 1
    <3>1. i - 1 \in Nat /\ i = (i - 1) + 1
      BY <1>6
    <3> QED  BY <3>1
  <2>4. n + 1 <= l /\ e = u.events[n + 1] /\ e = [event |-> e.event, target |-> e.target]
    <3>1. i \in 1..l /\ n + 1 <= l
      BY <1>6, <1>10, <2>3
    <3> QED  BY <1>5, <1>8, <2>2, <2>3, <3>1, UploadParts
  <2>5. /\ Goto("admin", w)
        /\ db' = [db EXCEPT !.events =
                    IF e.event = NoName THEN db.events
                    ELSE Replaced(db.events, [uml |-> v.id, event |-> e.event, target |-> e.target])]
    BY <1>1, <1>2, <1>3, <1>8, <1>10, <2>1, <2>2 DEF InsertEvent
  <2>6. /\ [id |-> v.id, name |-> u.name, schema |-> u.schema] \in db.uml
        /\ ToSources(RowsOf(db.src, v.id)) = {u.sources[j] : j \in 1..Len(u.sources)}
        /\ ToEvents(RowsOf(db.events, v.id)) = LastEvents(u, n)
    BY <1>7, <2>3 DEF InsertedAre
  <2>7. v.id \in RowIds(db)
    BY <2>6 DEF RowIds
  <2>8. /\ TablesOK(db') /\ db'.uml = db.uml /\ db'.src = db.src
        /\ ToEvents(RowsOf(db'.events, v.id)) = LastEvents(u, n + 1)
    <3>1. CASE e.event = NoName
      <4>1. db' = db
        BY <1>5, <2>5, <3>1 DEF TablesOK
      <4>2. LastEvents(u, n + 1) = LastEvents(u, n)
        BY <1>5, <1>8, <2>4, <3>1, LastEventsGrow
      <4> QED  BY <1>5, <2>6, <4>1, <4>2
    <3>2. CASE e.event # NoName
      <4>1. /\ TablesOK(db') /\ db'.uml = db.uml /\ db'.src = db.src
            /\ ToEvents(RowsOf(db'.events, v.id))
                 = {x \in ToEvents(RowsOf(db.events, v.id)) : x.event # e.event}
                     \cup {[event |-> e.event, target |-> e.target]}
        <5>1. PICK row : row = [uml |-> v.id, event |-> e.event, target |-> e.target]
          OBVIOUS
        <5>2. row.uml = v.id /\ row.event = e.event /\ row.target = e.target
          BY <5>1
        <5>3. db' = [db EXCEPT !.events = Replaced(db.events, row)]
          BY <2>5, <3>2, <5>1
        <5>4. row.uml \in RowIds(db) /\ TablesOK(db)
          BY <1>5, <2>7, <5>2
        <5>5. TablesOK(db') /\ db'.uml = db.uml /\ db'.src = db.src
          BY ONLY <5>3, <5>4, EventInserted
        <5>6. ToEvents(RowsOf(db'.events, row.uml))
                = {x \in ToEvents(RowsOf(db.events, row.uml)) : x.event # row.event}
                    \cup {[event |-> row.event, target |-> row.target]}
          BY ONLY <5>3, <5>4, EventInserted
        <5> QED  BY <5>2, <5>5, <5>6
      <4>2. LastEvents(u, n + 1) = {x \in LastEvents(u, n) : x.event # e.event} \cup {e}
        <5>1. u \in Uploads /\ n \in Nat /\ n + 1 <= Len(u.events) /\ e = u.events[n + 1]
          BY <1>5, <1>8, <2>4
        <5> QED  BY ONLY <3>2, <5>1, LastEventsGrow
      <4>3. ToEvents(RowsOf(db.events, v.id)) = LastEvents(u, n)
        BY ONLY <2>6
      <4>4. ToEvents(RowsOf(db'.events, v.id)) = {x \in LastEvents(u, n) : x.event # e.event} \cup {e}
        BY ONLY <2>4, <4>1, <4>3
      <4> QED  BY ONLY <4>1, <4>2, <4>4
    <3> QED  BY <3>1, <3>2
  <2>9. /\ w \in UploadWork /\ w.at = "addevents" /\ w.upload = u /\ w.id = v.id
        /\ w.next = i + 1
    BY <1>2, <1>4, <1>6, <2>1 DEF UploadWork
  <2>10. w.next - 1 = n + 1 /\ w.next <= l + 1
    BY <1>6, <2>3, <2>4, <2>9
  <2>11. InsertedAre(db', u, v.id, Len(u.sources), n + 1)
    BY <2>6, <2>8 DEF InsertedAre
  <2>12. CreationOK(db', w, responses)
    BY <1>5, <1>8, <2>9, <2>10, <2>11 DEF CreationOK
  <2> QED  BY <1>1, <1>4, <1>5, <2>5, <2>8, <2>9, <2>12, WriterStays DEF WriterAt
<1> QED  BY <1>9, <1>10

LEMMA SerializeUmlInductive ==
  ASSUME Inductive, SerializeUml
  PROVE  Inductive'
<1>1. PICK v : v = Writing
  OBVIOUS
<1>2. PICK w : w = [v EXCEPT !.at = "unlock"]
  OBVIOUS
<1>3. /\ v.at = "serialize" /\ v.at \in WriterAt /\ Goto("admin", w)
      /\ UNCHANGED <<db, writer, readers, answer>> /\ (disk' = db \/ disk' = disk)
      /\ responses' = [responses EXCEPT ![v.upload] = Append(@, "ok")]
  BY <1>1, <1>2 DEF SerializeUml, Step, Writing, WriterAt
<1>4. /\ v \in UploadWork /\ TablesOK(db) /\ TablesOK(disk)
      /\ responses \in [Uploads -> Seq(Told)] /\ v.upload \in Uploads
  BY <1>1, <1>3, WriterShape
<1>5. v \in [at : {"serialize"}, upload : Uploads, id : Nat, next : Nat \ {0}]
  BY <1>3, <1>4, UploadShape
<1>6. w \in UploadWork /\ w.at = "unlock"
  BY <1>2, <1>5 DEF UploadWork
<1>7. CreationOK(db, w, responses')
  BY <1>6 DEF CreationOK
<1>8. responses' \in [Uploads -> Seq(Told)]
  <2>1. "ok" \in Told /\ responses[v.upload] \in Seq(Told)
    BY <1>4 DEF Told
  <2>2. Append(responses[v.upload], "ok") \in Seq(Told)
    BY <2>1, AppendProperties
  <2> QED  BY <1>3, <1>4, <2>2
<1> QED  BY <1>1, <1>3, <1>4, <1>6, <1>7, <1>8, WriterStays DEF WriterAt

LEMMA SaveInductive ==
  ASSUME Inductive, Save
  PROVE  Inductive'
<1>1. UNCHANGED <<db, writer, readers, work, answer, responses>> /\ (disk' = db \/ disk' = disk)
  BY DEF Save
<1>2. TablesOK(disk')
  BY <1>1 DEF Inductive
<1> QED  BY <1>1, <1>2 DEF Inductive, LockOK, Writing

LEMMA RestartInductive ==
  ASSUME Inductive, Restart
  PROVE  Inductive'
<1>1. /\ db' = disk /\ disk' = disk /\ responses' = responses /\ writer' = FALSE
      /\ \A t \in Threads : readers'[t] = 0 /\ work'[t] = [at |-> "idle"]
      /\ work' = [t \in Threads |-> work'[t]] /\ answer' = [t \in Threads |-> answer'[t]]
      /\ readers' = [t \in Threads |-> 0]
  BY DEF Restart, Idle
<1>2. PICK w : w = [at |-> "idle"]
  OBVIOUS
<1>3. "admin" \in Threads /\ w.at = "idle"
  BY <1>2 DEF Threads
<1>4. w.at \notin WriterAt /\ Held(w.at) = 0
  BY <1>3 DEF WriterAt, Held, Sharing
<1>5. LockOK'
  <2>1. (w.at \in WriterAt) = FALSE
    BY <1>4
  <2>2. writer' = (work'["admin"].at \in WriterAt)
    BY <1>1, <1>2, <1>3, <2>1
  <2>3. readers' = [t \in Threads |-> Held(work'[t].at)]
    BY <1>1, <1>2, <1>4
  <2> QED  BY <1>1, <2>2, <2>3 DEF LockOK, Writing
<1>6. w \notin UploadWork
  BY <1>3, UploadShape
<1>7. CreationOK(disk, w, responses)
  BY <1>3, <1>6 DEF CreationOK
<1>8. \A t \in Threads : ReaderOK(disk, t, w)
  BY <1>2 DEF ReaderOK
<1>9. TablesOK(disk) /\ responses \in [Uploads -> Seq(Told)]
  BY DEF Inductive
<1> QED  BY <1>1, <1>2, <1>3, <1>5, <1>7, <1>8, <1>9 DEF Inductive, Writing

LEMMA InitInductive ==
  ASSUME Init
  PROVE  Inductive
<1>1. /\ db = Empty /\ disk = Empty /\ writer = FALSE
      /\ \A t \in Threads : readers[t] = 0 /\ work[t] = [at |-> "idle"]
      /\ work = [t \in Threads |-> work[t]] /\ answer = [t \in Threads |-> answer[t]]
      /\ readers = [t \in Threads |-> 0] /\ responses = [u \in Uploads |-> <<>>]
  BY DEF Init, Idle
<1>2. PICK w : w = [at |-> "idle"]
  OBVIOUS
<1>3. "admin" \in Threads /\ w.at = "idle"
  BY <1>2 DEF Threads
<1>4. w.at \notin WriterAt /\ Held(w.at) = 0
  BY <1>3 DEF WriterAt, Held, Sharing
<1>5. LockOK
  <2>1. (w.at \in WriterAt) = FALSE
    BY <1>4
  <2>2. writer = (work["admin"].at \in WriterAt)
    BY <1>1, <1>2, <1>3, <2>1
  <2>3. readers = [t \in Threads |-> Held(work[t].at)]
    BY <1>1, <1>2, <1>4
  <2> QED  BY <1>1, <2>2, <2>3 DEF LockOK, Writing
<1>6. w \notin UploadWork
  BY <1>3, UploadShape
<1>7. CreationOK(db, w, responses)
  BY <1>3, <1>6 DEF CreationOK
<1>8. \A t \in Threads : ReaderOK(db, t, w)
  BY <1>2 DEF ReaderOK
<1>9. TablesOK(Empty)
  <2>1. Empty.uml = {} /\ Empty.src = {} /\ Empty.events = {}
    BY DEF Empty
  <2>2. IsFiniteSet({}) /\ Cardinality({}) = 0 /\ 1..0 = {}
    BY FS_EmptySet
  <2>3. Empty = [uml |-> Empty.uml, src |-> Empty.src, events |-> Empty.events]
    BY DEF Empty
  <2>4. RowIds(Empty) = 1..Cardinality(Empty.uml)
    BY <2>1, <2>2 DEF RowIds
  <2> QED  BY <2>1, <2>2, <2>3, <2>4 DEF TablesOK
<1>10. responses \in [Uploads -> Seq(Told)]
  BY <1>1, EmptySeq
<1> QED  BY <1>1, <1>2, <1>3, <1>5, <1>7, <1>8, <1>9, <1>10 DEF Inductive, Writing
-----------------------------------------------------------------------------
LEMMA NextInductive ==
  ASSUME Inductive, [Next]_vars
  PROVE  Inductive'
<1>1. ASSUME NEW u \in Uploads, Train(u) PROVE Inductive'
  BY <1>1, TrainInductive
<1>2. ASSUME NEW t \in Threads, NEW op \in {"list", "table", "search"}, AskRead(t, op, <<>>)
      PROVE  Inductive'
  <2>1. op # "compose"
    BY <1>2
  <2> QED  BY <1>2, <2>1, AskReadInductive
<1>3. ASSUME NEW t \in Threads, NEW names \in Projects, AskRead(t, "compose", names)
      PROVE  Inductive'
  BY <1>3, AskReadInductive
<1>4. CASE Writer
  BY <1>4, LockExclusiveInductive, CheckNameInductive, InsertUmlInductive,
     InsertSourceInductive, InsertEventInductive, SerializeUmlInductive,
     UnlockExclusiveInductive DEF Writer
<1>5. ASSUME NEW t \in Threads, Reader(t) PROVE Inductive'
  BY <1>5, LockSharedInductive, SelectRowsInductive, NextRowInductive, ReadSourcesInductive,
     ReadEventsInductive, LockAgainInductive, ReadInnerInductive, ReturnInductive,
     ReplyInductive DEF Reader
<1>6. CASE Restart
  BY <1>6, RestartInductive
<1>7. CASE Save
  BY <1>7, SaveInductive
<1>8. CASE UNCHANGED vars
  BY <1>8 DEF vars, Inductive, LockOK, Writing
<1> QED  BY <1>1, <1>2, <1>3, <1>4, <1>5, <1>6, <1>7, <1>8 DEF Next, Ask

(* The inductive invariant holds of every state of the store.              *)
THEOREM SpecInductive == Spec => []Inductive
BY InitInductive, NextInductive, PTL DEF Spec

(* What refers to a container refers to one that is there, ids count the   *)
(* rows, nobody reads while somebody writes: for any uploads and projects  *)
(* (create_uml_container; the std::shared_mutex of the store).             *)
THEOREM UmlTypeCorrect == Spec => []UmlTypeOK
<1>1. ASSUME Inductive PROVE UmlTypeOK
  <2>1. \A d \in {db, disk} :
          /\ RowIds(d) = 1..Cardinality(d.uml)
          /\ \A s \in d.src : s.uml \in RowIds(d)
          /\ \A e \in d.events : e.uml \in RowIds(d)
    BY <1>1 DEF Inductive, TablesOK
  <2>2. \A at : Held(at) \in 0..2
    BY DEF Held
  <2>3. readers \in [Threads -> 0..2]
    BY <1>1, <2>2 DEF Inductive, LockOK
  <2>4. writer \in BOOLEAN /\ (writer => \A t \in Threads : readers[t] = 0)
    BY <1>1 DEF Inductive, LockOK
  <2> QED  BY <2>1, <2>3, <2>4 DEF UmlTypeOK
<1> QED  BY <1>1, SpecInductive, PTL

-----------------------------------------------------------------------------
(* UmlStore implements UmlCatalog.                                         *)
Live == Containers(db, IF Busy THEN {Writing.id} ELSE {})
Kept == Containers(disk, {})

LEMMA ContainersAre ==
  ASSUME NEW d, NEW hidden
  PROVE  /\ Containers(d, hidden) = {ContainerOf(d, row) : row \in {row \in d.uml : row.id \notin hidden}}
         /\ Containers(d, {}) = Whole(d)
BY DEF Containers, ContainerOf, Whole

LEMMA SameContainers ==
  ASSUME NEW d, NEW e, NEW hidden, NEW shown,
         {row \in e.uml : row.id \notin hidden} = {row \in d.uml : row.id \notin shown},
         \A row \in d.uml : row.id \notin shown =>
           /\ RowsOf(e.src, row.id) = RowsOf(d.src, row.id)
           /\ RowsOf(e.events, row.id) = RowsOf(d.events, row.id)
  PROVE  Containers(e, hidden) = Containers(d, shown)
<1>1. ASSUME NEW row \in d.uml, row.id \notin shown PROVE ContainerOf(e, row) = ContainerOf(d, row)
  <2>1. \A x, r : x \in RowsOf(r, row.id) <=> x \in r /\ x.uml = row.id
    BY DEF RowsOf
  <2>2. {x \in e.src : x.uml = row.id /\ x.type \in SrcTypes}
          = {x \in d.src : x.uml = row.id /\ x.type \in SrcTypes}
    BY <1>1, <2>1
  <2>3. {x \in e.events : x.uml = row.id} = {x \in d.events : x.uml = row.id}
    BY <1>1, <2>1
  <2> QED  BY <2>2, <2>3 DEF ContainerOf
<1>2. Containers(d, shown) = {ContainerOf(d, row) : row \in {row \in d.uml : row.id \notin shown}}
  BY ContainersAre
<1>3. Containers(e, hidden) = {ContainerOf(e, row) : row \in {row \in d.uml : row.id \notin shown}}
  BY ContainersAre
<1> QED  BY <1>1, <1>2, <1>3

LEMMA LiveWhole ==
  ASSUME Inductive, ~writer
  PROVE  ~Busy /\ Live = Whole(db)
<1>1. ~Busy
  BY DEF Inductive, LockOK, Busy, WriterAt
<1> QED  BY <1>1, ContainersAre DEF Live

(* The threads' other steps change nothing of the catalog.                 *)
LEMMA ReaderKeeps ==
  ASSUME Inductive, Inductive', NEW t \in Threads, work[t].at \notin WriterAt,
         UNCHANGED <<db, disk, writer, responses>>, NEW w, Goto(t, w)
  PROVE  Live' = Live /\ Kept' = Kept
<1>1. CASE ~writer
  <2>1. Live = Whole(db)
    BY <1>1, LiveWhole
  <2>2. Live' = Whole(db)
    <3>1. (Inductive /\ ~writer => Live = Whole(db))'
      BY LiveWhole, PTL
    <3> QED  BY <1>1, <3>1
  <2> QED  BY <2>1, <2>2 DEF Kept
<1>2. CASE writer
  <2>1. t # "admin"
    BY <1>2 DEF Inductive, LockOK, Writing
  <2>2. work'["admin"] = work["admin"]
    BY <2>1, Moved DEF Inductive, Threads
  <2> QED  BY <2>2 DEF Live, Kept, Busy, Writing, Containers
<1> QED  BY <1>1, <1>2

LEMMA SaidOfUploads ==
  /\ Len(<<>>) < 2 /\ Len(<<"accepted">>) < 2
  /\ \A said : /\ ~(Len(Append(<<"accepted">>, said)) < 2)
               /\ Append(<<"accepted">>, said)[2] = said
<1>1. Len(<<>>) = 0 /\ Len(<<"accepted">>) = 1
  OBVIOUS
<1>2. ASSUME NEW said
      PROVE  Len(Append(<<"accepted">>, said)) = 2 /\ Append(<<"accepted">>, said)[2] = said
  <2>1. <<"accepted">> \in Seq({"accepted", said})
    OBVIOUS
  <2> QED  BY <1>1, <2>1, AppendProperties
<1> QED  BY <1>1, <1>2

(* What the uploader was told, as the catalog sees it.                     *)
ToldAre == [u \in Uploads |-> ToldOf(u)]

LEMMA TrainKeeps ==
  ASSUME Inductive, NEW u \in Uploads, Train(u)
  PROVE  ToldAre' = ToldAre
<1>1. /\ responses[u] = <<>> /\ responses' = [responses EXCEPT ![u] = <<"accepted">>]
      /\ responses \in [Uploads -> Seq(Told)]
  BY DEF Train, Inductive
<1>2. responses'[u] = <<"accepted">> /\ \A x \in Uploads : x # u => responses'[x] = responses[x]
  BY <1>1
<1>3. Len(responses[u]) < 2 /\ Len(responses'[u]) < 2
  BY <1>1, <1>2, SaidOfUploads
<1>4. ASSUME NEW x \in Uploads PROVE ToldOf(x)' = ToldOf(x)
  <2>1. CASE x = u
    BY <1>3, <2>1 DEF ToldOf
  <2>2. CASE x # u
    BY <1>2, <2>2 DEF ToldOf
  <2> QED  BY <2>1, <2>2
<1> QED  BY <1>4 DEF ToldAre

LEMMA AnswerTold ==
  ASSUME responses \in [Uploads -> Seq(Told)], NEW u \in Uploads, responses[u] = <<"accepted">>,
         NEW said \in {"ok", "duplicate"},
         responses' = [responses EXCEPT ![u] = Append(@, said)]
  PROVE  /\ ToldAre[u] = "none"
         /\ ToldAre' = [ToldAre EXCEPT ![u] = IF said = "ok" THEN "created" ELSE "exists"]
<1>1. /\ responses'[u] = Append(<<"accepted">>, said)
      /\ \A x \in Uploads : x # u => responses'[x] = responses[x]
  OBVIOUS
<1>2. ToldOf(u) = "none"
  BY SaidOfUploads DEF ToldOf
<1>3. ToldOf(u)' = IF said = "ok" THEN "created" ELSE "exists"
  <2>1. ~(Len(responses'[u]) < 2) /\ responses'[u][2] = said
    BY <1>1, SaidOfUploads
  <2> QED  BY <2>1 DEF ToldOf
<1>4. \A x \in Uploads : x # u => ToldOf(x)' = ToldOf(x)
  BY <1>1 DEF ToldOf
<1> QED  BY <1>2, <1>3, <1>4 DEF ToldAre
-----------------------------------------------------------------------------
LEMMA Stutters ==
  ASSUME Live' = Live, Kept' = Kept, ToldAre' = ToldAre, UNCHANGED answer
  PROVE  [Catalog!Next]_(Catalog!vars)
BY DEF Catalog!vars, Live, Kept, ToldAre

LEMMA ReaderStutters ==
  ASSUME Inductive, Inductive', NEW t \in Threads, work[t].at \notin WriterAt,
         UNCHANGED <<db, disk, writer, responses, answer>>, NEW w, Goto(t, w)
  PROVE  [Catalog!Next]_(Catalog!vars)
<1>1. ToldAre' = ToldAre
  BY DEF ToldAre, ToldOf
<1> QED  BY <1>1, ReaderKeeps, Stutters

LEMMA ReplyImplements ==
  ASSUME Inductive, Inductive', NEW t \in Threads, Reply(t)
  PROVE  [Catalog!Next]_(Catalog!vars)
<1>1. /\ work[t].at = "reply" /\ Goto(t, Idle) /\ UNCHANGED <<db, disk, writer, responses>>
      /\ answer' = [answer EXCEPT ![t] = <<>>]
  BY DEF Reply, AtRead
<1>2. ToldAre' = ToldAre
  BY <1>1 DEF ToldAre, ToldOf
<1>3. Live' = Live /\ Kept' = Kept
  BY <1>1, ReaderKeeps DEF WriterAt
<1>4. Catalog!Reply(t)
  BY <1>1, <1>2, <1>3 DEF Catalog!Reply, Live, Kept, ToldAre
<1> QED  BY <1>4 DEF Catalog!Next

(* What is returned was the catalog when it was returned.                  *)
ReadFrom(live, blocks) ==
  \/ Catalog!Enumerates(blocks, live)
  \/ \E S \in SUBSET live :
       \/ Catalog!Enumerates(blocks, {Catalog!SourcesOnly(c) : c \in S})
       \/ Catalog!Enumerates(blocks, {Catalog!SchemaOnly(c) : c \in S})

ComposedFrom(live, blocks, names) ==
  LET found == {i \in DOMAIN names : \E c \in live : c.name = names[i]}
  IN  \E at \in [DOMAIN blocks -> found] :
        /\ \A i, j \in DOMAIN at : i < j => at[i] < at[j]
        /\ \A i \in found : \E j \in DOMAIN at : at[j] = i
        /\ \A i \in DOMAIN at : blocks[i] \in live /\ blocks[i].name = names[at[i]]

LEMMA GatheredRead ==
  ASSUME NEW d, TablesOK(d), NEW op \in {"list", "table", "search"}, NEW blocks, NEW todo,
         todo = <<>>, Gathered(d, op, blocks, todo)
  PROVE  ReadFrom(Whole(d), blocks)
<1> DEFINE T == {blocks[i] : i \in DOMAIN blocks}
           S == {c \in Whole(d) : BlockOf(op, c) \in T}
<1>1. /\ blocks \in Seq({BlockOf(op, c) : c \in Whole(d)})
      /\ \A i, j \in DOMAIN blocks : blocks[i] = blocks[j] => i = j
      /\ op = "list" => \A name \in Names(d) : \E i \in DOMAIN blocks : blocks[i].name = name
  BY DEF Gathered
<1>3. Catalog!Enumerates(blocks, T)
  BY <1>1 DEF Catalog!Enumerates
<1>4. \A i \in DOMAIN blocks : \E c \in Whole(d) : blocks[i] = BlockOf(op, c)
  BY <1>1, LenProperties
<1>5. T = {BlockOf(op, c) : c \in S}
  BY <1>4
<1>6. CASE op = "search"
  <2>1. \A c : BlockOf(op, c) = Catalog!SourcesOnly(c)
    BY <1>6 DEF BlockOf, Catalog!SourcesOnly
  <2>2. T = {Catalog!SourcesOnly(c) : c \in S}
    BY <1>5, <2>1
  <2>3. S \in SUBSET Whole(d)
    OBVIOUS
  <2> HIDE DEF S, T
  <2> QED  BY <1>3, <2>2, <2>3 DEF ReadFrom
<1>7. CASE op = "table"
  <2>1. \A c : BlockOf(op, c) = Catalog!SchemaOnly(c)
    BY <1>7 DEF BlockOf, Catalog!SchemaOnly
  <2>2. T = {Catalog!SchemaOnly(c) : c \in S}
    BY <1>5, <2>1
  <2>3. S \in SUBSET Whole(d)
    OBVIOUS
  <2> HIDE DEF S, T
  <2> QED  BY <1>3, <2>2, <2>3 DEF ReadFrom
<1>8. CASE op = "list"
  <2>1. \A c : BlockOf(op, c) = c
    BY <1>8 DEF BlockOf
  <2>2. T = S
    BY <1>5, <2>1
  <2>3. ASSUME NEW c \in Whole(d) PROVE c \in T
    <3>1. PICK row \in d.uml : c = ContainerOf(d, row)
      BY DEF Whole
    <3>2. c.name = row.name /\ row.name \in Names(d)
      BY <3>1 DEF ContainerOf, Names
    <3>3. PICK i \in DOMAIN blocks : blocks[i].name = row.name
      BY <1>1, <1>8, <3>2
    <3>4. PICK other \in d.uml : blocks[i] = ContainerOf(d, other)
      BY <1>4, <2>1 DEF Whole
    <3>5. other.name = row.name
      BY <3>3, <3>4 DEF ContainerOf
    <3>6. other = row
      BY <3>5 DEF TablesOK
    <3> QED  BY <3>1, <3>4, <3>6
  <2>4. T = Whole(d)
    BY <2>2, <2>3
  <2> QED  BY <1>3, <2>4 DEF ReadFrom
<1> QED  BY <1>6, <1>7, <1>8

LEMMA ComposedRead ==
  ASSUME NEW d, NEW blocks, NEW todo, todo = <<>>, Composed(d, blocks, todo)
  PROVE  \E names \in Projects : ComposedFrom(Whole(d), blocks, names)
<1>1. PICK names \in Projects, l \in Nat, k \in Nat, n \in Nat :
        /\ l = Len(names) /\ DOMAIN names = 1..l /\ names \in Seq(ToSet(names)) /\ k <= l
        /\ n = Len(blocks) /\ DOMAIN blocks = 1..n
        /\ \E at \in [1..n -> 1..k] : ComposedOf(d, names, k, at, blocks, todo)
  BY ComposedParts
<1>2. PICK at \in [1..n -> 1..k] : ComposedOf(d, names, k, at, blocks, todo)
  BY <1>1
<1>3. /\ Len(todo) = l - k /\ blocks \in Seq(Whole(d))
      /\ \A i, j \in 1..n : i < j => at[i] < at[j]
      /\ \A i \in 1..n : at[i] \in 1..k /\ blocks[i].name = names[at[i]]
      /\ \A i \in 1..k : names[i] \in Names(d) => \E j \in 1..n : at[j] = i
  BY <1>1, <1>2 DEF ComposedOf
<1>4. k = l /\ DOMAIN names = 1..k
  BY <1>1, <1>3
<1>5. \A i \in 1..n : blocks[i] \in Whole(d)
  BY <1>1, <1>3, LenProperties
<1> DEFINE found == {i \in DOMAIN names : \E c \in Whole(d) : c.name = names[i]}
<1>6. \A i \in DOMAIN names : i \in found <=> names[i] \in Names(d)
  <2>1. \A c \in Whole(d) : c.name \in Names(d)
    BY DEF Whole, ContainerOf, Names
  <2>2. \A name \in Names(d) : \E c \in Whole(d) : c.name = name
    <3>1. ASSUME NEW row \in d.uml PROVE ContainerOf(d, row) \in Whole(d) /\ ContainerOf(d, row).name = row.name
      BY DEF Whole, ContainerOf
    <3> QED  BY <3>1 DEF Names
  <2> QED  BY <2>1, <2>2
<1>7. at \in [DOMAIN blocks -> found] /\ DOMAIN at = 1..n
  BY <1>1, <1>3, <1>4, <1>5
<1>8. \A i \in found : \E j \in 1..n : at[j] = i
  BY <1>3, <1>4, <1>6
<1> HIDE DEF found
<1>9. \E a \in [DOMAIN blocks -> found] :
        /\ \A i, j \in DOMAIN a : i < j => a[i] < a[j]
        /\ \A i \in found : \E j \in DOMAIN a : a[j] = i
        /\ \A i \in DOMAIN a : blocks[i] \in Whole(d) /\ blocks[i].name = names[a[i]]
  <2>1. /\ \A i, j \in DOMAIN at : i < j => at[i] < at[j]
        /\ \A i \in found : \E j \in DOMAIN at : at[j] = i
        /\ \A i \in DOMAIN at : blocks[i] \in Whole(d) /\ blocks[i].name = names[at[i]]
    BY <1>3, <1>5, <1>7, <1>8
  <2> QED  BY ONLY <1>7, <2>1
<1> QED  BY <1>9 DEF found, ComposedFrom

LEMMA ReturnImplements ==
  ASSUME Inductive, Inductive', NEW t \in Threads, Return(t)
  PROVE  [Catalog!Next]_(Catalog!vars)
<1>1. PICK v : v = work[t]
  OBVIOUS
<1>2. /\ v.at = "row" /\ v.todo = <<>> /\ Goto(t, [at |-> "reply"])
      /\ UNCHANGED <<db, disk, writer, responses>>
      /\ answer' = [answer EXCEPT ![t] = v.blocks]
  BY <1>1 DEF Return, AtRead, Unshare
<1>3. Asking(t, v) /\ Collected(db, v.op, v.blocks, v.todo)
  BY <1>1, <1>2, InductiveParts, ReaderShape
<1>4. ToldAre' = ToldAre
  BY <1>2 DEF ToldAre, ToldOf
<1>5. Live' = Live /\ Kept' = Kept
  BY <1>1, <1>2, ReaderKeeps DEF WriterAt
<1>6. ~writer
  <2>1. readers[t] = 1
    BY <1>1, <1>2 DEF Inductive, LockOK, Held, Sharing
  <2> QED  BY <2>1 DEF Inductive, LockOK
<1>7. Live = Whole(db)
  BY <1>6, LiveWhole
<1>8. answer'[t] = v.blocks /\ answer' = [answer EXCEPT ![t] = answer'[t]]
  BY <1>2, InductiveParts
<1>9. CASE v.op = "compose"
  <2>1. Composed(db, v.blocks, v.todo)
    BY <1>3, <1>9 DEF Collected
  <2>2. PICK names \in Projects : ComposedFrom(Whole(db), v.blocks, names)
    BY <1>2, <2>1, ComposedRead
  <2>3. ComposedFrom(Live, answer'[t], names)
    BY <1>7, <1>8, <2>2
  <2>4. Catalog!Compose(t, names)
    BY <1>4, <1>5, <1>8, <2>3 DEF Catalog!Compose, ComposedFrom, Live, Kept, ToldAre
  <2> QED  BY <2>4 DEF Catalog!Next
<1>10. CASE v.op # "compose"
  <2>1. Gathered(db, v.op, v.blocks, v.todo) /\ v.op \in {"list", "table", "search"}
    BY <1>3, <1>10 DEF Collected, Asking, Reads
  <2>2. TablesOK(db)
    BY DEF Inductive
  <2>3. ReadFrom(Whole(db), v.blocks)
    BY <1>2, <2>1, <2>2, GatheredRead
  <2>4. ReadFrom(Live, answer'[t])
    BY <1>7, <1>8, <2>3
  <2>5. Catalog!Read(t)
    BY <1>4, <1>5, <1>8, <2>4 DEF Catalog!Read, ReadFrom, Live, Kept, ToldAre
  <2> QED  BY <2>5 DEF Catalog!Next
<1> QED  BY <1>9, <1>10

(* The writer's steps: only the last of them creates the container.        *)
LEMMA LiveIdle == ~Busy => Live = Whole(db)
BY ContainersAre DEF Live

LEMMA ApartStutters ==
  ASSUME ~Busy, ~Busy', UNCHANGED <<db, disk, answer>>, ToldAre' = ToldAre
  PROVE  [Catalog!Next]_(Catalog!vars)
<1>1. Live = Whole(db)
  BY LiveIdle
<1>2. Live' = Whole(db)
  <2>1. (~Busy => Live = Whole(db))'
    BY LiveIdle, PTL
  <2> QED  BY <2>1
<1>3. Kept' = Kept
  BY DEF Kept
<1> QED  BY <1>1, <1>2, <1>3, Stutters

(* Where the admin thread goes.                                            *)
LEMMA WriterGoes ==
  ASSUME Inductive, NEW w, Goto("admin", w)
  PROVE  Writing' = w
BY Moved DEF Inductive, Writing, Threads

LEMMA TrainImplements ==
  ASSUME Inductive, NEW u \in Uploads, Train(u)
  PROVE  [Catalog!Next]_(Catalog!vars)
<1>1. PICK w : w = [at |-> "exclusive", upload |-> u]
  OBVIOUS
<1>2. Writing.at = "idle" /\ Goto("admin", w) /\ w.at = "exclusive" /\ UNCHANGED <<db, disk, answer>>
  BY <1>1 DEF Train, Idle
<1>3. ~Busy /\ ~Busy'
  BY <1>2, WriterGoes DEF Busy
<1> QED  BY <1>2, <1>3, TrainKeeps, ApartStutters

LEMMA LocksStutter ==
  ASSUME Inductive, LockExclusive \/ UnlockExclusive
  PROVE  [Catalog!Next]_(Catalog!vars)
<1>1. PICK w : w = IF Writing.at = "unlock" THEN Idle ELSE [Writing EXCEPT !.at = "check"]
  OBVIOUS
<1>2. /\ Writing.at \in {"exclusive", "unlock"} /\ Goto("admin", w)
      /\ UNCHANGED <<db, disk, answer, responses>>
  BY <1>1 DEF LockExclusive, UnlockExclusive, Step, Writing
<1>3. w.at \in {"check", "idle"}
  <2>1. CASE Writing.at = "unlock"
    BY <1>1, <2>1 DEF Idle
  <2>2. CASE Writing.at = "exclusive"
    <3>1. Writing \in UploadWork
      BY <2>2, InductiveParts, ReaderShape DEF Writing, Threads
    <3>2. Writing \in [at : {"exclusive"}, upload : Uploads]
      BY <2>2, <3>1, UploadShape
    <3> QED  BY <1>1, <2>2, <3>2
  <2> QED  BY <1>2, <2>1, <2>2
<1>4. ~Busy /\ ~Busy'
  BY <1>2, <1>3, WriterGoes DEF Busy
<1>5. ToldAre' = ToldAre
  BY <1>2 DEF ToldAre, ToldOf
<1> QED  BY <1>2, <1>4, <1>5, ApartStutters

LEMMA CheckNameImplements ==
  ASSUME Inductive, CheckName
  PROVE  [Catalog!Next]_(Catalog!vars)
<1>1. PICK v : v = Writing
  OBVIOUS
<1>2. v.at = "check" /\ v.at \in WriterAt /\ UNCHANGED <<db, disk, answer>>
  BY <1>1 DEF CheckName, WriterAt
<1>3. /\ v \in [at : {"check"}, upload : Uploads] /\ v.upload \in Uploads
      /\ responses \in [Uploads -> Seq(Told)] /\ responses[v.upload] = <<"accepted">>
  BY <1>1, <1>2, WriterShape, UploadShape
<1>4. PICK w : w = [v EXCEPT !.at = IF v.upload.name \in Names(db) THEN "unlock" ELSE "insert"]
  OBVIOUS
<1>5. Goto("admin", w)
  BY <1>1, <1>4 DEF CheckName, Step, Writing
<1>6. w.at \in {"unlock", "insert"}
  BY <1>3, <1>4
<1>7. ~Busy /\ ~Busy'
  BY <1>1, <1>2, <1>5, <1>6, WriterGoes DEF Busy
<1>8. CASE v.upload.name \notin Names(db)
  <2>1. UNCHANGED responses
    BY <1>1, <1>8 DEF CheckName
  <2>2. ToldAre' = ToldAre
    BY <2>1 DEF ToldAre, ToldOf
  <2> QED  BY <1>2, <1>7, <2>2, ApartStutters
<1>9. CASE v.upload.name \in Names(db)
  <2>1. responses' = [responses EXCEPT ![v.upload] = Append(@, "duplicate")]
    BY <1>1, <1>9 DEF CheckName
  <2>2. ToldAre[v.upload] = "none" /\ ToldAre' = [ToldAre EXCEPT ![v.upload] = "exists"]
    BY <1>3, <2>1, AnswerTold
  <2>3. Live = Whole(db)
    BY <1>7, LiveIdle
  <2>4. Live' = Live /\ Kept' = Kept
    <3>1. (~Busy => Live = Whole(db))'
      BY LiveIdle, PTL
    <3> QED  BY <1>2, <1>7, <2>3, <3>1 DEF Kept
  <2>5. \E c \in Live : c.name = v.upload.name
    <3>1. PICK row \in db.uml : row.name = v.upload.name
      BY <1>9 DEF Names
    <3>2. ContainerOf(db, row) \in Live /\ ContainerOf(db, row).name = v.upload.name
      BY <2>3, <3>1 DEF Whole, ContainerOf
    <3> QED  BY <3>2
  <2>6. Catalog!Refuse(v.upload)
    BY <1>2, <2>2, <2>4, <2>5 DEF Catalog!Refuse, Live, Kept, ToldAre
  <2> QED  BY <1>3, <2>6 DEF Catalog!Next
<1> QED  BY <1>8, <1>9

(* The insertions, out of sight.                                           *)
LEMMA HiddenStutters ==
  ASSUME NEW d, d = Live, NEW id, Busy', Writing'.id = id, Containers(db', {id}) = d,
         UNCHANGED <<disk, answer, responses>>
  PROVE  [Catalog!Next]_(Catalog!vars)
<1>1. Live' = Containers(db', {id})
  BY DEF Live
<1>2. Kept' = Kept /\ ToldAre' = ToldAre
  BY DEF Kept, ToldAre, ToldOf
<1> QED  BY <1>1, <1>2, Stutters

LEMMA InsertUmlImplements ==
  ASSUME Inductive, InsertUml
  PROVE  [Catalog!Next]_(Catalog!vars)
<1>1. PICK v : v = Writing
  OBVIOUS
<1>2. PICK u : u = v.upload
  OBVIOUS
<1>3. PICK id : id = Cardinality(db.uml) + 1
  OBVIOUS
<1>4. PICK w : w = [at |-> "addsources", upload |-> u, id |-> id, next |-> 1]
  OBVIOUS
<1>5. PICK row : row = [id |-> id, name |-> u.name, schema |-> u.schema]
  OBVIOUS
<1>6. /\ v.at = "insert" /\ v.at \in WriterAt /\ Goto("admin", w)
      /\ db' = [db EXCEPT !.uml = db.uml \cup {row}]
      /\ UNCHANGED <<disk, answer, responses>>
  BY <1>1, <1>2, <1>3, <1>4, <1>5 DEF InsertUml, WriterAt
<1>7. TablesOK(db) /\ u.name \notin Names(db)
  BY <1>1, <1>2, <1>6, WriterShape DEF CreationOK
<1>8. /\ db'.uml = db.uml \cup {row} /\ db'.src = db.src /\ db'.events = db.events
      /\ \A r \in db.uml : r.id # id
  BY <1>3, <1>5, <1>6, <1>7, RowInserted
<1>9. ~Busy /\ Busy' /\ Writing'.id = id
  BY <1>1, <1>4, <1>6, WriterGoes DEF Busy
<1>10. Live = Containers(db, {})
  BY <1>9 DEF Live
<1>11. {r \in db'.uml : r.id \notin {id}} = {r \in db.uml : r.id \notin {}}
  BY <1>5, <1>8
<1>12. Containers(db', {id}) = Containers(db, {})
  BY <1>8, <1>11, SameContainers
<1> QED  BY <1>6, <1>9, <1>10, <1>12, HiddenStutters

(* The rows of one container are not seen in the others.                   *)
LEMMA SourceHides ==
  ASSUME NEW d, TablesOK(d), NEW row, row.uml \in RowIds(d),
         NEW e, e = [d EXCEPT !.src = d.src \cup {row}]
  PROVE  Containers(e, {row.uml}) = Containers(d, {row.uml})
<1>1. e.uml = d.uml /\ e.events = d.events
  BY DEF TablesOK
<1>2. e.src = d.src \cup {row}
  BY DEF TablesOK
<1>3. \A other : other # row.uml => RowsOf(e.src, other) = RowsOf(d.src, other)
  BY <1>2 DEF RowsOf
<1>4. PICK H : H = {row.uml}
  OBVIOUS
<1>5. {r \in e.uml : r.id \notin H} = {r \in d.uml : r.id \notin H}
  BY <1>1
<1>6. \A r \in d.uml : r.id \notin H =>
        /\ RowsOf(e.src, r.id) = RowsOf(d.src, r.id)
        /\ RowsOf(e.events, r.id) = RowsOf(d.events, r.id)
  BY <1>1, <1>3, <1>4
<1>7. Containers(e, H) = Containers(d, H)
  BY ONLY <1>5, <1>6, SameContainers
<1> QED  BY <1>4, <1>7

LEMMA EventHides ==
  ASSUME NEW d, TablesOK(d), NEW row, row.uml \in RowIds(d),
         NEW e, e = [d EXCEPT !.events = Replaced(d.events, row)]
  PROVE  Containers(e, {row.uml}) = Containers(d, {row.uml})
<1>1. e.uml = d.uml /\ e.src = d.src /\ e.events = Replaced(d.events, row)
  BY DEF TablesOK
<1>2. \A other : other # row.uml => RowsOf(e.events, other) = RowsOf(d.events, other)
  BY <1>1 DEF RowsOf, Replaced
<1>3. PICK H : H = {row.uml}
  OBVIOUS
<1>4. {r \in e.uml : r.id \notin H} = {r \in d.uml : r.id \notin H}
  BY <1>1
<1>5. \A r \in d.uml : r.id \notin H =>
        /\ RowsOf(e.src, r.id) = RowsOf(d.src, r.id)
        /\ RowsOf(e.events, r.id) = RowsOf(d.events, r.id)
  BY <1>1, <1>2, <1>3
<1>6. Containers(e, H) = Containers(d, H)
  BY ONLY <1>4, <1>5, SameContainers
<1> QED  BY <1>3, <1>6

LEMMA InsertSourceImplements ==
  ASSUME Inductive, InsertSource
  PROVE  [Catalog!Next]_(Catalog!vars)
<1>1. PICK v : v = Writing
  OBVIOUS
<1>2. PICK id : id = v.id
  OBVIOUS
<1>3. v.at = "addsources" /\ v.at \in WriterAt /\ UNCHANGED <<disk, answer, responses>>
  BY <1>1 DEF InsertSource, WriterAt
<1>4. v \in UploadWork /\ TablesOK(db) /\ CreationOK(db, v, responses)
  BY <1>1, <1>3, WriterShape
<1>5. v \in [at : {"addsources"}, upload : Uploads, id : Nat, next : Nat \ {0}]
  BY <1>3, <1>4, UploadShape
<1>6. id \in RowIds(db)
  BY <1>2, <1>3, <1>4 DEF CreationOK, InsertedAre, RowIds
<1>7. Busy /\ Live = Containers(db, {id})
  BY <1>1, <1>2, <1>3 DEF Busy, Live
<1>8. CASE v.next > Len(v.upload.sources)
  <2>1. PICK w : w = [v EXCEPT !.at = "addevents", !.next = 1]
    OBVIOUS
  <2>2. Goto("admin", w) /\ UNCHANGED db /\ w.at = "addevents" /\ w.id = id
    BY <1>1, <1>2, <1>5, <1>8, <2>1 DEF InsertSource
  <2>3. Busy' /\ Writing'.id = id
    BY <2>2, WriterGoes DEF Busy
  <2> QED  BY <1>3, <1>7, <2>2, <2>3, HiddenStutters
<1>9. CASE ~(v.next > Len(v.upload.sources))
  <2>1. PICK w : w = [v EXCEPT !.next = v.next + 1]
    OBVIOUS
  <2>2. PICK s : s = v.upload.sources[v.next]
    OBVIOUS
  <2>3. PICK row : row = [uml |-> id, type |-> s.type, content |-> s.content]
    OBVIOUS
  <2>4. /\ Goto("admin", w) /\ w.at = "addsources" /\ w.id = id /\ row.uml = id
        /\ db' = [db EXCEPT !.src = db.src \cup {row}]
    BY <1>1, <1>2, <1>3, <1>5, <1>9, <2>1, <2>2, <2>3 DEF InsertSource
  <2>5. Busy' /\ Writing'.id = id
    BY <2>4, WriterGoes DEF Busy
  <2>6. TablesOK(db) /\ row.uml \in RowIds(db) /\ db' = [db EXCEPT !.src = db.src \cup {row}]
    BY <1>4, <1>6, <2>4
  <2>7. Containers(db', {row.uml}) = Containers(db, {row.uml})
    BY <2>6, SourceHides
  <2> QED  BY <1>3, <1>7, <2>4, <2>5, <2>7, HiddenStutters
<1> QED  BY <1>8, <1>9

LEMMA InsertEventImplements ==
  ASSUME Inductive, InsertEvent
  PROVE  [Catalog!Next]_(Catalog!vars)
<1>1. PICK v : v = Writing
  OBVIOUS
<1>2. PICK id : id = v.id
  OBVIOUS
<1>3. v.at = "addevents" /\ v.at \in WriterAt /\ UNCHANGED <<disk, answer, responses>>
  BY <1>1 DEF InsertEvent, WriterAt
<1>4. v \in UploadWork /\ TablesOK(db) /\ CreationOK(db, v, responses)
  BY <1>1, <1>3, WriterShape
<1>5. v \in [at : {"addevents"}, upload : Uploads, id : Nat, next : Nat \ {0}]
  BY <1>3, <1>4, UploadShape
<1>6. id \in RowIds(db)
  BY <1>2, <1>3, <1>4 DEF CreationOK, InsertedAre, RowIds
<1>7. Busy /\ Live = Containers(db, {id})
  BY <1>1, <1>2, <1>3 DEF Busy, Live
<1>8. CASE v.next > Len(v.upload.events)
  <2>1. PICK w : w = [v EXCEPT !.at = "serialize"]
    OBVIOUS
  <2>2. Goto("admin", w) /\ UNCHANGED db /\ w.at = "serialize" /\ w.id = id
    BY <1>1, <1>2, <1>5, <1>8, <2>1 DEF InsertEvent, Step, Writing
  <2>3. Busy' /\ Writing'.id = id
    BY <2>2, WriterGoes DEF Busy
  <2> QED  BY <1>3, <1>7, <2>2, <2>3, HiddenStutters
<1>9. CASE ~(v.next > Len(v.upload.events))
  <2>1. PICK w : w = [v EXCEPT !.next = v.next + 1]
    OBVIOUS
  <2>2. PICK e : e = v.upload.events[v.next]
    OBVIOUS
  <2>3. PICK row : row = [uml |-> id, event |-> e.event, target |-> e.target]
    OBVIOUS
  <2>4. /\ Goto("admin", w) /\ w.at = "addevents" /\ w.id = id /\ row.uml = id
        /\ db' = [db EXCEPT !.events =
                    IF e.event = NoName THEN db.events ELSE Replaced(db.events, row)]
    BY <1>1, <1>2, <1>3, <1>5, <1>9, <2>1, <2>2, <2>3 DEF InsertEvent
  <2>5. Busy' /\ Writing'.id = id
    BY <2>4, WriterGoes DEF Busy
  <2>6. CASE e.event = NoName
    <3>1. UNCHANGED db
      BY <1>4, <2>4, <2>6 DEF TablesOK
    <3> QED  BY <1>3, <1>7, <2>5, <3>1, HiddenStutters
  <2>7. CASE e.event # NoName
    <3>1. /\ TablesOK(db) /\ row.uml \in RowIds(db)
          /\ db' = [db EXCEPT !.events = Replaced(db.events, row)]
      BY <1>4, <1>6, <2>4, <2>7
    <3>2. Containers(db', {row.uml}) = Containers(db, {row.uml})
      BY <3>1, EventHides
    <3> QED  BY <1>3, <1>7, <2>4, <2>5, <3>2, HiddenStutters
  <2> QED  BY <2>6, <2>7
<1> QED  BY <1>8, <1>9

(* When all its rows are inserted, a container is what was uploaded.       *)
LEMMA ContainerIsShown ==
  ASSUME NEW d, NEW u \in Uploads, NEW id,
         InsertedAre(d, u, id, Len(u.sources), Len(u.events))
  PROVE  \E row \in d.uml : row.id = id /\ row.name = u.name /\ ContainerOf(d, row) = Catalog!Shown(u)
<1>1. PICK row \in d.uml : row = [id |-> id, name |-> u.name, schema |-> u.schema]
  BY DEF InsertedAre
<1>2. row.id = id /\ row.name = u.name /\ row.schema = u.schema
  BY <1>1
<1>3. DOMAIN u.sources = 1..Len(u.sources) /\ DOMAIN u.events = 1..Len(u.events)
  BY UploadParts
<1>4. /\ ToSources(RowsOf(d.src, id)) = {u.sources[i] : i \in DOMAIN u.sources}
      /\ ToEvents(RowsOf(d.events, id)) = LastEvents(u, Len(u.events))
  BY <1>3 DEF InsertedAre
<1>5. {[type |-> s.type, content |-> s.content] :
         s \in {s \in d.src : s.uml = id /\ s.type \in SrcTypes}}
        = {s \in ToSources(RowsOf(d.src, id)) : s.type \in SrcTypes}
  BY DEF ToSources, RowsOf
<1>6. {[event |-> e.event, target |-> e.target] : e \in {e \in d.events : e.uml = id}}
        = ToEvents(RowsOf(d.events, id))
  BY DEF ToEvents, RowsOf
<1>7. LastEvents(u, Len(u.events))
        = {u.events[i] : i \in
             {i \in DOMAIN u.events :
                /\ u.events[i].event # NoName
                /\ \A j \in DOMAIN u.events :
                     u.events[j].event = u.events[i].event => j <= i}}
  BY <1>3 DEF LastEvents
<1>8. ContainerOf(d, row) = Catalog!Shown(u)
  BY <1>2, <1>4, <1>5, <1>6, <1>7 DEF ContainerOf, Catalog!Shown
<1> QED  BY <1>2, <1>8

(* The container that is created appears as a whole.                       *)
LEMMA RowAppears ==
  ASSUME NEW d, NEW row \in d.uml, TablesOK(d)
  PROVE  /\ Whole(d) = Containers(d, {row.id}) \cup {ContainerOf(d, row)}
         /\ \A c \in Containers(d, {row.id}) : c.name # row.name
<1>1. Containers(d, {row.id}) = {ContainerOf(d, r) : r \in {r \in d.uml : r.id \notin {row.id}}}
  BY ContainersAre
<1>2. \A r \in d.uml : r.id \notin {row.id} <=> r # row
  BY DEF TablesOK
<1>3. \A r \in d.uml : r # row => ContainerOf(d, r).name # row.name
  BY DEF TablesOK, ContainerOf
<1>4. Whole(d) = {ContainerOf(d, r) : r \in d.uml}
  BY DEF Whole
<1> QED  BY <1>1, <1>2, <1>3, <1>4

LEMMA SerializeUmlImplements ==
  ASSUME Inductive, SerializeUml
  PROVE  [Catalog!Next]_(Catalog!vars)
<1>1. PICK v : v = Writing
  OBVIOUS
<1>2. PICK u : u = v.upload
  OBVIOUS
<1>3. PICK w : w = [v EXCEPT !.at = "unlock"]
  OBVIOUS
<1>4. /\ v.at = "serialize" /\ v.at \in WriterAt /\ Goto("admin", w)
      /\ UNCHANGED <<db, answer>> /\ (disk' = db \/ disk' = disk)
      /\ responses' = [responses EXCEPT ![u] = Append(@, "ok")]
  BY <1>1, <1>2, <1>3 DEF SerializeUml, Step, Writing, WriterAt
<1>5. /\ v \in UploadWork /\ u \in Uploads /\ TablesOK(db) /\ CreationOK(db, v, responses)
      /\ responses \in [Uploads -> Seq(Told)] /\ responses[u] = <<"accepted">>
  BY <1>1, <1>2, <1>4, WriterShape
<1>6. v \in [at : {"serialize"}, upload : Uploads, id : Nat, next : Nat \ {0}]
  BY <1>4, <1>5, UploadShape
<1>7. InsertedAre(db, u, v.id, Len(u.sources), Len(u.events))
  BY <1>2, <1>4, <1>5 DEF CreationOK
<1>8. PICK row \in db.uml : row.id = v.id /\ row.name = u.name /\ ContainerOf(db, row) = Catalog!Shown(u)
  BY <1>5, <1>7, ContainerIsShown
<1>9. Live = Containers(db, {row.id})
  BY <1>1, <1>4, <1>8 DEF Live, Busy
<1>10. ~Busy'
  <2>1. w.at = "unlock"
    BY <1>3, <1>6
  <2> QED  BY <1>4, <2>1, WriterGoes DEF Busy
<1>11. Live' = Whole(db)
  <2>1. (~Busy => Live = Whole(db))'
    BY LiveIdle, PTL
  <2> QED  BY <1>4, <1>10, <2>1
<1>12. Live' = Live \cup {Catalog!Shown(u)} /\ \A c \in Live : c.name # u.name
  BY <1>5, <1>8, <1>9, <1>11, RowAppears
<1>13. Kept' \in {Kept, Live'}
  <2>1. Kept = Whole(disk) /\ Kept' = Whole(disk')
    BY ContainersAre DEF Kept
  <2> QED  BY <1>4, <1>11, <2>1
<1>14. ToldAre[u] = "none" /\ ToldAre' = [ToldAre EXCEPT ![u] = "created"]
  BY <1>4, <1>5, AnswerTold
<1>15. Catalog!Create(u)
  BY <1>4, <1>12, <1>13, <1>14 DEF Catalog!Create, Live, Kept, ToldAre
<1> QED  BY <1>5, <1>15 DEF Catalog!Next
-----------------------------------------------------------------------------
(* What a reader has not returned yet, nobody sees.                        *)
LEMMA ReadingStutters ==
  ASSUME Inductive, Inductive', NEW t \in Threads,
         LockShared(t) \/ SelectRows(t) \/ NextRow(t) \/ ReadSources(t)
           \/ ReadEvents(t) \/ LockAgain(t) \/ ReadInner(t)
  PROVE  [Catalog!Next]_(Catalog!vars)
<1>1. work[t].at \notin WriterAt
  BY DEF LockShared, SelectRows, NextRow, ReadSources, ReadEvents, LockAgain, ReadInner,
         AtRead, WriterAt
<1>2. UNCHANGED <<db, disk, writer, responses, answer>>
  BY DEF LockShared, SelectRows, NextRow, ReadSources, ReadEvents, LockAgain, ReadInner,
         Share, Unshare
<1>3. \E w : Goto(t, w)
  <2>1. CASE LockShared(t) \/ LockAgain(t)
    BY <2>1 DEF LockShared, LockAgain, Step
  <2>2. CASE SelectRows(t)
    BY <2>2 DEF SelectRows
  <2>3. CASE NextRow(t)
    BY <2>3 DEF NextRow
  <2>4. CASE ReadSources(t)
    BY <2>4 DEF ReadSources
  <2>5. CASE ReadEvents(t)
    BY <2>5 DEF ReadEvents
  <2>6. CASE ReadInner(t)
    BY <2>6 DEF ReadInner, Step
  <2> QED  BY <2>1, <2>2, <2>3, <2>4, <2>5, <2>6
<1>4. PICK w : Goto(t, w)
  BY <1>3
<1> QED  BY <1>1, <1>2, <1>4, ReaderStutters

LEMMA AskReadStutters ==
  ASSUME Inductive, Inductive', NEW t \in Threads, NEW op, NEW names, AskRead(t, op, names)
  PROVE  [Catalog!Next]_(Catalog!vars)
<1>1. work[t].at \notin WriterAt /\ UNCHANGED <<db, disk, writer, responses, answer>>
  BY DEF AskRead, Idle, WriterAt
<1>2. PICK w : Goto(t, w)
  BY DEF AskRead
<1> QED  BY <1>1, <1>2, ReaderStutters

(* A copy to the file that is made between two uploads is of the catalog.  *)
LEMMA SaveImplements ==
  ASSUME Inductive, Save
  PROVE  [Catalog!Next]_(Catalog!vars)
<1>1. UNCHANGED <<db, work, answer, responses>> /\ (disk' = db \/ disk' = disk)
  BY DEF Save
<1>2. ~Busy /\ Live' = Live /\ ToldAre' = ToldAre
  <2>1. Writing.at = "idle"
    BY DEF Save, Idle
  <2> QED  BY <1>1, <2>1 DEF Busy, Live, Writing, ToldAre, ToldOf
<1>3. Live = Whole(db) /\ Kept = Whole(disk) /\ Kept' = Whole(disk')
  BY <1>2, LiveIdle, ContainersAre DEF Kept
<1>4. CASE disk' = disk
  BY <1>1, <1>2, <1>3, <1>4, Stutters
<1>5. CASE disk' = db
  <2>1. Catalog!Save
    BY <1>1, <1>2, <1>3, <1>5 DEF Catalog!Save, Live, Kept, ToldAre
  <2> QED  BY <2>1 DEF Catalog!Next
<1> QED  BY <1>1, <1>4, <1>5

(* What is there after the end of the master is what was kept.             *)
LEMMA RestartImplements ==
  ASSUME Inductive, Restart
  PROVE  [Catalog!Next]_(Catalog!vars)
<1>1. /\ db' = disk /\ disk' = disk /\ UNCHANGED responses
      /\ answer' = [t \in Threads |-> <<>>]
  BY DEF Restart
<1>2. ~Busy'
  BY DEF Restart, Idle, Busy, Writing, Threads
<1>3. Live' = Whole(disk)
  <2>1. (~Busy => Live = Whole(db))'
    BY LiveIdle, PTL
  <2> QED  BY <1>1, <1>2, <2>1
<1>4. Kept = Whole(disk) /\ Kept' = Kept
  BY <1>1, ContainersAre DEF Kept
<1>5. ToldAre' = ToldAre
  BY <1>1 DEF ToldAre, ToldOf
<1>6. Catalog!Reopen
  BY <1>1, <1>3, <1>4, <1>5 DEF Catalog!Reopen, Live, Kept, ToldAre
<1> QED  BY <1>6 DEF Catalog!Next

LEMMA InitImplements ==
  ASSUME Init
  PROVE  Catalog!Init
<1>1. Containers(Empty, {}) = {}
  BY DEF Containers, Empty
<1>2. ~Busy
  BY DEF Init, Idle, Busy, Writing, Threads
<1>3. Live = {} /\ Kept = {}
  BY <1>1, <1>2 DEF Init, Live, Kept
<1>4. ToldAre = [u \in Uploads |-> "none"]
  BY SaidOfUploads DEF Init, ToldAre, ToldOf
<1> QED  BY <1>3, <1>4 DEF Init, Catalog!Init, Live, Kept, ToldAre

LEMMA NextImplements ==
  ASSUME Inductive, Inductive', [Next]_vars
  PROVE  [Catalog!Next]_(Catalog!vars)
<1>1. ASSUME NEW u \in Uploads, Train(u) PROVE [Catalog!Next]_(Catalog!vars)
  BY <1>1, TrainImplements
<1>2. ASSUME NEW t \in Threads, NEW op, NEW names, AskRead(t, op, names)
      PROVE  [Catalog!Next]_(Catalog!vars)
  BY <1>2, AskReadStutters
<1>3. CASE Writer
  BY <1>3, LocksStutter, CheckNameImplements, InsertUmlImplements, InsertSourceImplements,
     InsertEventImplements, SerializeUmlImplements DEF Writer
<1>4. ASSUME NEW t \in Threads, Reader(t) PROVE [Catalog!Next]_(Catalog!vars)
  BY <1>4, ReadingStutters, ReturnImplements, ReplyImplements DEF Reader
<1>5. CASE Restart
  BY <1>5, RestartImplements
<1>6. CASE Save
  BY <1>6, SaveImplements
<1>7. CASE UNCHANGED vars
  <2>1. Live' = Live /\ Kept' = Kept /\ ToldAre' = ToldAre /\ UNCHANGED answer
    BY <1>7 DEF vars, Live, Kept, ToldAre, ToldOf, Busy, Writing
  <2> QED  BY <2>1, Stutters
<1> QED  BY <1>1, <1>2, <1>3, <1>4, <1>5, <1>6, <1>7 DEF Next, Ask

(* Containers appear whole or not at all, a name is given once, and every  *)
(* list, composition, search or table is of one state of the catalog,      *)
(* whatever the other thread does and whenever the master ends: for any    *)
(* uploads and projects (create_uml_container, list_uml_blocks,            *)
(* compose_uml_project, search_uml_nearest).                               *)
THEOREM StoreIsUmlCatalog == Spec => IsUmlCatalog
BY InitImplements, NextImplements, SpecInductive, PTL DEF Spec, IsUmlCatalog, Catalog!Spec
==============================================================================
