------------------------------ MODULE UmlStore ------------------------------
(***************************************************************************)
(* The UML containers of the document store (src/src/store.cpp): tables    *)
(* uml, uml_src and uml_events, written by the master's admin thread and   *)
(* read by it and by the client thread, statement by statement.  A         *)
(* std::shared_mutex keeps them apart; two of the readers lock it a second *)
(* time while they hold it.  POST /train_uml and the page that waits for   *)
(* it (src/static/admin/admin_uml.js) are at the end.                      *)
(*                                                                         *)
(* Names, schemas and contents are values that can be told apart.  How     *)
(* near a container is to a query (the network's embedding) is left open.  *)
(***************************************************************************)
EXTENDS Naturals, Sequences, FiniteSets, SequencesExt

CONSTANTS
  Uploads,     \* [name, schema, sources: Seq([type, content]), events: Seq([event, target])]
  Projects,    \* sequences of names given to /compose and /build_project
  NoName,      \* the empty event name
  DiskFaults   \* whether serialize() may fail to write

Threads  == {"admin", "client"}
SrcTypes == {1, 2}     \* initialize_db: 'C++' and 'Python'

ASSUME UmlConstants ==
  /\ \A u \in Uploads :
       /\ DOMAIN u = {"name", "schema", "sources", "events"}
       /\ u.sources \in Seq({[type |-> s.type, content |-> s.content] : s \in ToSet(u.sources)})
       /\ u.events \in Seq({[event |-> e.event, target |-> e.target] : e \in ToSet(u.events)})
  /\ \A names \in Projects : names \in Seq(ToSet(names))
  /\ DiskFaults \in BOOLEAN

VARIABLES
  db,          \* in memory: uml [id, name, schema], src [uml, type, content],
               \* events [uml, event, target]
  disk,        \* the same tables in the file
  writer,      \* whether somebody holds the lock exclusively
  readers,     \* per thread: how often it holds the lock shared
  work,        \* per thread: where it is and with what
  answer,      \* per thread: what its last read returned
  responses    \* per upload: the HTTP responses written to its connection

vars == <<db, disk, writer, readers, work, answer, responses>>

Empty == [uml |-> {}, src |-> {}, events |-> {}]

Idle == [at |-> "idle"]

Names(d) == {row.name : row \in d.uml}
RowIds(d) == {row.id : row \in d.uml}

(* Moves of one thread.                                                    *)
Goto(t, w) == work' = [work EXCEPT ![t] = w]
Step(t, at) == Goto(t, [work[t] EXCEPT !.at = at])
-----------------------------------------------------------------------------
(* std::shared_mutex on glibc: a reader is let in whenever nobody writes,  *)
(* also when a writer waits.  Mutant: a waiting writer goes first.         *)
MayReadBehindWriter(t) == ~writer /\ work["admin"].at # "exclusive"

MayRead(t) == ~writer

Share(t)   == MayRead(t) /\ readers' = [readers EXCEPT ![t] = @ + 1] /\ UNCHANGED writer
Unshare(t) == readers' = [readers EXCEPT ![t] = @ - 1] /\ UNCHANGED writer
-----------------------------------------------------------------------------
(* create_uml_container: the admin thread only.                            *)
Writing == work["admin"]

(* TRAIN_UML arrives.  The handler has answered "accepted" before.         *)
Train(u) ==
  /\ Writing = Idle /\ responses[u] = <<>>
  /\ responses' = [responses EXCEPT ![u] = <<"accepted">>]
  /\ Goto("admin", [at |-> "exclusive", upload |-> u])
  /\ UNCHANGED <<db, disk, writer, readers, answer>>

(* Mutant of LockExclusive: the writer does not wait for the readers.      *)
LockExclusiveAtOnce ==
  /\ Writing.at = "exclusive"
  /\ writer' = TRUE
  /\ Step("admin", "check")
  /\ UNCHANGED <<db, disk, readers, answer, responses>>

LockExclusive ==
  /\ Writing.at = "exclusive"
  /\ \A t \in Threads : readers[t] = 0
  /\ writer' = TRUE
  /\ Step("admin", "check")
  /\ UNCHANGED <<db, disk, readers, answer, responses>>

(* SELECT id FROM uml WHERE name=?; a known name is answered with 2.       *)
CheckName ==
  /\ Writing.at = "check"
  /\ LET u == Writing.upload
     IN IF u.name \in Names(db)
        THEN /\ responses' = [responses EXCEPT ![u] = Append(@, "duplicate")]
             /\ Step("admin", "unlock")
        ELSE Step("admin", "insert") /\ UNCHANGED responses
  /\ UNCHANGED <<db, disk, writer, readers, answer>>

(* INSERT INTO uml; its id is sqlite3_last_insert_rowid.  AUTOINCREMENT,   *)
(* and rows are never deleted.                                             *)
InsertUml ==
  /\ Writing.at = "insert"
  /\ LET u  == Writing.upload
         id == Cardinality(db.uml) + 1
     IN /\ db' = [db EXCEPT !.uml = @ \cup {[id |-> id, name |-> u.name, schema |-> u.schema]}]
        /\ Goto("admin", [at |-> "addsources", upload |-> u, id |-> id, next |-> 1])
  /\ UNCHANGED <<disk, writer, readers, answer, responses>>

(* One INSERT INTO uml_src; a copy of a source violates UNIQUE, is logged  *)
(* and skipped.                                                            *)
InsertSource ==
  /\ Writing.at = "addsources"
  /\ LET s == Writing.upload.sources
         i == Writing.next
     IN IF i > Len(s)
        THEN Goto("admin", [Writing EXCEPT !.at = "addevents", !.next = 1]) /\ UNCHANGED db
        ELSE /\ db' = [db EXCEPT !.src = @ \cup
                         {[uml |-> Writing.id, type |-> s[i].type, content |-> s[i].content]}]
             /\ Goto("admin", [Writing EXCEPT !.next = i + 1])
  /\ UNCHANGED <<disk, writer, readers, answer, responses>>

(* Mutant of Replaced: one row per event name.                             *)
ReplacedByName(events, row) == {e \in events : e.event # row.event} \cup {row}

(* INSERT OR REPLACE with UNIQUE(uml_id, event_name).                      *)
Replaced(events, row) ==
  {e \in events : e.uml # row.uml \/ e.event # row.event} \cup {row}

(* add_uml_events, one event; nameless ones are skipped.                   *)
InsertEvent ==
  /\ Writing.at = "addevents"
  /\ LET s == Writing.upload.events
         i == Writing.next
     IN IF i > Len(s)
        THEN Step("admin", "serialize") /\ UNCHANGED db
        ELSE /\ db' = [db EXCEPT !.events =
                         IF s[i].event = NoName THEN @
                         ELSE Replaced(@, [uml |-> Writing.id, event |-> s[i].event,
                                           target |-> s[i].target])]
             /\ Goto("admin", [Writing EXCEPT !.next = i + 1])
  /\ UNCHANGED <<disk, writer, readers, answer, responses>>

(* serialize() copies the database in one transaction; what goes wrong is  *)
(* only logged, and 1 is returned.                                         *)
SerializeUml ==
  /\ Writing.at = "serialize"
  /\ disk' \in IF DiskFaults THEN {db, disk} ELSE {db}
  /\ responses' = [responses EXCEPT ![Writing.upload] = Append(@, "ok")]
  /\ Step("admin", "unlock")
  /\ UNCHANGED <<db, writer, readers, answer>>

UnlockExclusive ==
  /\ Writing.at = "unlock"
  /\ writer' = FALSE
  /\ Goto("admin", Idle)
  /\ UNCHANGED <<db, disk, readers, answer, responses>>

(* POST /serialize, and an upload of a document that is saved: the whole   *)
(* database is copied again, by the thread that writes it.                 *)
Save ==
  /\ Writing = Idle
  /\ disk' \in IF DiskFaults THEN {db, disk} ELSE {db}
  /\ UNCHANGED <<db, writer, readers, work, answer, responses>>

Writer == \/ LockExclusive \/ CheckName \/ InsertUml \/ InsertSource
          \/ InsertEvent \/ SerializeUml \/ UnlockExclusive
-----------------------------------------------------------------------------
(* The readers.  A reader goes through a list of rows, or of names, and    *)
(* collects blocks.                                                        *)

(* Which thread is asked for what.  The admin server sends no COMPOSE.     *)
Reads(t) == IF t = "admin" THEN {"list", "table"} ELSE {"list", "compose", "search"}

AskRead(t, op, names) ==
  /\ work[t] = Idle /\ op \in Reads(t)
  /\ Goto(t, [at |-> "shared", op |-> op, todo |-> names, blocks |-> <<>>])
  /\ UNCHANGED <<db, disk, writer, readers, answer, responses>>

AtRead(t, at) == work[t].at = at

LockShared(t) ==
  /\ AtRead(t, "shared") /\ Share(t)
  /\ Step(t, IF work[t].op = "compose" THEN "row"
             ELSE IF work[t].op = "table" THEN "again" ELSE "select")
  /\ UNCHANGED <<db, disk, answer, responses>>

(* SELECT ... FROM uml: all rows; none for a search when vocabulary and    *)
(* network do not fit, which is answered with an error.                    *)
SelectRows(t) ==
  /\ AtRead(t, "select")
  /\ \E rows \in {Names(db)} \cup (IF work[t].op = "search" THEN {{}} ELSE {}) :
       Goto(t, [work[t] EXCEPT !.at = "row", !.todo = SetToSeq(rows)])
  /\ UNCHANGED <<db, disk, writer, readers, answer, responses>>

(* The next row.  A name that is not found is passed over, and so are a    *)
(* container below the threshold of a search and a row that is outside the *)
(* filter, offset and limit of the table page.                             *)
NextRow(t) ==
  /\ AtRead(t, "row") /\ work[t].todo # <<>>
  /\ LET rest == [work[t] EXCEPT !.todo = Tail(@)]
         rows == {row \in db.uml : row.name = Head(work[t].todo)}
     IN \/ /\ rows = {} \/ work[t].op \in {"search", "table"}
           /\ Goto(t, rest)
        \/ \E row \in rows :
             Goto(t, CASE work[t].op = "table" ->
                            [rest EXCEPT !.blocks = Append(@, [name |-> row.name, schema |-> row.schema])]
                       [] work[t].op = "search" -> [work[t] EXCEPT !.at = "again"]
                       [] OTHER -> [at |-> "sources", op |-> work[t].op, todo |-> rest.todo,
                                    blocks |-> work[t].blocks, row |-> row])
  /\ UNCHANGED <<db, disk, writer, readers, answer, responses>>

(* uml_src JOIN src_type: sources whose type has no row are not found.     *)
SourcesOf(id) ==
  {[type |-> s.type, content |-> s.content] :
     s \in {s \in db.src : s.uml = id /\ s.type \in SrcTypes}}

(* get_uml_events.                                                         *)
EventsOf(id) ==
  {[event |-> e.event, target |-> e.target] : e \in {e \in db.events : e.uml = id}}

ReadSources(t) ==
  /\ AtRead(t, "sources")
  /\ LET row == work[t].row
     IN Goto(t, [work[t] EXCEPT !.at = "readevents", !.blocks = Append(@,
                   [name |-> row.name, schema |-> row.schema, sources |-> SourcesOf(row.id)])])
  /\ UNCHANGED <<db, disk, writer, readers, answer, responses>>

ReadEvents(t) ==
  /\ AtRead(t, "readevents")
  /\ LET i == Len(work[t].blocks)
     IN Goto(t, [at |-> "row", op |-> work[t].op, todo |-> work[t].todo,
                 blocks |-> [work[t].blocks EXCEPT ![i] =
                   [name |-> @.name, schema |-> @.schema, sources |-> @.sources,
                    events |-> EventsOf(work[t].row.id)]]])
  /\ UNCHANGED <<db, disk, writer, readers, answer, responses>>

(* get_uml_container within search_uml_nearest, list_tables within         *)
(* get_table_data: the lock is taken a second time.                        *)
LockAgain(t) ==
  /\ AtRead(t, "again") /\ Share(t)
  /\ Step(t, "inner")
  /\ UNCHANGED <<db, disk, answer, responses>>

ReadInner(t) ==
  /\ AtRead(t, "inner") /\ Unshare(t)
  /\ IF work[t].op = "table" THEN Step(t, "select")
     ELSE LET name == Head(work[t].todo)
              row  == CHOOSE row \in db.uml : row.name = name
          IN Goto(t, [work[t] EXCEPT !.at = "row", !.todo = Tail(@),
                        !.blocks = Append(@, [name |-> name, sources |-> SourcesOf(row.id)])])
  /\ UNCHANGED <<db, disk, answer, responses>>

Return(t) ==
  /\ AtRead(t, "row") /\ work[t].todo = <<>>
  /\ Unshare(t)
  /\ answer' = [answer EXCEPT ![t] = work[t].blocks]
  /\ Goto(t, [at |-> "reply"])
  /\ UNCHANGED <<db, disk, responses>>

(* The answer is sent to the other process.                                *)
Reply(t) ==
  /\ AtRead(t, "reply")
  /\ answer' = [answer EXCEPT ![t] = <<>>]
  /\ Goto(t, Idle)
  /\ UNCHANGED <<db, disk, writer, readers, responses>>

Reader(t) == \/ LockShared(t) \/ SelectRows(t) \/ NextRow(t) \/ ReadSources(t)
             \/ ReadEvents(t) \/ LockAgain(t) \/ ReadInner(t) \/ Return(t) \/ Reply(t)
-----------------------------------------------------------------------------
(* The master ends, at any statement, and starts from the file.            *)
Restart ==
  /\ db' = disk
  /\ writer' = FALSE /\ readers' = [t \in Threads |-> 0]
  /\ work' = [t \in Threads |-> Idle]
  /\ answer' = [t \in Threads |-> <<>>]
  /\ UNCHANGED <<disk, responses>>

Init ==
  /\ db = Empty /\ disk = Empty
  /\ writer = FALSE /\ readers = [t \in Threads |-> 0]
  /\ work = [t \in Threads |-> Idle]
  /\ answer = [t \in Threads |-> <<>>]
  /\ responses = [u \in Uploads |-> <<>>]

Ask == \/ \E u \in Uploads : Train(u)
       \/ \E t \in Threads : \/ \E op \in {"list", "table", "search"} : AskRead(t, op, <<>>)
                             \/ \E names \in Projects : AskRead(t, "compose", names)

Next == Ask \/ Writer \/ Save \/ (\E t \in Threads : Reader(t)) \/ Restart

(* Threads run.  The writer gets the lock if it is free again and again:   *)
(* the last reader that leaves wakes it (glibc's rwlock).                  *)
Fairness ==
  /\ WF_vars(Writer) /\ SF_vars(LockExclusive)
  /\ \A t \in Threads : WF_vars(Reader(t))

Spec == Init /\ [][Next]_vars
FairSpec == Spec /\ Fairness
-----------------------------------------------------------------------------
(* The catalog: a container is there when create_uml_container returns.    *)
Busy == Writing.at \in {"addsources", "addevents", "serialize"}

Containers(d, hidden) ==
  {[name |-> row.name, schema |-> row.schema,
    sources |-> {[type |-> s.type, content |-> s.content] :
                   s \in {s \in d.src : s.uml = row.id /\ s.type \in SrcTypes}},
    events |-> {[event |-> e.event, target |-> e.target] :
                  e \in {e \in d.events : e.uml = row.id}}] :
     row \in {row \in d.uml : row.id \notin hidden}}

ToldOf(u) == IF Len(responses[u]) < 2 THEN "none"
             ELSE IF responses[u][2] = "ok" THEN "created" ELSE "exists"

Catalog == INSTANCE UmlCatalog
             WITH live <- Containers(db, IF Busy THEN {Writing.id} ELSE {}),
                  kept <- Containers(disk, {}),
                  told <- [u \in Uploads |-> ToldOf(u)]

(* Containers appear whole or not at all, in memory and in the file; what  *)
(* a list, a composition or a search returns was the catalog at one time,  *)
(* whatever the other thread did meanwhile (create_uml_container,          *)
(* src/src/store.cpp:522; list_uml_blocks; compose_uml_project).           *)
IsUmlCatalog == Catalog!Spec

(* No operation waits for ever: not for the other thread, and not for a    *)
(* lock its own thread holds (search_uml_nearest, src/src/store.cpp:727;   *)
(* get_table_data, src/src/store.cpp:872).                                 *)
OperationsEnd == \A t \in Threads : work[t] # Idle ~> work[t] = Idle

-----------------------------------------------------------------------------
(* trainBlock of admin_uml.js: fetch resolves with the first response.     *)
PageShows(u) ==
  IF responses[u] = <<>> THEN "nothing"
  ELSE CASE Head(responses[u]) = "duplicate" -> "skip"
         [] Head(responses[u]) = "ok" -> "ok"
         [] OTHER -> "err"

(* admin_uml.js:147: "return data.status === 'ok' ? 'ok' : 'err'": a       *)
(* container that was created is shown as trained.                         *)
CreatedIsShown ==
  \A u \in Uploads : ToldOf(u) = "created" => PageShows(u) = "ok"

(* Type invariant.                                                         *)
UmlTypeOK ==
  /\ \A d \in {db, disk} :
       /\ RowIds(d) = 1..Cardinality(d.uml)
       /\ \A s \in d.src : s.uml \in RowIds(d)
       /\ \A e \in d.events : e.uml \in RowIds(d)
  /\ writer \in BOOLEAN /\ readers \in [Threads -> 0..2]
  /\ writer => \A t \in Threads : readers[t] = 0
=============================================================================
