-------------------------------- MODULE Wire --------------------------------
(***************************************************************************)
(* How a job becomes bytes and a job again: packed by the handler thread   *)
(* (src/src/admin.cpp), repacked by the admin worker's loop                *)
(* (src/src/worker_admin.cpp), unpacked by the master's admin thread       *)
(* (src/src/worker_master.cpp).  Texts are sequences of bytes; 0 is the    *)
(* NUL the formats use as a delimiter.                                     *)
(***************************************************************************)
EXTENDS Naturals, Sequences, SequencesExt

CONSTANT Base      \* the number of values of a byte: 256 in the code

NoJob == [kind |-> "none"]

(* The jobs a handler thread can make: bytes of any length, numbers of 32  *)
(* bits for the page of a table, of 8 bits for the type of a source.       *)
Byte  == 0..Base - 1
Bytes == Seq(Byte)
Word  == 0..Base * (Base * (Base * Base)) - 1

SourceShape == [type : Byte, text : Bytes]
EventShape  == [event : Bytes, target : Bytes, type : Byte, source : Bytes]

JobShape ==
  [kind : {"train"}, flag : {0, 1}, tags : Bytes, text : Bytes]
    \cup [kind : {"list"}]
    \cup [kind : {"table"}, table : Bytes, filter : Bytes, offset : Word, limit : Word]
    \cup [kind : {"uml"}, name : Bytes, schema : Bytes,
          sources : Seq(SourceShape), events : Seq(EventShape)]

(* htonl and htons: high byte first; what does not fit is cut.             *)
Net4(n) == << (n \div (Base * Base * Base)) % Base, (n \div (Base * Base)) % Base,
              (n \div Base) % Base, n % Base >>
Net2(n) == << (n \div Base) % Base, n % Base >>

Value4(p, at) == p[at + 4] + Base * (p[at + 3] + Base * (p[at + 2] + Base * p[at + 1]))
Value2(p, at) == p[at + 2] + Base * p[at + 1]

(* The text after position at, up to the next NUL or the end.              *)
NextNul(p, at) ==
  Min({i \in at + 1..Len(p) : p[i] = 0} \cup {Len(p) + 1})
Text(p, at)    == SubSeq(p, at + 1, NextNul(p, at) - 1)
PastNul(p, at) == Min({NextNul(p, at), Len(p)})

(* Mutant of PackTrain: the length of the tags is one too high.            *)
PackTrainOffByOne(j) == <<j.flag>> \o Net2(Len(j.tags) + 1) \o j.tags \o j.text

-----------------------------------------------------------------------------
(* POST /: flag, two bytes for the length of the tags, tags, text.         *)
PackTrain(j) == <<j.flag>> \o Net2(Len(j.tags)) \o j.tags \o j.text

(* Mutant of RepackTrain: the delimiter is forgotten.                      *)
RepackTrainBare(d) ==
  IF Len(d) < 3 THEN d
  ELSE <<d[1]>> \o SubSeq(d, 4, Len(d))

(* The worker's branch for less data than the length says is left out:     *)
(* PackTrain cuts the length, it never writes more than there is.          *)
RepackTrain(d) ==
  IF Len(d) < 3 THEN d
  ELSE LET n == Value2(d, 1)
       IN <<d[1]>> \o SubSeq(d, 4, 3 + n) \o <<0>> \o SubSeq(d, 4 + n, Len(d))

UnpackTrain(p) ==
  IF p = <<>> \/ NextNul(p, 1) > Len(p) THEN NoJob
  ELSE [kind |-> "train", flag |-> Min({p[1], 1}), tags |-> Text(p, 1),
        text |-> SubSeq(p, NextNul(p, 1) + 1, Len(p))]

-----------------------------------------------------------------------------
(* POST /get_table: name NUL filter NUL offset limit.                      *)
PackTable(j) ==
  j.table \o <<0>> \o j.filter \o <<0>> \o Net4(j.offset) \o Net4(j.limit)

UnpackTable(p) ==
  LET one == PastNul(p, 0)
      two == PastNul(p, one)
      paged == two + 8 <= Len(p)
  IN [kind |-> "table", table |-> Text(p, 0), filter |-> Text(p, one),
      offset |-> IF paged THEN Value4(p, two) ELSE 0,
      limit  |-> IF paged THEN Value4(p, two + 4) ELSE 100]

RepackTable(d) == PackTable(UnpackTable(d))

-----------------------------------------------------------------------------
(* POST /train_uml: name and schema with their lengths, then counted lists *)
(* of sources and of events.  Type 0 becomes 1 on both sides.              *)
Field(t)  == Net4(Len(t)) \o t
TypeOf(n) == IF n = 0 THEN 1 ELSE n

PackUml(j) ==
  Field(j.name) \o Field(j.schema)
    \o Net2(Len(j.sources))
    \o FlattenSeq([i \in DOMAIN j.sources |->
         <<TypeOf(j.sources[i].type)>> \o Field(j.sources[i].text)])
    \o Net2(Len(j.events))
    \o FlattenSeq([i \in DOMAIN j.events |->
         Field(j.events[i].event) \o Field(j.events[i].target)
           \o <<j.events[i].type>> \o Field(j.events[i].source)])

(* Reading goes on while ok; at is the position reached.                   *)
Skip(r, n) == [r EXCEPT !.at = @ + n]

ReadField(p, r) ==      \* a length and as many bytes, or the end of reading
  IF r.ok /\ r.at + 4 <= Len(p) /\ r.at + 4 + Value4(p, r.at) <= Len(p)
  THEN [Skip(r, 4 + Value4(p, r.at)) EXCEPT
         !.text = SubSeq(p, r.at + 5, r.at + 4 + Value4(p, r.at))]
  ELSE [r EXCEPT !.ok = FALSE]

ReadByte(p, r) ==
  IF r.ok /\ r.at < Len(p) THEN [Skip(r, 1) EXCEPT !.byte = p[r.at + 1]]
                           ELSE [r EXCEPT !.ok = FALSE]

ReadSource(p, r) ==
  LET type == ReadByte(p, r)
      text == ReadField(p, type)
  IN IF text.ok
     THEN [text EXCEPT !.list = Append(@, [type |-> TypeOf(type.byte), text |-> text.text])]
     ELSE text

ReadEvent(p, r) ==
  LET event  == ReadField(p, r)
      target == ReadField(p, event)
      type   == ReadByte(p, target)
      source == ReadField(p, type)
  IN IF source.ok
     THEN [source EXCEPT !.list = Append(@, [event |-> event.text,
             target |-> target.text, type |-> type.byte, source |-> source.text])]
     ELSE source

(* The two bytes of a count, then as many items of one kind.               *)
ReadList(Item(_, _), p, r) ==
  LET from == [Skip(r, 2) EXCEPT !.list = <<>>]
  IN IF r.ok /\ r.at + 2 <= Len(p)
     THEN FoldLeft(LAMBDA acc, i : Item(p, acc), from, [i \in 1..Value2(p, r.at) |-> i])
     ELSE [r EXCEPT !.ok = FALSE, !.list = <<>>]

UnpackUml(p) ==
  LET start   == [at |-> 0, ok |-> Len(p) >= 8, text |-> <<>>, byte |-> 0, list |-> <<>>]
      name    == ReadField(p, start)
      schema  == ReadField(p, name)
      sources == ReadList(ReadSource, p, schema)
      events  == ReadList(ReadEvent, p, sources)   \* a bad event ends the list only
  IN IF ~sources.ok THEN NoJob
     ELSE [kind |-> "uml", name |-> name.text, schema |-> schema.text,
           sources |-> sources.list, events |-> events.list]

-----------------------------------------------------------------------------
(* What the worker sends for a job, and what the master makes of it.       *)
Payload(j) == CASE j.kind = "train" -> RepackTrain(PackTrain(j))
                [] j.kind = "table" -> RepackTable(PackTable(j))
                [] j.kind = "uml"   -> PackUml(j)
                [] j.kind = "list"  -> <<>>

Unpacked(kind, p) == CASE kind = "train" -> UnpackTrain(p)
                       [] kind = "table" -> UnpackTable(p)
                       [] kind = "uml"   -> UnpackUml(p)
                       [] kind = "list"  -> [kind |-> "list"]
=============================================================================
