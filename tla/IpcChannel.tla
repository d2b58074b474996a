----------------------------- MODULE IpcChannel -----------------------------
(***************************************************************************)
(* One direction of a socket pair between two of the processes: the        *)
(* IpcSocket of src/src/ipc.cpp at both ends and the kernel's bounded      *)
(* buffer between them.  A message is framed by its command, four length   *)
(* bytes with the lowest first, and the payload; write and read move any   *)
(* number of bytes the buffer allows and are repeated until all are moved. *)
(***************************************************************************)
EXTENDS Naturals, Sequences

CONSTANTS
  Messages,   \* what may be sent: [cmd, payload], payload a sequence of bytes
  Base,       \* the number of values of a byte: 256 in the code
  Capacity    \* bytes the kernel holds between the two ends

VARIABLES
  sent,       \* the messages given to send
  stream,     \* the bytes given to write_all
  written,    \* how many of them the kernel has accepted
  taken,      \* how many of them have been read out again
  buffer,     \* what recv has read of the message it is reading
  received,   \* the messages recv has returned
  open        \* the ends still open: "writer", "reader"

vars == <<sent, stream, written, taken, buffer, received, open>>

HeaderSize == 5

(* A payload is shorter than 2^32 bytes: bodies are bounded by the int of   *)
(* Content-Length (src/include/http.hpp), answers are built in memory.     *)
Fits(m) == Len(m.payload) < Base * (Base * (Base * Base))

(* Mutant of LengthBytes: only the low 16 bits of the length are sent.     *)
LengthBytesShort(n) == << n % Base, (n \div Base) % Base, 0, 0 >>

(* What users of a channel assume of its constants.                        *)
ChannelConstants ==
  /\ Base \in Nat /\ Base >= 2
  /\ Capacity \in Nat \ {0}
  /\ \A m \in Messages :
       m \in [cmd : Nat, payload : Seq(0..Base - 1)] /\ Fits(m)

(* push_back of len, len >> 8, len >> 16, len >> 24, each cut to a byte.   *)
LengthBytes(n) ==
  << n % Base,
     (n \div Base) % Base,
     ((n \div Base) \div Base) % Base,
     (((n \div Base) \div Base) \div Base) % Base >>

Frame(m) == <<m.cmd>> \o LengthBytes(Len(m.payload)) \o m.payload

(* The length recv reads back from the header.                             *)
PayloadLength(h) == h[2] + Base * (h[3] + Base * (h[4] + Base * h[5]))

Complete(b) == Len(b) >= HeaderSize /\ Len(b) = HeaderSize + PayloadLength(b)

(* What read_all still wants: the rest of the header, then of the payload. *)
Wanted == IF Len(buffer) < HeaderSize
          THEN HeaderSize - Len(buffer)
          ELSE HeaderSize + PayloadLength(buffer) - Len(buffer)

Flushed == written = Len(stream)    \* write_all has returned

-----------------------------------------------------------------------------
(* send: pack_message, then write_all has the frame to write.              *)
Send(m) ==
  /\ "writer" \in open /\ Flushed
  /\ sent' = Append(sent, m)
  /\ stream' = stream \o Frame(m)
  /\ UNCHANGED <<written, taken, buffer, received, open>>

(* One write(2) of write_all: k bytes fit.                                 *)
Write(k) ==
  /\ open = {"writer", "reader"}
  /\ k <= Len(stream) - written
  /\ k <= Capacity - (written - taken)
  /\ written' = written + k
  /\ UNCHANGED <<sent, stream, taken, buffer, received, open>>

(* One read(2) of read_all: k bytes are there and wanted.  With the last   *)
(* one recv returns the message.                                           *)
Read(k) ==
  /\ "reader" \in open
  /\ k <= written - taken
  /\ k <= Wanted
  /\ taken' = taken + k
  /\ LET now == buffer \o SubSeq(stream, taken + 1, taken + k)
     IN IF Complete(now)
        THEN /\ received' = Append(received, [cmd |-> now[1],
                              payload |-> SubSeq(now, HeaderSize + 1, Len(now))])
             /\ buffer' = <<>>
        ELSE buffer' = now /\ UNCHANGED received
  /\ UNCHANGED <<sent, stream, written, open>>

(* A process ends and its descriptor with it, in the middle of a frame or  *)
(* not.  Bytes the kernel has accepted can still be read.                  *)
Die(end) ==
  /\ end \in open
  /\ open' = open \ {end}
  /\ UNCHANGED <<sent, stream, written, taken, buffer, received>>

(* read_all gets 0 bytes: recv throws and nothing is read any more.        *)
EndOfStream ==
  /\ "reader" \in open /\ "writer" \notin open
  /\ taken = written
  /\ Die("reader")

(* write(2) finds nobody at the other end.                                 *)
BrokenPipe ==
  /\ "writer" \in open /\ "reader" \notin open
  /\ ~Flushed
  /\ Die("writer")

Init ==
  /\ sent = <<>> /\ stream = <<>> /\ written = 0 /\ taken = 0
  /\ buffer = <<>> /\ received = <<>>
  /\ open = {"writer", "reader"}

Bytes == 1..Capacity    \* how many one call moves: 0 is an error, see above

Next ==
  \/ \E m \in Messages : Send(m)
  \/ \E k \in Bytes : Write(k) \/ Read(k)
  \/ \E end \in {"writer", "reader"} : Die(end)
  \/ EndOfStream \/ BrokenPipe

Spec == Init /\ [][Next]_vars

-----------------------------------------------------------------------------
Fifo == INSTANCE MessageFifo

(* The bytes keep the promise of a queue of messages: whole, once, in      *)
(* order, and none that was cut short by the end of its sender             *)
(* (IpcSocket::send and recv, src/src/ipc.cpp:27).                         *)
IsFifo == Fifo!Spec

-----------------------------------------------------------------------------
ChannelTypeOK ==
  /\ sent \in Seq(Messages)
  /\ stream \in Seq(Nat)
  /\ written \in 0..Len(stream) /\ taken \in 0..written
  /\ buffer \in Seq(Nat)
  /\ received \in Seq(Messages)
  /\ open \subseteq {"writer", "reader"}
=============================================================================
