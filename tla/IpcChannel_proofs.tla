------------------------- MODULE IpcChannel_proofs -------------------------
(***************************************************************************)
(* A byte stream with bounded buffer, partial reads and writes and a       *)
(* header in base Base is a queue of messages: proved for every set of     *)
(* messages that fit, every Base and every Capacity.                       *)
(***************************************************************************)
EXTENDS IpcChannel, SequenceTheorems, TLAPS

(* The frame of each message lies in the stream where the one before it    *)
(* ends: at[i] bytes precede the frame of the i-th message.                *)
Placed(at) ==
  /\ at[1] = 0
  /\ at[Len(sent) + 1] = Len(stream)
  /\ \A i \in 1..Len(sent) :
       /\ at[i + 1] = at[i] + Len(Frame(sent[i]))
       /\ at[i + 1] <= Len(stream)
       /\ \A j \in 1..Len(Frame(sent[i])) : stream[at[i] + j] = Frame(sent[i])[j]

(* What recv has returned is what was sent, and what it holds is the       *)
(* beginning of the next frame.                                            *)
Reading(at) ==
  /\ Len(received) <= Len(sent)
  /\ \A i \in 1..Len(received) : received[i] = sent[i]
  /\ taken = at[Len(received) + 1] + Len(buffer)
  /\ Len(received) < Len(sent) => Len(buffer) < Len(Frame(sent[Len(received) + 1]))
  /\ \A j \in 1..Len(buffer) : buffer[j] = stream[at[Len(received) + 1] + j]

Framed == \E at \in [1..Len(sent) + 1 -> Nat] : Placed(at) /\ Reading(at)

ChannelInv == ChannelTypeOK /\ Framed

-----------------------------------------------------------------------------
(* Dividing three times loses nothing of a number below Base^4.            *)
LEMMA Digits ==
  ASSUME NEW b \in Nat, b >= 2, NEW n \in Nat
  PROVE  /\ n % b \in 0..b - 1 /\ n \div b \in Nat
         /\ n = (n % b) + b * (n \div b)
  OBVIOUS

LEMMA Below ==
  ASSUME NEW b \in Nat, b >= 2, NEW n \in Nat, NEW c \in Nat, n < b * c
  PROVE  n \div b < c
  <1> DEFINE q == n \div b
  <1>1. /\ q \in Nat /\ n >= b * q
    BY Digits
  <1>2. SUFFICES ASSUME q >= c PROVE FALSE
    BY <1>1
  <1>3. b * q >= b * c
    BY <1>1, <1>2
  <1>. QED  BY <1>1, <1>3

(* The length read back from the header is the length that was packed.     *)
LEMMA LengthRoundTrip ==
  ASSUME Base \in Nat, Base >= 2, NEW n \in Nat,
         n < Base * (Base * (Base * Base))
  PROVE  LET b == LengthBytes(n)
         IN b[1] + Base * (b[2] + Base * (b[3] + Base * b[4])) = n
  <1> DEFINE q1 == n \div Base
             q2 == q1 \div Base
             q3 == q2 \div Base
  <1>1. /\ q1 \in Nat /\ n = (n % Base) + Base * q1 /\ q1 < Base * (Base * Base)
    <2>1. Base * (Base * Base) \in Nat
      OBVIOUS
    <2>. QED  BY <2>1, Digits, Below
  <1>2. /\ q2 \in Nat /\ q1 = (q1 % Base) + Base * q2 /\ q2 < Base * Base
    <2> HIDE DEF q1
    <2>1. Base * Base \in Nat
      OBVIOUS
    <2>. QED  BY <1>1, <2>1, Digits, Below
  <1>3. /\ q3 \in Nat /\ q2 = (q2 % Base) + Base * q3 /\ q3 < Base
    <2> HIDE DEF q2
    <2>. QED  BY <1>2, Digits, Below
  <1>4. q3 % Base = q3
    BY <1>3
  <1>5. LengthBytes(n) = << n % Base, q1 % Base, q2 % Base, q3 >>
    BY <1>4 DEF LengthBytes
  <1> HIDE DEF q1, q2, q3
  <1>. QED  BY <1>1, <1>2, <1>3, <1>5

-----------------------------------------------------------------------------
(* Where the elements of a concatenation come from.                        *)
LEMMA Concat ==
  ASSUME NEW S, NEW s \in Seq(S), NEW t \in Seq(S)
  PROVE  /\ s \o t \in Seq(S)
         /\ Len(s) \in Nat /\ Len(t) \in Nat
         /\ Len(s \o t) = Len(s) + Len(t)
         /\ \A i \in 1..Len(s) : (s \o t)[i] = s[i]
         /\ \A i \in 1..Len(t) : (s \o t)[Len(s) + i] = t[i]
  BY ConcatProperties

(* A place inside a piece is a place inside the whole.                     *)
LEMMA Inside ==
  ASSUME NEW a \in Nat, NEW g \in Nat, NEW s \in Nat, a + g <= s, NEW j \in 1..g
  PROVE  a + j \in 1..s
  OBVIOUS

LEMMA LengthBytesType ==
  ASSUME Base \in Nat, Base >= 2, NEW n \in Nat
  PROVE  LengthBytes(n) \in Seq(Nat) /\ Len(LengthBytes(n)) = 4
  BY DEF LengthBytes

(* What stands where in a frame.                                           *)
LEMMA FrameFacts ==
  ASSUME ChannelConstants, NEW m \in Messages
  PROVE  /\ m.cmd \in Nat /\ m.payload \in Seq(Nat) /\ Len(m.payload) \in Nat
         /\ Frame(m) \in Seq(Nat)
         /\ Len(Frame(m)) = 5 + Len(m.payload)
         /\ Frame(m)[1] = m.cmd
         /\ \A i \in 1..4 : Frame(m)[1 + i] = LengthBytes(Len(m.payload))[i]
         /\ \A i \in 1..Len(m.payload) : Frame(m)[5 + i] = m.payload[i]
         /\ PayloadLength(Frame(m)) = Len(m.payload)
  <1> DEFINE l == LengthBytes(Len(m.payload))
  <1>1. /\ m \in [cmd : Nat, payload : Seq(0..Base - 1)]
        /\ Len(m.payload) < Base * (Base * (Base * Base))
        /\ Base \in Nat /\ Base >= 2
    BY DEF ChannelConstants, Fits
  <1>2. m.cmd \in Nat /\ m.payload \in Seq(Nat) /\ Len(m.payload) \in Nat
    BY <1>1
  <1>3. l \in Seq(Nat) /\ Len(l) = 4
    BY <1>1, <1>2, LengthBytesType
  <1> HIDE DEF l
  <1>4. Frame(m) = <<m.cmd>> \o l \o m.payload
    BY DEF Frame, l
  <1>5. /\ Frame(m) \in Seq(Nat)
        /\ Len(Frame(m)) = 5 + Len(m.payload)
        /\ Frame(m)[1] = m.cmd
        /\ \A i \in 1..4 : Frame(m)[1 + i] = l[i]
        /\ \A i \in 1..Len(m.payload) : Frame(m)[5 + i] = m.payload[i]
    <2>1. /\ <<m.cmd>> \o l \in Seq(Nat) /\ Len(<<m.cmd>> \o l) = 5
          /\ (<<m.cmd>> \o l)[1] = m.cmd
          /\ \A i \in 1..4 : (<<m.cmd>> \o l)[1 + i] = l[i]
      <3>1. <<m.cmd>> \in Seq(Nat) /\ Len(<<m.cmd>>) = 1 /\ <<m.cmd>>[1] = m.cmd
        BY <1>2
      <3> DEFINE c == <<m.cmd>>
      <3> HIDE DEF c
      <3>2. c \in Seq(Nat) /\ Len(c) = 1 /\ c[1] = m.cmd
        BY <3>1 DEF c
      <3>3. /\ c \o l \in Seq(Nat) /\ Len(c \o l) = Len(c) + Len(l)
            /\ \A i \in 1..Len(c) : (c \o l)[i] = c[i]
            /\ \A i \in 1..Len(l) : (c \o l)[Len(c) + i] = l[i]
        <4>1. l \in Seq(Nat) /\ c \in Seq(Nat)
          BY <1>3, <3>2
        <4>. QED  BY <4>1, Concat
      <3>4. /\ c \o l \in Seq(Nat) /\ Len(c \o l) = 5 /\ (c \o l)[1] = m.cmd
            /\ \A i \in 1..4 : (c \o l)[1 + i] = l[i]
        <4>1. 1 \in 1..Len(c) /\ Len(l) = 4 /\ Len(c) = 1
          BY <1>3, <3>2
        <4> DEFINE cl == c \o l
        <4>0. /\ cl \in Seq(Nat) /\ Len(cl) = Len(c) + Len(l)
              /\ \A i \in 1..Len(c) : cl[i] = c[i]
              /\ \A i \in 1..Len(l) : cl[Len(c) + i] = l[i]
          BY <3>3
        <4> HIDE DEF cl
        <4>2. \A i \in 1..4 : cl[1 + i] = l[i]
          BY <4>0, <4>1
        <4>3. Len(cl) = 5 /\ cl[1] = m.cmd
          BY <3>2, <4>0, <4>1
        <4>. QED  BY <4>0, <4>2, <4>3 DEF cl
      <3>. QED  BY <3>4 DEF c
    <2> DEFINE h == <<m.cmd>> \o l
    <2> HIDE DEF h
    <2>3. h \in Seq(Nat) /\ Len(h) = 5 /\ h[1] = m.cmd /\ \A i \in 1..4 : h[1 + i] = l[i]
      BY <2>1 DEF h
    <2>4. Frame(m) = h \o m.payload
      BY <1>4 DEF h
    <2>5. /\ h \o m.payload \in Seq(Nat)
          /\ Len(h \o m.payload) = 5 + Len(m.payload)
          /\ \A i \in 1..5 : (h \o m.payload)[i] = h[i]
          /\ \A i \in 1..Len(m.payload) : (h \o m.payload)[5 + i] = m.payload[i]
      <3>1. /\ h \o m.payload \in Seq(Nat)
            /\ Len(h \o m.payload) = Len(h) + Len(m.payload)
            /\ \A i \in 1..Len(h) : (h \o m.payload)[i] = h[i]
            /\ \A i \in 1..Len(m.payload) : (h \o m.payload)[Len(h) + i] = m.payload[i]
        <4>1. h \in Seq(Nat) /\ m.payload \in Seq(Nat)
          BY <1>2, <2>3
        <4>. QED  BY <4>1, Concat
      <3>2. Len(h) = 5
        BY <2>3
      <3>. QED  BY <3>1, <3>2
    <2>6. /\ h[1] = (h \o m.payload)[1]
          /\ \A i \in 1..4 : h[1 + i] = (h \o m.payload)[1 + i]
      BY <2>5
    <2>. QED  BY <2>3, <2>4, <2>5, <2>6
  <1>6. l[1] + Base * (l[2] + Base * (l[3] + Base * l[4])) = Len(m.payload)
    BY <1>1, <1>2, LengthRoundTrip DEF l
  <1>7. /\ Frame(m)[2] = l[1] /\ Frame(m)[3] = l[2]
        /\ Frame(m)[4] = l[3] /\ Frame(m)[5] = l[4]
    <2>1. /\ Frame(m)[1 + 1] = l[1] /\ Frame(m)[1 + 2] = l[2]
          /\ Frame(m)[1 + 3] = l[3] /\ Frame(m)[1 + 4] = l[4]
      BY <1>5
    <2>. QED  BY <2>1
  <1>8. PayloadLength(Frame(m)) = Len(m.payload)
    BY <1>6, <1>7 DEF PayloadLength
  <1>. QED  BY <1>2, <1>5, <1>8 DEF l

-----------------------------------------------------------------------------
LEMMA InitInv == ASSUME ChannelConstants, Init PROVE ChannelInv
  <1>1. ChannelTypeOK
    BY DEF Init, ChannelTypeOK
  <1> DEFINE at == [i \in 1..1 |-> 0]
  <1>2. at \in [1..Len(sent) + 1 -> Nat]
    BY DEF Init
  <1>3. Placed(at) /\ Reading(at)
    BY DEF Init, Placed, Reading
  <1>. QED  BY <1>1, <1>2, <1>3 DEF ChannelInv, Framed

(* A table of places grows by one entry.                                   *)
LEMMA OneMorePlace ==
  ASSUME NEW n \in Nat, NEW at \in [1..n + 1 -> Nat], NEW v \in Nat
  PROVE  \E new \in [1..n + 2 -> Nat] :
           /\ new[n + 2] = v
           /\ \A i \in 1..n + 1 : new[i] = at[i] /\ at[i] \in Nat
  <1> DEFINE next == [i \in 1..n + 2 |-> IF i = n + 2 THEN v ELSE at[i]]
  <1>1. ASSUME NEW i \in 1..n + 2 PROVE (IF i = n + 2 THEN v ELSE at[i]) \in Nat
    <2>1. CASE i = n + 2
      BY <2>1
    <2>2. CASE i # n + 2
      <3>1. i \in 1..n + 1
        BY <2>2
      <3>. QED  BY <2>2, <3>1
    <2>. QED  BY <2>1, <2>2
  <1>2. next \in [1..n + 2 -> Nat]
    BY <1>1
  <1>3. n + 2 \in 1..n + 2
    OBVIOUS
  <1>4. next[n + 2] = v
    BY <1>3
  <1>5. ASSUME NEW i \in 1..n + 1 PROVE next[i] = at[i] /\ at[i] \in Nat
    <2>1. i \in 1..n + 2 /\ i # n + 2
      OBVIOUS
    <2>. QED  BY <2>1
  <1> HIDE DEF next
  <1>. QED  BY <1>2, <1>4, <1>5

(* A new message lies at the end of the stream, the others where they were.*)
LEMMA SendInv ==
  ASSUME ChannelConstants, ChannelInv, NEW m \in Messages, Send(m)
  PROVE  ChannelInv'
  <1> USE DEF ChannelTypeOK
  <1>1. PICK at \in [1..Len(sent) + 1 -> Nat] : Placed(at) /\ Reading(at)
    BY DEF ChannelInv, Framed
  <1>h. Len(sent) \in Nat
    BY DEF ChannelInv
  <1>n. PICK n \in Nat : n = Len(sent)
    BY <1>h
  <1> DEFINE f == Frame(m)
  <1>2. /\ f \in Seq(Nat) /\ Len(f) \in Nat /\ Len(f) > 0
    BY FrameFacts
  <1>3. /\ sent' = Append(sent, m) /\ sent' \in Seq(Messages) /\ Len(sent') = n + 1
        /\ \A i \in 1..n : sent'[i] = sent[i]
        /\ sent'[n + 1] = m
    BY <1>n, AppendProperties DEF Send, ChannelInv
  <1>5. UNCHANGED <<written, taken, buffer, received, open>>
    BY DEF Send
  <1>a. /\ n \in Nat /\ stream \in Seq(Nat) /\ Len(stream) \in Nat /\ sent \in Seq(Messages)
        /\ Len(received) \in Nat /\ Len(buffer) \in Nat /\ taken \in Nat
        /\ taken <= Len(stream)
    BY <1>n DEF ChannelInv
  <1> HIDE DEF f
  <1>4. /\ stream' = stream \o f /\ stream' \in Seq(Nat) /\ Len(stream') = Len(stream) + Len(f)
        /\ \A i \in 1..Len(stream) : stream'[i] = stream[i]
        /\ \A i \in 1..Len(f) : stream'[Len(stream) + i] = f[i]
    <2>1. stream' = stream \o f
      BY DEF Send, f
    <2>. QED  BY <1>2, <1>a, <2>1, Concat
  <1>6. ChannelTypeOK'
    <2>1. written \in 0..Len(stream') /\ taken \in 0..written
      BY <1>2, <1>4, <1>a DEF ChannelInv
    <2>2. buffer \in Seq(Nat) /\ received \in Seq(Messages) /\ open \subseteq {"writer", "reader"}
      BY DEF ChannelInv
    <2>. QED  BY <1>3, <1>4, <1>5, <2>1, <2>2
  <1>b. at \in [1..n + 1 -> Nat] /\ Len(stream) + Len(f) \in Nat
    BY <1>1, <1>2, <1>a, <1>n
  <1>c. \E new \in [1..n + 2 -> Nat] :
           /\ new[n + 2] = Len(stream) + Len(f)
           /\ \A i \in 1..n + 1 : new[i] = at[i] /\ at[i] \in Nat
    BY <1>b, OneMorePlace
  <1>d. PICK new \in [1..n + 2 -> Nat] :
           /\ new[n + 2] = Len(stream) + Len(f)
           /\ \A i \in 1..n + 1 : new[i] = at[i] /\ at[i] \in Nat
    BY <1>c
  <1>7. new \in [1..Len(sent') + 1 -> Nat]
    BY <1>3, <1>a, <1>d
  <1>e. /\ at[1] = 0 /\ at[n + 1] = Len(stream)
        /\ \A i \in 1..n :
             /\ at[i + 1] = at[i] + Len(Frame(sent[i])) /\ at[i + 1] <= Len(stream)
             /\ \A j \in 1..Len(Frame(sent[i])) : stream[at[i] + j] = Frame(sent[i])[j]
    BY <1>1, <1>n DEF Placed
  <1>f. /\ Len(received) <= n
        /\ \A i \in 1..Len(received) : received[i] = sent[i]
        /\ taken = at[Len(received) + 1] + Len(buffer)
        /\ Len(received) < n => Len(buffer) < Len(Frame(sent[Len(received) + 1]))
        /\ \A j \in 1..Len(buffer) : buffer[j] = stream[at[Len(received) + 1] + j]
    BY <1>1, <1>n DEF Reading
  <1>g. Len(sent') = n + 1
    BY <1>3
  <1>8. Placed(new)'
    <2>1. new[1] = 0 /\ new[Len(sent') + 1] = Len(stream')
      BY <1>3, <1>4, <1>a, <1>d, <1>e
    <2>2. ASSUME NEW i \in 1..n + 1
          PROVE  /\ new[i + 1] = new[i] + Len(Frame(sent'[i]))
                 /\ new[i + 1] <= Len(stream')
                 /\ \A j \in 1..Len(Frame(sent'[i])) :
                      stream'[new[i] + j] = Frame(sent'[i])[j]
      <3>1. CASE i = n + 1
        <4>1. new[i] = Len(stream) /\ new[i + 1] = Len(stream) + Len(f)
          <5>1. i \in 1..n + 1 /\ i + 1 = n + 2
            BY <1>a, <3>1
          <5>. QED  BY <1>d, <1>e, <3>1, <5>1
        <4>2. Frame(sent'[i]) = f
          BY <1>3, <3>1 DEF f
        <4>3. \A j \in 1..Len(f) : stream'[new[i] + j] = f[j]
          BY <1>4, <4>1
        <4>4. new[i + 1] = new[i] + Len(f) /\ new[i + 1] <= Len(stream')
          BY <1>2, <1>4, <1>a, <4>1
        <4>. QED  BY <4>2, <4>3, <4>4
      <3>2. CASE i \in 1..n
        <4> DEFINE g == Frame(sent[i])
        <4>1. new[i] = at[i] /\ new[i + 1] = at[i + 1] /\ at[i] \in Nat /\ at[i + 1] \in Nat
          BY <1>a, <1>d, <3>2
        <4>2. g \in Seq(Nat) /\ Len(g) \in Nat
          <5>1. sent[i] \in Messages
            BY <1>a, <1>n, <3>2
          <5>. QED  BY <5>1, FrameFacts
        <4>3. Frame(sent'[i]) = g
          BY <1>3, <3>2
        <4> HIDE DEF g
        <4>4. /\ at[i + 1] = at[i] + Len(g) /\ at[i + 1] <= Len(stream)
              /\ \A j \in 1..Len(g) : stream[at[i] + j] = g[j]
          BY <1>e, <3>2 DEF g
        <4>5. \A j \in 1..Len(g) : stream'[at[i] + j] = g[j]
          <5> TAKE j \in 1..Len(g)
          <5>1. at[i] + j \in 1..Len(stream)
            <6>1. at[i] \in Nat /\ at[i] + Len(g) <= Len(stream)
              BY <4>1, <4>2, <4>4
            <6>. QED  BY <1>a, <4>2, <6>1, Inside
          <5>. QED  BY <1>4, <4>4, <5>1
        <4>6. new[i + 1] = new[i] + Len(g) /\ new[i + 1] <= Len(stream')
          <5>1. Len(stream) \in Nat /\ Len(stream') \in Nat /\ Len(stream) <= Len(stream')
            BY <1>2, <1>4, <1>a
          <5>. QED  BY <4>1, <4>4, <5>1
        <4>. QED  BY <4>1, <4>3, <4>5, <4>6
      <3>3. i = n + 1 \/ i \in 1..n
        OBVIOUS
      <3>. QED  BY <3>1, <3>2, <3>3
    <2>. QED  BY <1>g, <2>1, <2>2 DEF Placed
  <1>9. Reading(new)'
    <2>1. new[Len(received) + 1] = at[Len(received) + 1] /\ at[Len(received) + 1] \in Nat
      <3>1. Len(received) + 1 \in 1..n + 1
        BY <1>a, <1>f
      <3>. QED  BY <1>d, <3>1
    <2>3. \A j \in 1..Len(buffer) : buffer[j] = stream'[new[Len(received) + 1] + j]
      <3> TAKE j \in 1..Len(buffer)
      <3>1. at[Len(received) + 1] + j \in 1..Len(stream)
        <4>1. at[Len(received) + 1] + Len(buffer) <= Len(stream)
          BY <1>a, <1>f
        <4>. QED  BY <1>a, <2>1, <4>1, Inside
      <3>. QED  BY <1>4, <1>f, <2>1, <3>1
    <2>4. Len(buffer) < Len(Frame(sent'[Len(received) + 1]))
      <3>1. CASE Len(received) < n
        <4>1. Len(received) + 1 \in 1..n
          BY <1>a, <3>1
        <4>2. sent'[Len(received) + 1] = sent[Len(received) + 1]
          BY <1>3, <4>1
        <4>. QED  BY <1>f, <3>1, <4>2
      <3>2. CASE Len(received) = n
        <4>1. at[n + 1] = Len(stream) /\ taken = at[n + 1] + Len(buffer)
          BY <1>e, <1>f, <3>2
        <4>2. Len(buffer) = 0
          BY <1>a, <4>1
        <4>3. sent'[Len(received) + 1] = m
          BY <1>3, <3>2
        <4>. QED  BY <1>2, <4>2, <4>3 DEF f
      <3>. QED  BY <1>a, <1>f, <3>1, <3>2
    <2>5. \A i \in 1..Len(received) : received[i] = sent'[i]
      BY <1>3, <1>a, <1>f
    <2>6. Len(received) <= Len(sent') /\ taken = new[Len(received) + 1] + Len(buffer)
      BY <1>3, <1>a, <1>f, <2>1
    <2>. QED  BY <1>5, <2>3, <2>4, <2>5, <2>6 DEF Reading
  <1>. QED  BY <1>6, <1>7, <1>8, <1>9 DEF ChannelInv, Framed

-----------------------------------------------------------------------------
(* Once its header is there, the beginning of a frame says how long the    *)
(* payload is.                                                             *)
LEMMA HeaderTells ==
  ASSUME ChannelConstants, NEW m \in Messages, NEW b \in Seq(Nat),
         Len(b) >= 5, \A j \in 1..Len(b) : b[j] = Frame(m)[j]
  PROVE  PayloadLength(b) = Len(m.payload)
  <1>1. b[2] = Frame(m)[2] /\ b[3] = Frame(m)[3] /\ b[4] = Frame(m)[4] /\ b[5] = Frame(m)[5]
    <2>1. 2 \in 1..Len(b) /\ 3 \in 1..Len(b) /\ 4 \in 1..Len(b) /\ 5 \in 1..Len(b)
      OBVIOUS
    <2>. QED  BY <2>1
  <1>2. PayloadLength(Frame(m)) = Len(m.payload)
    BY FrameFacts
  <1>. QED  BY <1>1, <1>2 DEF PayloadLength

(* What recv cuts out of a frame that is complete is the message sent.     *)
LEMMA CutOut ==
  ASSUME ChannelConstants, NEW m \in Messages, NEW b \in Seq(Nat),
         Len(b) = Len(Frame(m)), \A j \in 1..Len(b) : b[j] = Frame(m)[j]
  PROVE  [cmd |-> b[1], payload |-> SubSeq(b, HeaderSize + 1, Len(b))] = m
  <1>1. /\ m \in [cmd : Nat, payload : Seq(0..Base - 1)]
        /\ Len(m.payload) \in Nat /\ m.payload \in Seq(Nat)
        /\ Len(b) = 5 + Len(m.payload) /\ Frame(m)[1] = m.cmd
        /\ \A i \in 1..Len(m.payload) : Frame(m)[5 + i] = m.payload[i]
    BY FrameFacts DEF ChannelConstants
  <1> DEFINE p == SubSeq(b, 6, Len(b))
  <1>2. /\ p \in Seq(Nat) /\ Len(p) = Len(m.payload)
        /\ \A i \in 1..Len(p) : p[i] = b[5 + i]
    BY <1>1, SubSeqProperties
  <1>3. ASSUME NEW i \in 1..Len(p) PROVE p[i] = m.payload[i]
    <2>1. 5 + i \in 1..Len(b)
      BY <1>1, <1>2
    <2>. QED  BY <1>1, <1>2, <2>1
  <1> HIDE DEF p
  <1>4. p = m.payload
    BY <1>1, <1>2, <1>3, SeqEqual
  <1>5. b[1] = m.cmd
    BY <1>1
  <1>6. [cmd |-> b[1], payload |-> p] = m
    BY <1>1, <1>4, <1>5
  <1>. QED  BY <1>6 DEF p, HeaderSize

(* What recv holds after reading k more bytes.                             *)
Now(k) == buffer \o SubSeq(stream, taken + 1, taken + k)

(* A read takes bytes of the frame the reader is in, never of the next.    *)
LEMMA ReadFacts ==
  ASSUME ChannelConstants, ChannelTypeOK,
         NEW at \in [1..Len(sent) + 1 -> Nat], Placed(at), Reading(at),
         NEW k \in Bytes, k <= written - taken, k <= Wanted
  PROVE  /\ Len(received) < Len(sent)
         /\ Now(k) \in Seq(Nat) /\ Len(Now(k)) = Len(buffer) + k
         /\ Len(Now(k)) <= Len(Frame(sent[Len(received) + 1]))
         /\ \A j \in 1..Len(Now(k)) : /\ Now(k)[j] = stream[at[Len(received) + 1] + j]
                                   /\ Now(k)[j] = Frame(sent[Len(received) + 1])[j]
         /\ Complete(Now(k)) <=> Len(Now(k)) = Len(Frame(sent[Len(received) + 1]))
  <1> DEFINE n == Len(sent)
             r == Len(received)
             m == sent[r + 1]
             g == Frame(m)
             p == at[r + 1]
             c == SubSeq(stream, taken + 1, taken + k)
             now == Now(k)
  <1> HIDE DEF now
  <1>1. /\ n \in Nat /\ r \in Nat /\ stream \in Seq(Nat) /\ Len(stream) \in Nat
        /\ written \in Nat /\ taken \in Nat /\ buffer \in Seq(Nat) /\ Len(buffer) \in Nat
        /\ written <= Len(stream) /\ taken <= written
        /\ k \in Nat /\ k >= 1 /\ taken + k <= Len(stream)
    BY DEF ChannelTypeOK, Bytes, ChannelConstants
  <1>2. /\ at[n + 1] = Len(stream) /\ r <= n
        /\ taken = p + Len(buffer)
        /\ r < n => Len(buffer) < Len(g)
        /\ \A j \in 1..Len(buffer) : buffer[j] = stream[p + j]
    BY DEF Placed, Reading
  <1>3. r < n
    <2>1. SUFFICES ASSUME r = n PROVE FALSE
      BY <1>1, <1>2
    <2>2. p = Len(stream)
      BY <1>2, <2>1
    <2>3. taken = Len(stream) + Len(buffer)
      BY <1>2, <2>2
    <2> HIDE DEF n, r, p
    <2>. QED  BY <1>1, <2>3
  <1>4. m \in Messages /\ p \in Nat
    <2>1. r + 1 \in 1..n /\ r + 1 \in 1..n + 1
      <3> HIDE DEF n, r
      <3>. QED  BY <1>1, <1>3
    <2>2. p \in Nat
      BY <2>1
    <2>3. m \in Messages
      BY <2>1 DEF ChannelTypeOK
    <2>. QED  BY <2>2, <2>3
  <1> HIDE DEF m, p
  <1>5. g \in Seq(Nat) /\ Len(g) = 5 + Len(m.payload) /\ Len(m.payload) \in Nat
    BY <1>4, FrameFacts
  <1>6. p + Len(g) <= Len(stream) /\ \A j \in 1..Len(g) : stream[p + j] = g[j]
    <2>1. r + 1 \in 1..n
      BY <1>1, <1>3
    <2>2. /\ at[(r + 1) + 1] = at[r + 1] + Len(Frame(sent[r + 1]))
          /\ at[(r + 1) + 1] <= Len(stream)
          /\ \A j \in 1..Len(Frame(sent[r + 1])) :
               stream[at[r + 1] + j] = Frame(sent[r + 1])[j]
      BY <2>1 DEF Placed
    <2>. QED  BY <2>2 DEF m, p
  <1> HIDE DEF g
  <1>7. c \in Seq(Nat) /\ Len(c) = k /\ \A i \in 1..k : c[i] = stream[taken + i]
    <2>1. /\ taken + 1 \in 1..Len(stream) + 1 /\ taken + k \in taken..Len(stream)
      BY <1>1
    <2>2. \A i \in taken + 1..taken + k : stream[i] \in Nat
      <3> HIDE DEF n, r
      <3>1. \A i \in taken + 1..taken + k : i \in 1..Len(stream)
        BY <1>1
      <3>. QED  BY <1>1, <3>1
    <2>3. /\ c \in Seq(Nat)
          /\ Len(c) = IF taken + 1 <= taken + k THEN taken + k - (taken + 1) + 1 ELSE 0
          /\ \A i \in 1..taken + k - (taken + 1) + 1 : c[i] = stream[taken + 1 + i - 1]
      BY <1>1, <2>2, SubSeqProperties
    <2>4. /\ Len(c) = k /\ taken + k - (taken + 1) + 1 = k
          /\ \A i \in 1..k : taken + 1 + i - 1 = taken + i
      BY <1>1, <2>3
    <2>. QED  BY <2>3, <2>4
  <1> HIDE DEF c
  <1>8. /\ now \in Seq(Nat) /\ Len(now) = Len(buffer) + Len(c)
        /\ \A i \in 1..Len(buffer) : now[i] = buffer[i]
        /\ \A i \in 1..Len(c) : now[Len(buffer) + i] = c[i]
    <2>1. c \in Seq(Nat) /\ buffer \in Seq(Nat) /\ now = buffer \o c
      BY <1>1, <1>7 DEF c, now, Now
    <2>2. /\ buffer \o c \in Seq(Nat) /\ Len(buffer \o c) = Len(buffer) + Len(c)
          /\ \A i \in 1..Len(buffer) : (buffer \o c)[i] = buffer[i]
          /\ \A i \in 1..Len(c) : (buffer \o c)[Len(buffer) + i] = c[i]
      <3>1. c \in Seq(Nat) /\ buffer \in Seq(Nat)
        BY <2>1
      <3>. QED  BY <3>1, Concat
    <2>. QED  BY <2>1, <2>2
  <1>a. /\ Len(now) = Len(buffer) + k /\ Len(now) \in Nat /\ Len(buffer) \in Nat /\ k \in Nat
        /\ Len(buffer) < Len(g) /\ Len(g) \in Nat /\ Len(g) = 5 + Len(m.payload)
        /\ Len(m.payload) \in Nat
    <2>1. Len(buffer) < Len(g)
      BY <1>2, <1>3
    <2>2. Len(now) = Len(buffer) + k
      BY <1>7, <1>8
    <2>3. Len(buffer) \in Nat /\ k \in Nat
      BY <1>1
    <2>4. Len(g) \in Nat /\ Len(g) = 5 + Len(m.payload) /\ Len(m.payload) \in Nat
      BY <1>5
    <2>. QED  BY <2>1, <2>2, <2>3, <2>4
  <1>9. ASSUME NEW j \in 1..Len(now) PROVE now[j] = stream[p + j]
    <2>1. CASE j \in 1..Len(buffer)
      BY <1>2, <1>8, <2>1
    <2>2. CASE j \notin 1..Len(buffer)
      <3>1. PICK i \in 1..k : j = Len(buffer) + i
        <4>1. j - Len(buffer) \in 1..k
          BY <1>1, <1>7, <1>8, <2>2
        <4>2. j = Len(buffer) + (j - Len(buffer))
          BY <1>1
        <4>. QED  BY <4>1, <4>2
      <3>2. now[j] = c[i]
        BY <1>7, <1>8, <3>1
      <3>3. taken + i = p + j
        BY <1>1, <1>2, <1>4, <3>1
      <3>. QED  BY <1>7, <3>2, <3>3
    <2>. QED  BY <2>1, <2>2
  <1>10. \A j \in 1..Len(buffer) : buffer[j] = g[j]
    <2> TAKE j \in 1..Len(buffer)
    <2>1. j \in 1..Len(g)
      BY <1>a
    <2>. QED  BY <1>2, <1>6, <2>1
  <1>11. Len(now) <= Len(g)
    <2>1. CASE Len(buffer) < 5
      <3>1. k <= 5 - Len(buffer)
        BY <2>1 DEF Wanted, HeaderSize
      <3>. QED  BY <1>a, <2>1, <3>1
    <2>2. CASE Len(buffer) >= 5
      <3>1. PayloadLength(buffer) = Len(m.payload)
        BY <1>1, <1>4, <1>10, <2>2, HeaderTells DEF g
      <3>2. k <= 5 + Len(m.payload) - Len(buffer)
        <4>1. Wanted = 5 + PayloadLength(buffer) - Len(buffer)
          BY <1>a, <2>2 DEF Wanted, HeaderSize
        <4>. QED  BY <3>1, <4>1
      <3>. QED  BY <1>a, <3>2
    <2>. QED  BY <1>a, <2>1, <2>2
  <1>12. \A j \in 1..Len(now) : now[j] = g[j]
    <2> TAKE j \in 1..Len(now)
    <2>1. j \in 1..Len(g)
      BY <1>5, <1>8, <1>11
    <2>. QED  BY <1>6, <1>9, <2>1
  <1>13. Complete(now) <=> Len(now) = Len(g)
    <2>1. CASE Len(now) < 5
      BY <1>a, <2>1 DEF Complete, HeaderSize
    <2>2. CASE Len(now) >= 5
      <3>1. PayloadLength(now) = Len(m.payload)
        BY <1>4, <1>8, <1>12, <2>2, HeaderTells DEF g
      <3>. QED  BY <1>a, <2>2, <3>1 DEF Complete, HeaderSize
    <2>. QED  BY <1>a, <2>1, <2>2
  <1>. QED  BY <1>3, <1>7, <1>8, <1>9, <1>11, <1>12, <1>13 DEF g, m, p, now

-----------------------------------------------------------------------------
(* A read returns the next message or nothing, and stays in step.          *)
LEMMA ReadInv ==
  ASSUME ChannelConstants, ChannelInv, NEW k \in Bytes, Read(k)
  PROVE  /\ ChannelInv'
         /\ \/ /\ Len(received) < Len(sent)
               /\ received' = Append(received, sent[Len(received) + 1])
            \/ received' = received
  <1>1. PICK at \in [1..Len(sent) + 1 -> Nat] : Placed(at) /\ Reading(at)
    BY DEF ChannelInv, Framed
  <1> DEFINE r == Len(received)
             n == Len(sent)
             m == sent[r + 1]
             g == Frame(m)
             now == Now(k)
  <1>2. /\ ChannelTypeOK /\ k <= written - taken /\ k <= Wanted
        /\ taken' = taken + k
        /\ IF Complete(now)
           THEN /\ received' = Append(received, [cmd |-> now[1],
                                 payload |-> SubSeq(now, HeaderSize + 1, Len(now))])
                /\ buffer' = <<>>
           ELSE buffer' = now /\ UNCHANGED received
        /\ UNCHANGED <<sent, stream, written, open>>
    BY DEF ChannelInv, Read, Now
  <1> HIDE DEF now
  <1>3. /\ r < n /\ now \in Seq(Nat) /\ Len(now) = Len(buffer) + k /\ Len(now) <= Len(g)
        /\ \A j \in 1..Len(now) : now[j] = stream[at[r + 1] + j] /\ now[j] = g[j]
        /\ Complete(now) <=> Len(now) = Len(g)
    BY <1>1, <1>2, ReadFacts DEF now
  <1>4. /\ n \in Nat /\ r \in Nat /\ k \in Nat /\ k >= 1 /\ Len(stream) \in Nat
        /\ written \in Nat /\ taken \in Nat /\ Len(buffer) \in Nat
        /\ written <= Len(stream) /\ taken <= written
    BY <1>2 DEF ChannelTypeOK, Bytes, ChannelConstants
  <1>5. r + 1 \in 1..n /\ r + 1 \in 1..n + 1
    <2> HIDE DEF n, r
    <2>. QED  BY <1>3, <1>4
  <1>6. m \in Messages /\ at[r + 1] \in Nat
    <2>1. m \in Messages
      BY <1>2, <1>5 DEF ChannelTypeOK
    <2>. QED  BY <1>5, <2>1
  <1>7. /\ taken = at[r + 1] + Len(buffer)
        /\ \A i \in 1..r : received[i] = sent[i]
        /\ at[r + 2] = at[r + 1] + Len(g)
    <2>1. at[(r + 1) + 1] = at[r + 1] + Len(g)
      BY <1>1, <1>5 DEF Placed
    <2>2. (r + 1) + 1 = r + 2
      BY <1>4
    <2>. QED  BY <1>1, <2>1, <2>2 DEF Reading
  <1>8. taken' \in 0..written /\ taken' \in Nat
    BY <1>2, <1>4
  <1>9. taken' = at[r + 1] + Len(now)
    <2>1. /\ taken' = taken + k /\ Len(now) = Len(buffer) + k
          /\ taken = at[r + 1] + Len(buffer)
      BY <1>2, <1>3, <1>7
    <2>2. k \in Nat /\ Len(buffer) \in Nat /\ at[r + 1] \in Nat
      BY <1>4, <1>6
    <2> HIDE DEF r
    <2>. QED  BY <2>1, <2>2
  <1>10. Placed(at)'
    BY <1>1, <1>2 DEF Placed
  <1>11. CASE Complete(now)
    <2> DEFINE cut == [cmd |-> now[1], payload |-> SubSeq(now, HeaderSize + 1, Len(now))]
    <2>1. cut = m
      BY <1>3, <1>6, <1>11, CutOut
    <2> HIDE DEF cut
    <2>2. received' = Append(received, m) /\ buffer' = <<>>
      BY <1>2, <1>11, <2>1 DEF cut
    <2> HIDE DEF m
    <2>3. /\ received' \in Seq(Messages) /\ Len(received') = r + 1
          /\ \A i \in 1..r : received'[i] = received[i]
          /\ received'[r + 1] = m
      <3>1. received \in Seq(Messages)
        BY <1>2 DEF ChannelTypeOK
      <3>. QED  BY <1>6, <2>2, <3>1, AppendProperties
    <2>4. ChannelTypeOK'
      <3>1. buffer' \in Seq(Nat)
        BY <2>2
      <3>. QED  BY <1>2, <1>8, <2>3, <3>1 DEF ChannelTypeOK
    <2>5. ASSUME NEW i \in 1..r + 1 PROVE received'[i] = sent[i]
      <3>1. CASE i = r + 1
        BY <2>3, <3>1 DEF m
      <3>2. CASE i \in 1..r
        BY <1>7, <2>3, <3>2
      <3> HIDE DEF r
      <3>. QED  BY <1>4, <3>1, <3>2
    <2>6. taken' = at[r + 2] + 0
      BY <1>3, <1>6, <1>7, <1>9, <1>11
    <2>7. Len(received') < Len(sent) => 0 < Len(Frame(sent[Len(received') + 1]))
      <3>1. SUFFICES ASSUME r + 1 < n PROVE 0 < Len(Frame(sent[r + 2]))
        <4>1. (r + 1) + 1 = r + 2
          BY <1>4
        <4>. QED  BY <2>3, <4>1
      <3>2. sent[r + 2] \in Messages
        <4>1. r + 2 \in 1..n
          <5> HIDE DEF r, n
          <5>. QED  BY <1>4, <3>1
        <4>. QED  BY <1>2, <4>1 DEF ChannelTypeOK
      <3>. QED  BY <3>2, FrameFacts
    <2>8. Reading(at)'
      <3>1. Len(buffer') = 0 /\ (r + 1) + 1 = r + 2 /\ r + 1 <= n
        BY <1>3, <1>4, <2>2
      <3>2. /\ Len(received') <= Len(sent)
            /\ \A i \in 1..Len(received') : received'[i] = sent[i]
            /\ taken' = at[Len(received') + 1] + Len(buffer')
        BY <2>3, <2>5, <2>6, <3>1
      <3>3. Len(received') < Len(sent) => Len(buffer') < Len(Frame(sent[Len(received') + 1]))
        BY <2>7, <3>1
      <3>4. \A j \in 1..Len(buffer') : buffer'[j] = stream[at[Len(received') + 1] + j]
        BY <3>1
      <3>. QED  BY <1>2, <3>2, <3>3, <3>4 DEF Reading
    <2>. QED  BY <1>1, <1>2, <1>3, <1>10, <2>2, <2>4, <2>8 DEF ChannelInv, Framed, m
  <1>12. CASE ~Complete(now)
    <2>1. buffer' = now /\ received' = received
      BY <1>2, <1>12
    <2>2. ChannelTypeOK'
      BY <1>2, <1>3, <1>8, <2>1 DEF ChannelTypeOK
    <2>3. Len(now) < Len(g)
      <3>1. Len(g) \in Nat /\ Len(now) \in Nat
        BY <1>3, <1>6, FrameFacts
      <3> HIDE DEF g
      <3>. QED  BY <1>3, <1>12, <3>1
    <2>4. Reading(at)'
      BY <1>1, <1>2, <1>3, <1>7, <1>9, <2>1, <2>3 DEF Reading
    <2>. QED  BY <1>1, <1>2, <1>10, <2>1, <2>2, <2>4 DEF ChannelInv, Framed
  <1>. QED  BY <1>11, <1>12

(* Writing and dying move no message.                                      *)
LEMMA OtherInv ==
  ASSUME ChannelInv, UNCHANGED <<sent, stream, taken, buffer, received>>,
         written' \in written..Len(stream), open' \subseteq open
  PROVE  ChannelInv'
  <1>1. PICK at \in [1..Len(sent) + 1 -> Nat] : Placed(at) /\ Reading(at)
    BY DEF ChannelInv, Framed
  <1>2. Placed(at)' /\ Reading(at)'
    BY <1>1 DEF Placed, Reading
  <1>3. ChannelTypeOK'
    BY DEF ChannelInv, ChannelTypeOK
  <1>. QED  BY <1>1, <1>2, <1>3 DEF ChannelInv, Framed

LEMMA WriteInv ==
  ASSUME ChannelConstants, ChannelInv, NEW k \in Bytes, Write(k)
  PROVE  ChannelInv' /\ UNCHANGED <<sent, received, open>>
  <1>1. written' \in written..Len(stream)
    BY DEF Write, Bytes, ChannelInv, ChannelTypeOK, ChannelConstants
  <1>. QED  BY <1>1, OtherInv DEF Write

LEMMA DieInv ==
  ASSUME ChannelInv, NEW end, Die(end)
  PROVE  ChannelInv'
  <1>1. written' \in written..Len(stream)
    BY DEF Die, ChannelInv, ChannelTypeOK
  <1>. QED  BY <1>1, OtherInv DEF Die

-----------------------------------------------------------------------------
(* Every step preserves the invariant and is a step of the queue or none.  *)
LEMMA StepInv ==
  ASSUME ChannelConstants, ChannelInv, [Next]_vars
  PROVE  ChannelInv' /\ [Fifo!Next]_(Fifo!vars)
  <1> USE DEF Fifo!vars
  <1>1. ASSUME NEW m \in Messages, Send(m) PROVE ChannelInv' /\ Fifo!Next
    BY <1>1, SendInv DEF Send, Fifo!Next, Fifo!Send
  <1>2. ASSUME NEW k \in Bytes, Write(k) PROVE ChannelInv' /\ [Fifo!Next]_(Fifo!vars)
    BY <1>2, WriteInv
  <1>3. ASSUME NEW k \in Bytes, Read(k) PROVE ChannelInv' /\ [Fifo!Next]_(Fifo!vars)
    <2>1. "reader" \in open /\ UNCHANGED <<sent, open>>
      BY <1>3 DEF Read
    <2>. QED  BY <1>3, <2>1, ReadInv DEF Fifo!Next, Fifo!Receive
  <1>4. ASSUME NEW end \in {"writer", "reader"}, Die(end) PROVE ChannelInv' /\ Fifo!Next
    BY <1>4, DieInv DEF Die, Fifo!Next, Fifo!Close, Fifo!Ends
  <1>5. CASE EndOfStream
    BY <1>4, <1>5 DEF EndOfStream
  <1>6. CASE BrokenPipe
    BY <1>4, <1>6 DEF BrokenPipe
  <1>7. CASE UNCHANGED vars
    <2>1. written' \in written..Len(stream)
      BY <1>7 DEF vars, ChannelInv, ChannelTypeOK
    <2>. QED  BY <1>7, <2>1, OtherInv DEF vars
  <1>. QED  BY <1>1, <1>2, <1>3, <1>4, <1>5, <1>6, <1>7 DEF Next

(* Whatever the kernel accepts and returns at a time, the two ends agree   *)
(* on where each frame begins (src/src/ipc.cpp:27).                        *)
THEOREM FramesStayInStep == ChannelConstants => (Spec => []ChannelInv)
  <1> SUFFICES ASSUME ChannelConstants PROVE Spec => []ChannelInv
    OBVIOUS
  <1>1. Init => ChannelInv
    BY InitInv
  <1>2. ChannelInv /\ [Next]_vars => ChannelInv'
    BY StepInv
  <1>. QED  BY <1>1, <1>2, PTL DEF Spec

(* The socket pair is a queue of messages: for every set of messages that  *)
(* fit, every number of values of a byte and every capacity, what recv     *)
(* returns is what send was given, whole, once and in order.               *)
THEOREM ChannelIsFifo == ChannelConstants => (Spec => Fifo!SafeSpec)
  <1> SUFFICES ASSUME ChannelConstants PROVE Spec => Fifo!SafeSpec
    OBVIOUS
  <1>1. Init => ChannelInv
    BY InitInv
  <1>2. ChannelInv /\ [Next]_vars => ChannelInv'
    BY StepInv
  <1>3. Init => Fifo!Init
    BY DEF Init, Fifo!Init, Fifo!Ends
  <1>4. ChannelInv /\ [Next]_vars => [Fifo!Next]_(Fifo!vars)
    BY StepInv
  <1>. QED  BY <1>1, <1>2, <1>3, <1>4, PTL DEF Spec, Fifo!SafeSpec
=============================================================================
