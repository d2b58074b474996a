--------------------------- MODULE IpcLink_proofs ---------------------------
(***************************************************************************)
(* Proofs about the admin worker and the master on their two streams: both *)
(* streams are queues of messages, and a job arrives as it was given, for  *)
(* any jobs the formats can hold, any base and any capacity.               *)
(***************************************************************************)
EXTENDS IpcLink, SequenceTheorems, FiniteSetTheorems, TLAPS

(* Lists of bytes are flattened with \o.                                   *)
INSTANCE FoldTheorems WITH Op <- LAMBDA done, item : done \o item

-----------------------------------------------------------------------------
BaseOK == Base \in Nat /\ Base >= 2

-----------------------------------------------------------------------------
(* A number of 32 or of 16 bits is read as it was written.                 *)
LEMMA FourBytes ==
  ASSUME BaseOK, NEW n \in Word
  PROVE  /\ Net4(n) \in [1..4 -> Byte] /\ Net4(n) \in Bytes /\ Len(Net4(n)) = 4
         /\ Net4(n)[4] + Base * (Net4(n)[3] + Base * (Net4(n)[2] + Base * Net4(n)[1])) = n
<1> USE DEF BaseOK
<1>1. PICK b \in Nat : b = Base /\ b >= 2 /\ b >= 1
  OBVIOUS
<1>2. n \in Nat /\ n < b * (b * (b * b)) /\ b * b \in Nat /\ b * (b * b) \in Nat
  BY <1>1 DEF Word
<1>3. PICK q1 \in Nat : q1 = n \div b /\ n = (n % b) + b * q1 /\ q1 < b * (b * b)
  BY <1>1, <1>2, Dividing, DividedBelow
<1>4. PICK q2 \in Nat : q2 = q1 \div b /\ q1 = (q1 % b) + b * q2 /\ q2 < b * b
  BY <1>1, <1>2, <1>3, Dividing, DividedBelow
<1>5. PICK q3 \in Nat : q3 = q2 \div b /\ q2 = (q2 % b) + b * q3 /\ q3 < b
  BY <1>1, <1>4, Dividing, DividedBelow
<1>6. q3 % b = q3
  BY <1>1, <1>5
<1>7. b * b >= 2
  <2>1. b * b >= b * 1
    BY <1>1
  <2> QED  BY <1>1, <2>1
<1>8. n \div (b * b) = q2
  BY <1>1, <1>2, <1>3, <1>4, DividingTwice
<1>9. n \div (b * b * b) = q3
  <2>1. PICK c \in Nat : c = b * b /\ c >= 2
    BY <1>7
  <2>2. n \div (c * b) = (n \div c) \div b
    BY <1>1, <1>2, <2>1, DividingTwice
  <2> QED  BY <1>5, <1>8, <2>1, <2>2
<1>10. Net4(n) = <<q3, q2 % b, q1 % b, n % b>>
  BY <1>1, <1>3, <1>6, <1>8, <1>9 DEF Net4
<1>11. q3 \in Byte /\ q2 % b \in Byte /\ q1 % b \in Byte /\ n % b \in Byte
  <2>1. q2 % b \in 0..b - 1 /\ q1 % b \in 0..b - 1 /\ n % b \in 0..b - 1
    BY <1>1, <1>2, Dividing
  <2> QED  BY <1>1, <1>5, <2>1 DEF Byte
<1>12. PICK d0, d1, d2 : d0 = n % b /\ d1 = q1 % b /\ d2 = q2 % b
  OBVIOUS
<1>13. d0 + Base * (d1 + Base * (d2 + Base * q3)) = n
  BY <1>1, <1>3, <1>4, <1>5, <1>12
<1>14. Net4(n) = <<q3, d2, d1, d0>> /\ q3 \in Byte /\ d2 \in Byte /\ d1 \in Byte /\ d0 \in Byte
  BY <1>10, <1>11, <1>12
<1> QED  BY ONLY <1>13, <1>14 DEF Bytes

LEMMA TwoBytes ==
  ASSUME BaseOK, NEW n \in Nat
  PROVE  /\ Net2(n) \in Bytes /\ Len(Net2(n)) = 2
         /\ Net2(n)[2] + Base * Net2(n)[1] \in 0..n
         /\ n < Base * Base => Net2(n)[2] + Base * Net2(n)[1] = n
<1> USE DEF BaseOK
<1>1. PICK b \in Nat : b = Base /\ b >= 2 /\ b >= 1
  OBVIOUS
<1>2. PICK q \in Nat, r \in Nat : q = n \div b /\ r = n % b /\ r \in 0..b - 1 /\ n = r + b * q
  BY <1>1, Dividing
<1>3. PICK h \in Nat : h = q % b /\ h \in 0..b - 1 /\ h <= q
  <2>1. q % b \in 0..b - 1 /\ q \div b \in Nat /\ q = (q % b) + b * (q \div b)
    BY <1>1, <1>2, Dividing
  <2>2. PICK h, k \in Nat : h = q % b /\ h \in 0..b - 1 /\ q = h + b * k
    BY <2>1
  <2>3. b * k \in Nat
    BY <1>1, <2>2
  <2>4. h \in Nat /\ h <= q
    BY <1>1, <2>2, <2>3
  <2> QED  BY <2>2, <2>4
<1>4. Net2(n) = <<h, r>> /\ h \in Byte /\ r \in Byte
  BY <1>1, <1>2, <1>3 DEF Net2, Byte
<1>5. r + b * h <= n
  <2>1. b * h <= b * q
    BY <1>3
  <2> QED  BY <1>2, <2>1
<1>6. ASSUME n < b * b PROVE h = q
  <2>1. q < b
    BY <1>1, <1>2, <1>6, DividedBelow
  <2> QED  BY <1>1, <1>3, <2>1
<1>7. Net2(n) \in Bytes /\ Len(Net2(n)) = 2
  BY <1>4 DEF Bytes
<1>8. r + b * h \in 0..n
  BY <1>1, <1>2, <1>3, <1>5
<1>9. Net2(n)[2] = r /\ Net2(n)[1] = h
  BY <1>4
<1>10. n < b * b => r + b * h = n
  BY <1>2, <1>6
<1> QED  BY ONLY <1>1, <1>7, <1>8, <1>9, <1>10

-----------------------------------------------------------------------------
(* Where in p a piece stands: t, right after position at.                  *)
HoldsAt(p, at, t) ==
  /\ at + Len(t) <= Len(p)
  /\ \A i \in 1..Len(t) : p[at + i] = t[i]

LEMMA HoldsWhole == ASSUME NEW p \in Bytes PROVE HoldsAt(p, 0, p)
BY LenProperties DEF HoldsAt, Bytes

(* A piece of two parts is the one and then the other.                     *)
LEMMA HoldsParts ==
  ASSUME NEW p \in Bytes, NEW at \in Nat, NEW s \in Bytes, NEW t \in Bytes,
         HoldsAt(p, at, s \o t)
  PROVE  /\ HoldsAt(p, at, s) /\ HoldsAt(p, at + Len(s), t)
         /\ at + Len(s) \in Nat /\ Len(s) \in Nat /\ Len(t) \in Nat
         /\ Len(s \o t) = Len(s) + Len(t) /\ s \o t \in Bytes
<1>1. /\ s \o t \in Bytes /\ Len(s) \in Nat /\ Len(t) \in Nat /\ Len(p) \in Nat
      /\ Len(s \o t) = Len(s) + Len(t)
      /\ \A i \in 1..Len(s) + Len(t) : (s \o t)[i] = IF i <= Len(s) THEN s[i] ELSE t[i - Len(s)]
  BY ConcatProperties, LenProperties DEF Bytes
<1>2. PICK m \in Nat, n \in Nat, k \in Nat : m = Len(s) /\ n = Len(t) /\ k = Len(p)
  BY <1>1
<1>3. at + m + n <= k /\ \A i \in 1..m + n : p[at + i] = (s \o t)[i]
  BY <1>1, <1>2 DEF HoldsAt
<1>4. ASSUME NEW i \in 1..m PROVE p[at + i] = s[i]
  <2>1. i \in 1..m + n /\ i <= m
    BY <1>2
  <2> QED  BY <1>1, <1>2, <1>3, <2>1
<1>5. ASSUME NEW i \in 1..n PROVE p[at + m + i] = t[i]
  <2>1. m + i \in 1..m + n /\ ~(m + i <= m) /\ (m + i) - m = i /\ at + (m + i) = at + m + i
    BY <1>2
  <2> QED  BY <1>1, <1>2, <1>3, <2>1
<1>6. at + m <= k /\ at + m \in Nat /\ at + m + n <= k
  BY <1>2, <1>3
<1> QED  BY <1>1, <1>2, <1>4, <1>5, <1>6 DEF HoldsAt

(* What is cut out at its place is the piece.                              *)
LEMMA HeldPiece ==
  ASSUME NEW p \in Bytes, NEW at \in Nat, NEW t \in Bytes, HoldsAt(p, at, t)
  PROVE  SubSeq(p, at + 1, at + Len(t)) = t
<1>1. PICK n \in Nat, k \in Nat : n = Len(t) /\ k = Len(p)
  BY LenProperties DEF Bytes
<1>2. /\ at + n <= k /\ \A i \in 1..n : p[at + i] = t[i]
      /\ \A i \in 1..k : p[i] \in Byte
  BY <1>1, LenProperties DEF HoldsAt, Bytes
<1>3. PICK u : u = SubSeq(p, at + 1, at + n)
  OBVIOUS
<1>4. \A i \in (at + 1)..(at + n) : p[i] \in Byte
  BY <1>1, <1>2
<1>5. /\ u \in Seq(Byte)
      /\ Len(u) = IF at + 1 <= at + n THEN (at + n) - (at + 1) + 1 ELSE 0
      /\ \A i \in 1..(at + n) - (at + 1) + 1 : u[i] = p[(at + 1) + i - 1]
  BY <1>1, <1>3, <1>4, SubSeqProperties
<1>6. Len(u) = n /\ \A i \in 1..n : i \in 1..(at + n) - (at + 1) + 1 /\ (at + 1) + i - 1 = at + i
  BY <1>1, <1>5
<1>7. \A i \in 1..n : u[i] = t[i]
  BY <1>2, <1>5, <1>6
<1> QED  BY <1>1, <1>3, <1>5, <1>6, <1>7, SeqEqual DEF Bytes

(* A number that stands somewhere is read there.                           *)
LEMMA HeldWord ==
  ASSUME BaseOK, NEW p \in Bytes, NEW at \in Nat, NEW n \in Word, HoldsAt(p, at, Net4(n))
  PROVE  Value4(p, at) = n
<1>1. PICK w \in Bytes : w = Net4(n)
  BY FourBytes
<1>2. Len(w) = 4 /\ w[4] + Base * (w[3] + Base * (w[2] + Base * w[1])) = n
  BY <1>1, FourBytes
<1>3. p[at + 1] = w[1] /\ p[at + 2] = w[2] /\ p[at + 3] = w[3] /\ p[at + 4] = w[4]
  <2>1. \A i \in 1..4 : p[at + i] = w[i]
    BY <1>1, <1>2 DEF HoldsAt
  <2> QED  BY <2>1
<1> QED  BY <1>2, <1>3 DEF Value4

LEMMA HeldCount ==
  ASSUME BaseOK, NEW p \in Bytes, NEW at \in Nat, NEW n \in Nat, HoldsAt(p, at, Net2(n))
  PROVE  /\ Value2(p, at) = Net2(n)[2] + Base * Net2(n)[1]
         /\ Value2(p, at) \in 0..n /\ (n < Base * Base => Value2(p, at) = n)
<1>1. Value2(p, at) = Net2(n)[2] + Base * Net2(n)[1]
  <2>1. Len(Net2(n)) = 2
    BY TwoBytes
  <2>2. p[at + 1] = Net2(n)[1] /\ p[at + 2] = Net2(n)[2]
    BY <2>1 DEF HoldsAt
  <2> QED  BY <2>2 DEF Value2
<1> QED  BY <1>1, TwoBytes

(* A text without NUL that ends in one is found whole.                     *)
Clean(t) == \A i \in 1..Len(t) : t[i] # 0

LEMMA HeldText ==
  ASSUME NEW p \in Bytes, NEW at \in Nat, NEW t \in Bytes, Clean(t),
         HoldsAt(p, at, t), HoldsAt(p, at + Len(t), << 0 >>)
  PROVE  /\ NextNul(p, at) = at + Len(t) + 1 /\ PastNul(p, at) = at + Len(t) + 1
         /\ Text(p, at) = t /\ at + Len(t) + 1 <= Len(p)
<1>1. PICK n \in Nat, k \in Nat : n = Len(t) /\ k = Len(p)
  BY LenProperties DEF Bytes
<1>2. /\ at + n + 1 <= k /\ p[at + n + 1] = 0 /\ \A i \in 1..n : p[at + i] # 0
  BY <1>1 DEF HoldsAt, Clean
<1>3. PICK nul : nul = {i \in at + 1..k : p[i] = 0} \cup {k + 1}
  OBVIOUS
<1>4. at + n + 1 \in nul
  BY <1>1, <1>2, <1>3
<1>5. ASSUME NEW i \in nul PROVE i \in Nat /\ at + n + 1 <= i
  <2>1. CASE i = k + 1
    BY <1>1, <1>2, <2>1
  <2>2. CASE i \in at + 1..k /\ p[i] = 0
    <3>1. PICK j \in Nat : j >= 1 /\ at + j = i
      <4>1. i \in Nat /\ i >= at + 1
        BY <1>1, <2>2
      <4>2. i - at \in Nat /\ i - at >= 1 /\ at + (i - at) = i
        BY <4>1
      <4> QED  BY <4>2
    <3>2. j \notin 1..n
      BY <1>2, <2>2, <3>1
    <3> QED  BY <1>1, <3>1, <3>2
  <2> QED  BY <1>3, <2>1, <2>2
<1>6. Min(nul) = at + n + 1
  <2>1. \E x \in nul : \A y \in nul : x <= y
    BY <1>4, <1>5
  <2>2. Min(nul) \in nul /\ \A y \in nul : Min(nul) <= y
    BY ONLY <2>1 DEF Min
  <2>3. PICK x : x = Min(nul)
    OBVIOUS
  <2>4. x \in Nat /\ x <= at + n + 1 /\ at + n + 1 <= x
    BY <1>4, <1>5, <2>2, <2>3
  <2> QED  BY <1>1, <2>3, <2>4
<1>7. NextNul(p, at) = at + n + 1
  BY <1>1, <1>3, <1>6 DEF NextNul
<1>8. PastNul(p, at) = at + n + 1
  <2>1. PICK x \in Nat, y \in Nat : x = at + n + 1 /\ y = k
    BY <1>1
  <2>2. x <= y /\ \E v \in {x, y} : \A w \in {x, y} : v <= w
    BY <1>2, <2>1
  <2>3. Min({x, y}) \in {x, y} /\ \A w \in {x, y} : Min({x, y}) <= w
    BY ONLY <2>2 DEF Min
  <2>4. Min({x, y}) = x
    BY <2>2, <2>3
  <2> QED  BY <1>1, <1>7, <2>1, <2>4 DEF PastNul
<1>9. Text(p, at) = t
  <2>1. (at + n + 1) - 1 = at + n
    BY <1>1
  <2>2. Text(p, at) = SubSeq(p, at + 1, at + n)
    BY <1>7, <2>1 DEF Text
  <2>3. SubSeq(p, at + 1, at + Len(t)) = t
    BY HeldPiece
  <2> QED  BY <1>1, <2>2, <2>3
<1>10. at + n + 1 <= Len(p)
  BY <1>1, <1>2
<1> QED  BY <1>1, <1>7, <1>8, <1>9, <1>10, Zenon

-----------------------------------------------------------------------------
LEMMA OneByte ==
  ASSUME BaseOK
  PROVE  /\ 0 \in Byte /\ 1 \in Byte
         /\ \A x \in Byte : <<x>> \in Bytes /\ Len(<<x>>) = 1 /\ <<x>>[1] = x
         /\ \A p, at, x : HoldsAt(p, at, <<x>>) => p[at + 1] = x
BY DEF BaseOK, Byte, Bytes, HoldsAt

LEMMA Joined ==
  ASSUME NEW s \in Bytes, NEW t \in Bytes
  PROVE  /\ s \o t \in Bytes /\ Len(s) \in Nat /\ Len(t) \in Nat
         /\ Len(s \o t) = Len(s) + Len(t)
BY ConcatProperties, LenProperties DEF Bytes

(* A text cut in two.                                                      *)
LEMMA CutInTwo ==
  ASSUME NEW w \in Bytes, NEW v \in 0..Len(w)
  PROVE  LET a == SubSeq(w, 1, v)
             b == SubSeq(w, v + 1, Len(w))
         IN /\ a \in Bytes /\ b \in Bytes /\ a \o b = w
            /\ Len(a) = v /\ \A i \in 1..v : a[i] = w[i]
            /\ Len(b) = Len(w) - v /\ \A i \in 1..Len(w) - v : b[i] = w[v + i]
<1>1. PICK n \in Nat : n = Len(w)
  BY LenProperties DEF Bytes
<1>2. \A i \in 1..n : w[i] \in Byte
  BY <1>1, LenProperties DEF Bytes
<1>3. v \in Nat /\ v <= n
  BY <1>1
<1>4. PICK a, b : a = SubSeq(w, 1, v) /\ b = SubSeq(w, v + 1, n)
  OBVIOUS
<1>5. a \in Seq(Byte) /\ Len(a) = v /\ \A i \in 1..v : a[i] = w[i]
  <2>1. \A i \in 1..v : w[i] \in Byte
    BY <1>2, <1>3
  <2>2. /\ a \in Seq(Byte) /\ Len(a) = (IF 1 <= v THEN v - 1 + 1 ELSE 0)
        /\ \A i \in 1..v - 1 + 1 : a[i] = w[1 + i - 1]
    BY <1>3, <1>4, <2>1, SubSeqProperties
  <2>3. \A i \in 1..v : i \in 1..v - 1 + 1 /\ 1 + i - 1 = i
    BY <1>3
  <2> QED  BY <1>3, <2>2, <2>3
<1>6. b \in Seq(Byte) /\ Len(b) = n - v /\ \A i \in 1..n - v : b[i] = w[v + i]
  <2>1. \A i \in v + 1..n : w[i] \in Byte
    BY <1>2, <1>3
  <2>2. /\ b \in Seq(Byte) /\ Len(b) = (IF v + 1 <= n THEN n - (v + 1) + 1 ELSE 0)
        /\ \A i \in 1..n - (v + 1) + 1 : b[i] = w[(v + 1) + i - 1]
    BY <1>1, <1>3, <1>4, <2>1, SubSeqProperties
  <2>3. \A i \in 1..n - v : i \in 1..n - (v + 1) + 1 /\ (v + 1) + i - 1 = v + i
    BY <1>1, <1>3
  <2> QED  BY <1>1, <1>3, <2>2, <2>3
<1>7. a \o b = w
  <2>1. /\ a \o b \in Seq(Byte) /\ Len(a \o b) = n
        /\ \A i \in 1..n : (a \o b)[i] = IF i <= v THEN a[i] ELSE b[i - v]
    <3>1. v + (n - v) = n
      BY <1>1, <1>3
    <3> QED  BY <1>5, <1>6, <3>1, ConcatProperties
  <2>2. ASSUME NEW i \in 1..n PROVE (a \o b)[i] = w[i]
    <3>1. CASE i <= v
      BY <1>3, <1>5, <2>1, <3>1
    <3>2. CASE ~(i <= v)
      <4>1. i - v \in 1..n - v /\ v + (i - v) = i
        BY <1>1, <1>3, <3>2
      <4> QED  BY <1>6, <2>1, <3>2, <4>1
    <3> QED  BY <3>1, <3>2
  <2> QED  BY <1>1, <2>1, <2>2, SeqEqual DEF Bytes
<1> QED  BY <1>1, <1>4, <1>5, <1>6, <1>7 DEF Bytes

(* POST / to the master: no byte of the tags and the text is lost; tags    *)
(* that fit their 16 bits stay apart from the text.                        *)
TrainRead(e, f, tags, text) ==
  \E a \in Bytes, b \in Bytes :
    /\ e = [kind |-> "train", flag |-> f, tags |-> a, text |-> b]
    /\ a \o b = tags \o text
    /\ Len(tags) < Base * Base => a = tags /\ b = text

LEMMA TrainArrives ==
  ASSUME BaseOK, NEW f \in {0, 1}, NEW tags \in Bytes, NEW text \in Bytes, Clean(tags),
         NEW d, d = <<f>> \o Net2(Len(tags)) \o tags \o text
  PROVE  TrainRead(UnpackTrain(RepackTrain(d)), f, tags, text)
<1>1. PICK n \in Nat, m \in Nat : n = Len(tags) /\ m = Len(text)
  BY LenProperties DEF Bytes
<1>2. PICK w : w = tags \o text
  OBVIOUS
<1>3. /\ w \in Bytes /\ Len(w) = n + m
      /\ \A i \in 1..n : w[i] = tags[i]
      /\ \A i \in 1..m : w[n + i] = text[i]
  <2>1. /\ w \in Bytes /\ Len(w) = n + m
        /\ \A i \in 1..n + m : w[i] = IF i <= n THEN tags[i] ELSE text[i - n]
    BY <1>1, <1>2, ConcatProperties DEF Bytes
  <2>2. \A i \in 1..n : i \in 1..n + m /\ i <= n
    BY <1>1
  <2>3. \A i \in 1..m : n + i \in 1..n + m /\ ~(n + i <= n) /\ (n + i) - n = i
    BY <1>1
  <2> QED  BY <2>1, <2>2, <2>3
<1>4. f \in Byte /\ <<f>> \in Bytes /\ Len(<<f>>) = 1 /\ <<0>> \in Bytes /\ Len(<<0>>) = 1
  BY OneByte
<1>5. Net2(n) \in Bytes /\ Len(Net2(n)) = 2
  BY TwoBytes
<1>6. PICK h : h = <<f>> \o Net2(n)
  OBVIOUS
<1>7. h \in Bytes /\ Len(h) = 3
  <2>1. PICK s \in Bytes, t \in Bytes : s = <<f>> /\ t = Net2(n)
    BY <1>4, <1>5
  <2>2. s \o t \in Bytes /\ Len(s \o t) = Len(s) + Len(t)
    BY Joined
  <2>3. Len(s) = 1 /\ Len(t) = 2 /\ h = s \o t
    BY <1>4, <1>5, <1>6, <2>1
  <2> QED  BY <2>2, <2>3
<1>8. d = h \o w
  <2>1. (h \o tags) \o text = h \o (tags \o text)
    BY <1>7, ConcatAssociative DEF Bytes
  <2> QED  BY <1>1, <1>2, <1>6, <2>1
<1>9. d \in Bytes /\ Len(d) = 3 + (n + m) /\ HoldsAt(d, 0, h \o w)
  <2>1. d \in Bytes /\ Len(d) = Len(h) + Len(w)
    BY <1>3, <1>7, <1>8, Joined
  <2> QED  BY <1>3, <1>7, <1>8, <2>1, HoldsWhole
<1>10. HoldsAt(d, 0, h) /\ HoldsAt(d, 0 + Len(h), w)
  BY <1>3, <1>7, <1>9, HoldsParts
<1>11. HoldsAt(d, 0, <<f>>) /\ HoldsAt(d, 0 + Len(<<f>>), Net2(n))
  BY <1>4, <1>5, <1>6, <1>9, <1>10, HoldsParts
<1>12. d[1] = f /\ HoldsAt(d, 1, Net2(n)) /\ HoldsAt(d, 3, w)
  <2>1. 0 + Len(h) = 3 /\ 0 + Len(<<f>>) = 1
    BY <1>4, <1>7
  <2>2. d[1] = f
    BY <1>4, <1>11 DEF HoldsAt
  <2> QED  BY <1>10, <1>11, <2>1, <2>2
<1>13. PICK v \in 0..n : v = Value2(d, 1) /\ (n < Base * Base => v = n)
  BY <1>9, <1>12, HeldCount
<1>rest. PICK k \in Nat : k = (n + m) - v
  BY <1>13
<1>14. PICK a \in Bytes, b \in Bytes :
         /\ a \o b = w /\ Len(a) = v /\ Len(b) = k
         /\ \A i \in 1..v : a[i] = w[i]
         /\ \A i \in 1..k : b[i] = w[v + i]
  <2>1. v \in 0..Len(w)
    BY <1>1, <1>3
  <2>2. PICK x, y : x = SubSeq(w, 1, v) /\ y = SubSeq(w, v + 1, Len(w))
    OBVIOUS
  <2>3. /\ x \in Bytes /\ y \in Bytes /\ x \o y = w
        /\ Len(x) = v /\ \A i \in 1..v : x[i] = w[i]
        /\ Len(y) = Len(w) - v /\ \A i \in 1..Len(w) - v : y[i] = w[v + i]
    BY <1>3, <2>1, <2>2, CutInTwo
  <2>4. Len(w) - v = k
    BY <1>3, <1>rest
  <2> HIDE DEF Bytes
  <2> QED  BY ONLY <2>3, <2>4
<1>15. v \in Nat /\ v <= n
  BY <1>13
<1>16. Clean(a)
  BY <1>1, <1>3, <1>14, <1>15 DEF Clean
<1>17. SubSeq(d, 4, 3 + v) = a /\ SubSeq(d, 4 + v, Len(d)) = b
  <2>1. HoldsAt(d, 3, a \o b)
    BY <1>12, <1>14
  <2>2. HoldsAt(d, 3, a) /\ HoldsAt(d, 3 + Len(a), b)
    BY <1>9, <2>1, HoldsParts
  <2>3. SubSeq(d, 3 + 1, 3 + Len(a)) = a
    BY <1>9, <2>2, HeldPiece
  <2>4. 3 + v \in Nat
    BY <1>15
  <2>5. SubSeq(d, (3 + v) + 1, (3 + v) + Len(b)) = b
    BY <1>9, <1>14, <2>2, <2>4, HeldPiece
  <2>6. 3 + 1 = 4 /\ (3 + v) + 1 = 4 + v /\ (3 + v) + Len(b) = Len(d)
    <3>1. PICK z \in Nat : z = n + m /\ v <= z /\ Len(b) = z - v /\ Len(d) = 3 + z
      BY <1>1, <1>9, <1>rest, <1>14, <1>15
    <3> QED  BY ONLY <3>1, <1>15
  <2> QED  BY <1>14, <2>3, <2>5, <2>6
<1>18. PICK r1, r2, r : /\ r1 = <<f>> \o a /\ r2 = r1 \o <<0>> /\ r = r2 \o b
                        /\ r = RepackTrain(d)
  <2>1. ~(Len(d) < 3)
    BY <1>1, <1>9
  <2> QED  BY <1>12, <1>13, <1>17, <2>1 DEF RepackTrain
<1>19. /\ r1 \in Bytes /\ r2 \in Bytes /\ r \in Bytes
       /\ Len(r1) = 1 + v /\ Len(r2) = v + 2
       /\ Len(r) = (v + 2) + Len(b) /\ Len(b) \in Nat
  <2>1. r1 \in Bytes /\ Len(r1) = 1 + v
    BY <1>4, <1>14, <1>18, Joined
  <2>2. r2 \in Bytes /\ Len(r2) = (1 + v) + 1
    <3>1. r1 \o <<0>> \in Bytes /\ Len(r1 \o <<0>>) = Len(r1) + Len(<<0>>)
      BY <1>4, <2>1, Joined
    <3> QED  BY <1>4, <1>18, <2>1, <3>1
  <2>3. r \in Bytes /\ Len(r) = ((1 + v) + 1) + Len(b) /\ Len(b) \in Nat
    BY <1>18, <2>2, Joined
  <2>4. (1 + v) + 1 = v + 2
    BY <1>15
  <2> QED  BY <2>1, <2>2, <2>3, <2>4
<1>20. HoldsAt(r, 0, r2) /\ HoldsAt(r, 0 + Len(r2), b)
  <2>1. HoldsAt(r, 0, r2 \o b)
    BY <1>18, <1>19, HoldsWhole
  <2> QED  BY <1>19, <2>1, HoldsParts
<1>21. HoldsAt(r, 0, r1) /\ HoldsAt(r, 0 + Len(r1), <<0>>)
  <2>1. HoldsAt(r, 0, r1 \o <<0>>)
    BY <1>18, <1>20
  <2> QED  BY <1>4, <1>19, <2>1, HoldsParts
<1>22. HoldsAt(r, 0, <<f>>) /\ HoldsAt(r, 0 + Len(<<f>>), a)
  <2>1. HoldsAt(r, 0, <<f>> \o a)
    BY <1>18, <1>21
  <2> QED  BY <1>4, <1>19, <2>1, HoldsParts
<1>23. r[1] = f /\ HoldsAt(r, 1, a) /\ HoldsAt(r, 1 + Len(a), <<0>>) /\ HoldsAt(r, v + 2, b)
  <2>1. 0 + Len(<<f>>) = 1 /\ 0 + Len(r1) = 1 + Len(a) /\ 0 + Len(r2) = v + 2 /\ 0 + 1 = 1
    BY <1>4, <1>14, <1>15, <1>19
  <2>2. r[0 + 1] = f
    BY <1>22, OneByte
  <2> QED  BY <1>14, <1>20, <1>21, <1>22, <2>1, <2>2
<1>24. NextNul(r, 1) = v + 2 /\ v + 2 <= Len(r) /\ Text(r, 1) = a
  <2>1. NextNul(r, 1) = 1 + Len(a) + 1 /\ 1 + Len(a) + 1 <= Len(r) /\ Text(r, 1) = a
    BY <1>16, <1>19, <1>23, HeldText
  <2> QED  BY <1>14, <1>15, <2>1
<1>25. SubSeq(r, (v + 2) + 1, Len(r)) = b
  <2>1. v + 2 \in Nat /\ (v + 2) + Len(b) = Len(r)
    BY <1>15, <1>19
  <2> QED  BY <1>19, <1>23, <2>1, HeldPiece
<1>26. Min({r[1], 1}) = f
  <2>1. \E x \in {f, 1} : \A y \in {f, 1} : x <= y
    OBVIOUS
  <2>2. Min({f, 1}) \in {f, 1} /\ \A y \in {f, 1} : Min({f, 1}) <= y
    BY ONLY <2>1 DEF Min
  <2> QED  BY <1>23, <2>2
<1>27. r # <<>> /\ ~(NextNul(r, 1) > Len(r))
  <2>1. Len(r) \in Nat /\ Len(r) > 0
    BY <1>15, <1>19
  <2>2. r # <<>>
    BY <2>1
  <2> QED  BY <1>15, <1>24, <2>1, <2>2
<1>28. UnpackTrain(RepackTrain(d)) = [kind |-> "train", flag |-> f, tags |-> a, text |-> b]
  BY <1>18, <1>24, <1>25, <1>26, <1>27 DEF UnpackTrain
<1>29. ASSUME n < Base * Base PROVE a = tags /\ b = text
  <2>1. v = n /\ k = m
    BY <1>13, <1>rest, <1>29
  <2>2. a = tags
    BY <1>1, <1>3, <1>14, <2>1, SeqEqual DEF Bytes
  <2>3. b = text
    BY <1>1, <1>3, <1>14, <2>1, SeqEqual DEF Bytes
  <2> QED  BY <2>2, <2>3
<1> QED  BY <1>1, <1>2, <1>14, <1>28, <1>29 DEF TrainRead

(* POST /get_table to the master, through the worker's repacking.          *)
LEMMA TableArrives ==
  ASSUME BaseOK, NEW j \in [kind : {"table"}, table : Bytes, filter : Bytes,
                            offset : Word, limit : Word],
         Clean(j.table), Clean(j.filter)
  PROVE  UnpackTable(PackTable(j)) = j
<1>1. PICK t \in Bytes, f \in Bytes, x \in Word, y \in Word :
        /\ t = j.table /\ f = j.filter /\ x = j.offset /\ y = j.limit
        /\ j = [kind |-> "table", table |-> t, filter |-> f, offset |-> x, limit |-> y]
  OBVIOUS
<1>2. PICK n \in Nat, m \in Nat : n = Len(t) /\ m = Len(f)
  BY LenProperties DEF Bytes
<1>3. <<0>> \in Bytes /\ Len(<<0>>) = 1
  BY OneByte
<1>4. Net4(x) \in Bytes /\ Net4(y) \in Bytes /\ Len(Net4(x)) = 4 /\ Len(Net4(y)) = 4
  BY FourBytes
<1>5. PICK p1, p2, p3, p4, p : /\ p1 = t \o <<0>> /\ p2 = p1 \o f /\ p3 = p2 \o <<0>>
                               /\ p4 = p3 \o Net4(x) /\ p = p4 \o Net4(y)
  OBVIOUS
<1>6. PackTable(j) = p
  BY <1>1, <1>5 DEF PackTable
<1>7. /\ p1 \in Bytes /\ p2 \in Bytes /\ p3 \in Bytes /\ p4 \in Bytes /\ p \in Bytes
      /\ Len(p1) = n + 1 /\ Len(p2) = n + 1 + m /\ Len(p3) = n + 1 + m + 1
      /\ Len(p4) = n + 1 + m + 1 + 4 /\ Len(p) = n + 1 + m + 1 + 4 + 4
  <2>1. p1 \in Bytes /\ Len(p1) = n + 1
    BY <1>2, <1>3, <1>5, Joined
  <2>2. p2 \in Bytes /\ Len(p2) = n + 1 + m
    <3>1. p1 \o f \in Bytes /\ Len(p1 \o f) = Len(p1) + Len(f)
      BY <2>1, Joined
    <3> QED  BY <1>2, <1>5, <2>1, <3>1
  <2>3. p3 \in Bytes /\ Len(p3) = n + 1 + m + 1
    <3>1. p2 \o <<0>> \in Bytes /\ Len(p2 \o <<0>>) = Len(p2) + Len(<<0>>)
      BY <1>3, <2>2, Joined
    <3> QED  BY <1>2, <1>5, <1>3, <2>2, <3>1
  <2>4. p4 \in Bytes /\ Len(p4) = n + 1 + m + 1 + 4
    <3>1. p3 \o Net4(x) \in Bytes /\ Len(p3 \o Net4(x)) = Len(p3) + Len(Net4(x))
      BY <1>4, <2>3, Joined
    <3> QED  BY <1>2, <1>5, <1>4, <2>3, <3>1
  <2>5. p \in Bytes /\ Len(p) = n + 1 + m + 1 + 4 + 4
    <3>1. p4 \o Net4(y) \in Bytes /\ Len(p4 \o Net4(y)) = Len(p4) + Len(Net4(y))
      BY <1>4, <2>4, Joined
    <3> QED  BY <1>2, <1>5, <1>4, <2>4, <3>1
  <2> QED  BY <2>1, <2>2, <2>3, <2>4, <2>5
<1>8. HoldsAt(p, 0, p4) /\ HoldsAt(p, 0 + Len(p4), Net4(y))
  BY <1>4, <1>5, <1>7, HoldsWhole, HoldsParts
<1>9. HoldsAt(p, 0, p3) /\ HoldsAt(p, 0 + Len(p3), Net4(x))
  BY <1>4, <1>5, <1>7, <1>8, HoldsParts
<1>10. HoldsAt(p, 0, p2) /\ HoldsAt(p, 0 + Len(p2), <<0>>)
  BY <1>3, <1>5, <1>7, <1>9, HoldsParts
<1>11. HoldsAt(p, 0, p1) /\ HoldsAt(p, 0 + Len(p1), f)
  BY <1>5, <1>7, <1>10, HoldsParts
<1>12. HoldsAt(p, 0, t) /\ HoldsAt(p, 0 + Len(t), <<0>>)
  BY <1>3, <1>5, <1>7, <1>11, HoldsParts
<1>13. Text(p, 0) = t /\ PastNul(p, 0) = n + 1
  <2>1. Text(p, 0) = t /\ PastNul(p, 0) = 0 + Len(t) + 1
    BY <1>1, <1>7, <1>12, HeldText
  <2> QED  BY <1>2, <2>1
<1>14. PICK one \in Nat, two \in Nat : one = n + 1 /\ two = one + m + 1
  BY <1>2
<1>15. Text(p, one) = f /\ PastNul(p, one) = two
  <2>1. 0 + Len(p1) = one /\ 0 + Len(p2) = one + Len(f)
    BY <1>2, <1>7, <1>14
  <2>2. HoldsAt(p, one, f) /\ HoldsAt(p, one + Len(f), <<0>>)
    BY <1>10, <1>11, <2>1
  <2>3. Clean(f)
    BY <1>1
  <2>4. Text(p, one) = f /\ PastNul(p, one) = one + Len(f) + 1
    BY <1>7, <1>14, <2>2, <2>3, HeldText
  <2> QED  BY <1>2, <1>14, <2>4
<1>16. two + 8 <= Len(p) /\ Value4(p, two) = x /\ Value4(p, two + 4) = y
  <2>1. 0 + Len(p3) = two /\ 0 + Len(p4) = two + 4 /\ two + 8 = Len(p) /\ two + 4 \in Nat
    BY <1>2, <1>7, <1>14
  <2>2. HoldsAt(p, two, Net4(x)) /\ HoldsAt(p, two + 4, Net4(y))
    BY <1>8, <1>9, <2>1
  <2>3. Value4(p, two) = x
    BY <1>7, <2>2, HeldWord
  <2>4. Value4(p, two + 4) = y
    BY <1>7, <2>1, <2>2, HeldWord
  <2> QED  BY <2>1, <2>3, <2>4
<1>17. UnpackTable(p) = [kind |-> "table", table |-> t, filter |-> f, offset |-> x, limit |-> y]
  BY <1>13, <1>14, <1>15, <1>16 DEF UnpackTable
<1> QED  BY <1>1, <1>6, <1>17

-----------------------------------------------------------------------------
(* The reader of a container: where it is, and what it has read last.      *)
Item   == SourceShape \cup EventShape
Reader == [at : Nat, ok : BOOLEAN, text : Bytes, byte : Byte, list : Seq(Item)]

(* Reading so far has gone well, and stands before s.                      *)
Before(p, r, s) == r \in Reader /\ r.ok /\ HoldsAt(p, r.at, s)

(* r2 has read s after r, and nothing that r had listed has changed.       *)
HasRead(r, r2, s) ==
  r2 \in Reader /\ r2.ok /\ r2.at = r.at + Len(s)

LEMMA ReadFieldStays ==
  ASSUME BaseOK, NEW p \in Bytes, NEW r \in Reader
  PROVE  ReadField(p, r) \in Reader
<1>1. CASE r.ok /\ r.at + 4 <= Len(p) /\ r.at + 4 + Value4(p, r.at) <= Len(p)
  <2>v. PICK v : v = Value4(p, r.at)
    OBVIOUS
  <2>1. PICK at \in Nat, k \in Nat : at = r.at /\ k = Len(p) /\ v = Value4(p, at)
    BY <2>v, LenProperties DEF Bytes, Reader
  <2>2. at + 4 <= k /\ at + 4 + v <= k /\ \A i \in 1..k : p[i] \in Byte
    BY <1>1, <2>1, LenProperties DEF Bytes
  <2>3. v \in Nat
    <3>1. at + 1 \in 1..k /\ at + 2 \in 1..k /\ at + 3 \in 1..k /\ at + 4 \in 1..k
      BY <2>1, <2>2
    <3>2. PICK a, b, c, d \in Nat : a = p[at + 1] /\ b = p[at + 2] /\ c = p[at + 3] /\ d = p[at + 4]
      BY <2>2, <3>1 DEF Byte
    <3>3. v = d + Base * (c + Base * (b + Base * a))
      BY <2>1, <3>2 DEF Value4
    <3>4. b + Base * a \in Nat
      BY <3>2 DEF BaseOK
    <3>5. c + Base * (b + Base * a) \in Nat
      BY <3>2, <3>4 DEF BaseOK
    <3> QED  BY <3>2, <3>3, <3>5 DEF BaseOK
  <2>4. SubSeq(p, at + 5, at + 4 + v) \in Bytes
    <3>1. \A i \in (at + 5)..(at + 4 + v) : p[i] \in Byte
      BY <2>1, <2>2, <2>3
    <3>2. at + 5 \in Int /\ at + 4 + v \in Int
      BY <2>1, <2>3
    <3> QED  BY <3>1, <3>2, SubSeqProperties DEF Bytes
  <2>5. ReadField(p, r) = [r EXCEPT !.at = @ + (4 + v), !.text = SubSeq(p, at + 5, at + 4 + v)]
    BY <1>1, <2>1 DEF ReadField, Skip, Reader
  <2>6. at + (4 + v) \in Nat
    BY <2>1, <2>3
  <2> QED  BY <2>1, <2>4, <2>5, <2>6 DEF Reader
<1>2. CASE ~(r.ok /\ r.at + 4 <= Len(p) /\ r.at + 4 + Value4(p, r.at) <= Len(p))
  BY <1>2 DEF ReadField, Reader
<1> QED  BY <1>1, <1>2

LEMMA ReadByteStays ==
  ASSUME NEW p \in Bytes, NEW r \in Reader
  PROVE  ReadByte(p, r) \in Reader
<1>1. CASE r.ok /\ r.at < Len(p)
  <2>1. PICK at \in Nat, k \in Nat : at = r.at /\ k = Len(p) /\ \A i \in 1..k : p[i] \in Byte
    BY LenProperties DEF Bytes, Reader
  <2>2. at + 1 \in Nat /\ p[at + 1] \in Byte
    BY <1>1, <2>1
  <2>3. ReadByte(p, r) = [r EXCEPT !.at = @ + 1, !.byte = p[at + 1]]
    BY <1>1, <2>1 DEF ReadByte, Skip, Reader
  <2> QED  BY <2>1, <2>2, <2>3 DEF Reader
<1>2. CASE ~(r.ok /\ r.at < Len(p))
  BY <1>2 DEF ReadByte, Reader
<1> QED  BY <1>1, <1>2

LEMMA FourAreBytes ==
  ASSUME BaseOK, NEW n \in Nat
  PROVE  Net4(n) \in Bytes /\ Len(Net4(n)) = 4
<1>1. PICK b \in Nat : b = Base /\ b >= 2 /\ b >= 1
  BY DEF BaseOK
<1>2. \A m \in Nat : m % b \in Byte /\ m \div b \in Nat
  BY <1>1, Dividing DEF Byte
<1>3. PICK c \in Nat, d \in Nat : c = b * b /\ d = b * b * b /\ c >= 2 /\ d >= 2
  <2>1. b * b \in Nat /\ b * b >= b * 1
    BY <1>1
  <2>2. (b * b) * b \in Nat /\ (b * b) * b >= 2 * b
    BY <1>1, <2>1
  <2> QED  BY <1>1, <2>1, <2>2
<1>4. n \div c \in Nat /\ n \div d \in Nat
  BY <1>3, Dividing
<1>5. /\ (n \div d) % b \in Byte /\ (n \div c) % b \in Byte
      /\ (n \div b) % b \in Byte /\ n % b \in Byte
  BY <1>2, <1>4
<1>6. Net4(n) = <<(n \div d) % b, (n \div c) % b, (n \div b) % b, n % b>>
  BY <1>1, <1>3 DEF Net4
<1>7. PICK w, x, y, z : /\ w = (n \div d) % b /\ x = (n \div c) % b
                        /\ y = (n \div b) % b /\ z = n % b
  OBVIOUS
<1>8. /\ w \in Byte /\ x \in Byte /\ y \in Byte /\ z \in Byte
      /\ Net4(n) = <<w, x, y, z>>
  BY <1>5, <1>6, <1>7
<1> QED  BY ONLY <1>8 DEF Bytes

LEMMA FieldIs ==
  ASSUME BaseOK, NEW t \in Bytes
  PROVE  Field(t) \in Bytes /\ Len(t) \in Nat /\ Len(Field(t)) = 4 + Len(t)
<1>1. Len(t) \in Nat
  BY LenProperties DEF Bytes
<1>2. Net4(Len(t)) \in Bytes /\ Len(Net4(Len(t))) = 4
  BY <1>1, FourAreBytes
<1> QED  BY <1>1, <1>2, Joined DEF Field

LEMMA ReadFieldAt ==
  ASSUME BaseOK, NEW p \in Bytes, Len(p) \in Word, NEW r, NEW t \in Bytes, Before(p, r, Field(t)),
         NEW r2, r2 = ReadField(p, r)
  PROVE  HasRead(r, r2, Field(t)) /\ r2.text = t /\ r2.list = r.list /\ r2.byte = r.byte
<1>1. PICK at \in Nat, k \in Nat, n \in Nat : at = r.at /\ k = Len(p) /\ n = Len(t)
  BY LenProperties DEF Bytes, Reader, Before
<1>2. Net4(n) \in Bytes /\ Len(Net4(n)) = 4 /\ Len(Field(t)) = 4 + n /\ r \in Reader /\ r.ok
  BY <1>1, FourAreBytes, FieldIs DEF Before
<1>3. HoldsAt(p, at, Net4(n) \o t)
  BY <1>1 DEF Before, Field
<1>4. HoldsAt(p, at, Net4(n)) /\ HoldsAt(p, at + Len(Net4(n)), t)
  BY <1>2, <1>3, HoldsParts
<1>5. at + 4 + n <= k /\ HoldsAt(p, at + 4, t) /\ at + 4 \in Nat
  BY <1>1, <1>2, <1>4 DEF HoldsAt
<1>6. n \in Word
  <2>1. Base * Base \in Nat /\ Base * (Base * Base) \in Nat /\ Base * (Base * (Base * Base)) \in Nat
    BY DEF BaseOK
  <2>2. PICK top \in Nat : top = Base * (Base * (Base * Base))
    BY <2>1
  <2>3. Word = 0..top - 1 /\ k \in Word
    BY <1>1, <2>2 DEF Word
  <2>4. n <= k
    BY <1>1, <1>5
  <2> QED  BY <2>3, <2>4
<1>7. Value4(p, at) = n
  BY <1>4, <1>6, HeldWord
<1>8. SubSeq(p, at + 5, at + 4 + n) = t
  <2>1. SubSeq(p, (at + 4) + 1, (at + 4) + Len(t)) = t
    BY <1>5, HeldPiece
  <2>2. (at + 4) + 1 = at + 5
    OBVIOUS
  <2> QED  BY <1>1, <2>1, <2>2
<1>9. at + 4 <= k
  BY <1>5
<1>10. r2 = [r EXCEPT !.at = @ + (4 + n), !.text = t]
  BY <1>1, <1>2, <1>5, <1>7, <1>8, <1>9 DEF ReadField, Skip, Reader
<1>11. r2.ok /\ r2.at = at + (4 + n) /\ r2.text = t /\ r2.list = r.list /\ r2.byte = r.byte
  BY <1>1, <1>2, <1>10 DEF Reader
<1>12. r2 \in Reader
  BY <1>2, ReadFieldStays
<1> QED  BY <1>1, <1>2, <1>11, <1>12 DEF HasRead

LEMMA ReadByteAt ==
  ASSUME NEW p \in Bytes, NEW r, NEW x \in Byte, Before(p, r, <<x>>),
         NEW r2, r2 = ReadByte(p, r)
  PROVE  HasRead(r, r2, <<x>>) /\ r2.byte = x /\ r2.list = r.list /\ r2.text = r.text
<1>1. PICK at \in Nat, k \in Nat : at = r.at /\ k = Len(p)
  BY LenProperties DEF Bytes, Reader, Before
<1>2. Len(<<x>>) = 1 /\ at + 1 <= k /\ p[at + 1] = x /\ r \in Reader /\ r.ok
  BY <1>1 DEF Before, HoldsAt
<1>3. r2 = [r EXCEPT !.at = @ + 1, !.byte = x]
  BY <1>1, <1>2 DEF ReadByte, Skip, Reader
<1>4. r2.ok /\ r2.at = at + 1 /\ r2.byte = x /\ r2.list = r.list /\ r2.text = r.text
  BY <1>1, <1>2, <1>3 DEF Reader
<1>5. r2 \in Reader
  BY <1>2, ReadByteStays
<1> QED  BY <1>1, <1>2, <1>4, <1>5 DEF HasRead

(* Having read the first part, the reader stands before the second.        *)
LEMMA ReadsOn ==
  ASSUME NEW p \in Bytes, NEW s \in Bytes, NEW t \in Bytes, NEW r, Before(p, r, s \o t)
  PROVE  /\ Before(p, r, s)
         /\ \A r2 : HasRead(r, r2, s) => Before(p, r2, t)
         /\ \A r2, r3 : HasRead(r, r2, s) /\ HasRead(r2, r3, t) => HasRead(r, r3, s \o t)
<1>1. PICK at \in Nat : at = r.at /\ r \in Reader /\ r.ok /\ HoldsAt(p, at, s \o t)
  BY DEF Before, Reader
<1>2. /\ HoldsAt(p, at, s) /\ HoldsAt(p, at + Len(s), t) /\ Len(s) \in Nat /\ Len(t) \in Nat
      /\ Len(s \o t) = Len(s) + Len(t)
  BY <1>1, HoldsParts
<1>3. Before(p, r, s)
  BY <1>1, <1>2 DEF Before
<1>4. ASSUME NEW r2, HasRead(r, r2, s) PROVE Before(p, r2, t)
  BY <1>1, <1>2, <1>4 DEF Before, HasRead
<1>5. ASSUME NEW r2, NEW r3, HasRead(r, r2, s), HasRead(r2, r3, t) PROVE HasRead(r, r3, s \o t)
  BY <1>1, <1>2, <1>5 DEF HasRead
<1> QED  BY <1>3, <1>4, <1>5

-----------------------------------------------------------------------------
SourceBytes(s) == <<TypeOf(s.type)>> \o Field(s.text)
EventBytes(e)  == Field(e.event) \o Field(e.target) \o <<e.type>> \o Field(e.source)

LEMMA ReadSourceStays ==
  ASSUME BaseOK, NEW p \in Bytes, NEW r \in Reader
  PROVE  ReadSource(p, r) \in Reader
<1>1. PICK type \in Reader : type = ReadByte(p, r)
  BY ReadByteStays
<1>2. PICK text \in Reader : text = ReadField(p, type)
  BY ReadFieldStays
<1>3. PICK x : x = [type |-> TypeOf(type.byte), text |-> text.text]
  OBVIOUS
<1>4. x \in Item
  <2>1. TypeOf(type.byte) \in Byte
    BY OneByte DEF TypeOf, Reader
  <2> QED  BY <1>3, <2>1 DEF Item, SourceShape, Reader
<1>5. ReadSource(p, r) = IF text.ok THEN [text EXCEPT !.list = Append(@, x)] ELSE text
  BY <1>1, <1>2, <1>3 DEF ReadSource
<1>6. Append(text.list, x) \in Seq(Item)
  BY <1>4 DEF Reader
<1> QED  BY <1>5, <1>6 DEF Reader

LEMMA ReadEventStays ==
  ASSUME BaseOK, NEW p \in Bytes, NEW r \in Reader
  PROVE  ReadEvent(p, r) \in Reader
<1>1. PICK event \in Reader : event = ReadField(p, r)
  BY ReadFieldStays
<1>2. PICK target \in Reader : target = ReadField(p, event)
  BY ReadFieldStays
<1>3. PICK type \in Reader : type = ReadByte(p, target)
  BY ReadByteStays
<1>4. PICK source \in Reader : source = ReadField(p, type)
  BY ReadFieldStays
<1>5. PICK x : x = [event |-> event.text, target |-> target.text,
                    type |-> type.byte, source |-> source.text]
  OBVIOUS
<1>6. x \in Item
  BY <1>5 DEF Item, EventShape, Reader
<1>7. ReadEvent(p, r) = IF source.ok THEN [source EXCEPT !.list = Append(@, x)] ELSE source
  BY <1>1, <1>2, <1>3, <1>4, <1>5 DEF ReadEvent
<1>8. Append(source.list, x) \in Seq(Item)
  BY <1>6 DEF Reader
<1> QED  BY <1>7, <1>8 DEF Reader

(* A source and an event are read as they were written.                    *)
LEMMA ReadSourceAt ==
  ASSUME BaseOK, NEW p \in Bytes, Len(p) \in Word, NEW r, NEW s \in SourceShape, s.type # 0,
         Before(p, r, SourceBytes(s)), NEW r2, r2 = ReadSource(p, r)
  PROVE  HasRead(r, r2, SourceBytes(s)) /\ r2.list = Append(r.list, s)
<1>1. PICK x \in Byte, t \in Bytes : x = s.type /\ t = s.text /\ s = [type |-> x, text |-> t]
  BY DEF SourceShape
<1>2. SourceBytes(s) = <<x>> \o Field(t) /\ TypeOf(x) = x
  BY <1>1 DEF SourceBytes, TypeOf
<1>3. <<x>> \in Bytes /\ Field(t) \in Bytes
  BY OneByte, FieldIs
<1>4. PICK a, b : a = ReadByte(p, r) /\ b = ReadField(p, a)
  OBVIOUS
<1>5. Before(p, r, <<x>>)
  BY <1>2, <1>3, ReadsOn
<1>6. HasRead(r, a, <<x>>) /\ a.byte = x /\ a.list = r.list
  BY <1>4, <1>5, ReadByteAt
<1>7. Before(p, a, Field(t))
  BY <1>2, <1>3, <1>6, ReadsOn
<1>8. HasRead(a, b, Field(t)) /\ b.text = t /\ b.list = a.list
  BY <1>4, <1>7, ReadFieldAt
<1>9. HasRead(r, b, <<x>> \o Field(t))
  BY <1>2, <1>3, <1>6, <1>8, ReadsOn
<1>10. r2 = [b EXCEPT !.list = Append(@, s)]
  <2>1. b.ok
    BY <1>8 DEF HasRead
  <2> QED  BY <1>1, <1>2, <1>4, <1>6, <1>8, <2>1 DEF ReadSource
<1>11. b \in Reader /\ b.ok /\ r2.ok = b.ok /\ r2.at = b.at /\ r2.list = Append(b.list, s)
  BY <1>8, <1>10 DEF HasRead, Reader
<1>12. r2 \in Reader
  BY <1>5, ReadSourceStays DEF Before
<1> QED  BY <1>2, <1>6, <1>8, <1>9, <1>11, <1>12 DEF HasRead

LEMMA ReadEventAt ==
  ASSUME BaseOK, NEW p \in Bytes, Len(p) \in Word, NEW r, NEW e \in EventShape,
         Before(p, r, EventBytes(e)), NEW r2, r2 = ReadEvent(p, r)
  PROVE  HasRead(r, r2, EventBytes(e)) /\ r2.list = Append(r.list, e)
<1>1. PICK v \in Bytes, t \in Bytes, x \in Byte, s \in Bytes :
        /\ v = e.event /\ t = e.target /\ x = e.type /\ s = e.source
        /\ e = [event |-> v, target |-> t, type |-> x, source |-> s]
  BY DEF EventShape
<1>2. PICK f1, f2, f3, f4 : f1 = Field(v) /\ f2 = Field(t) /\ f3 = <<x>> /\ f4 = Field(s)
  OBVIOUS
<1>3. f1 \in Bytes /\ f2 \in Bytes /\ f3 \in Bytes /\ f4 \in Bytes
  BY <1>2, OneByte, FieldIs
<1>4. PICK g2, g3, g4 : g2 = f1 \o f2 /\ g3 = g2 \o f3 /\ g4 = g3 \o f4
  OBVIOUS
<1>5. g2 \in Bytes /\ g3 \in Bytes
  <2>1. g2 \in Bytes
    BY <1>3, <1>4, Joined
  <2> QED  BY <1>3, <1>4, <2>1, Joined
<1>6. EventBytes(e) = g4
  BY <1>1, <1>2, <1>4 DEF EventBytes
<1>7. PICK a, b, c, d : /\ a = ReadField(p, r) /\ b = ReadField(p, a)
                        /\ c = ReadByte(p, b) /\ d = ReadField(p, c)
  OBVIOUS
<1>8. Before(p, r, g3) /\ Before(p, r, g2) /\ Before(p, r, f1)
  <2>1. Before(p, r, g3 \o f4)
    BY <1>4, <1>6
  <2>2. Before(p, r, g3)
    BY <1>3, <1>5, <2>1, ReadsOn
  <2>3. Before(p, r, g2)
    BY <1>3, <1>4, <1>5, <2>2, ReadsOn
  <2>4. Before(p, r, f1)
    BY <1>3, <1>4, <2>3, ReadsOn
  <2> QED  BY <2>2, <2>3, <2>4
<1>9. HasRead(r, a, f1) /\ a.text = v /\ a.list = r.list
  BY <1>2, <1>7, <1>8, ReadFieldAt
<1>10. Before(p, a, f2)
  BY <1>3, <1>4, <1>8, <1>9, ReadsOn
<1>11. HasRead(a, b, f2) /\ b.text = t /\ b.list = a.list
  BY <1>2, <1>7, <1>10, ReadFieldAt
<1>12. HasRead(r, b, g2)
  BY <1>3, <1>4, <1>8, <1>9, <1>11, ReadsOn
<1>13. Before(p, b, f3)
  BY <1>3, <1>4, <1>5, <1>8, <1>12, ReadsOn
<1>14. HasRead(b, c, f3) /\ c.byte = x /\ c.list = b.list
  BY <1>2, <1>7, <1>13, ReadByteAt
<1>15. HasRead(r, c, g3)
  BY <1>3, <1>4, <1>5, <1>8, <1>12, <1>14, ReadsOn
<1>16. Before(p, c, f4)
  BY <1>3, <1>4, <1>5, <1>6, <1>15, ReadsOn
<1>17. HasRead(c, d, f4) /\ d.text = s /\ d.list = c.list
  BY <1>2, <1>7, <1>16, ReadFieldAt
<1>18. HasRead(r, d, g4)
  BY <1>3, <1>4, <1>5, <1>6, <1>15, <1>17, ReadsOn
<1>19. r2 = [d EXCEPT !.list = Append(@, e)]
  <2>1. d.ok
    BY <1>17 DEF HasRead
  <2> QED  BY <1>1, <1>7, <1>9, <1>11, <1>14, <1>17, <2>1 DEF ReadEvent
<1>20. d \in Reader /\ d.ok /\ r2.ok = d.ok /\ r2.at = d.at /\ r2.list = Append(d.list, e)
  BY <1>17, <1>19 DEF HasRead, Reader
<1>21. r2 \in Reader
  BY <1>8, ReadEventStays DEF Before
<1>22. r2.list = Append(r.list, e)
  BY <1>9, <1>11, <1>14, <1>17, <1>20
<1> QED  BY <1>6, <1>18, <1>20, <1>21, <1>22 DEF HasRead

-----------------------------------------------------------------------------
(* Step by step: step[k] reads items[k] where it stands as enc[k].         *)
ReadsItems(step, p, items, enc, n) ==
  \A k \in 1..n, r \in Reader : Before(p, r, enc[k]) =>
     HasRead(r, step[k][r], enc[k]) /\ step[k][r].list = Append(r.list, items[k])

Listed(r, items, n) == Len(r.list) = n /\ \A i \in 1..n : r.list[i] = items[i]

(* If each item is read as it was written, so is the list of them.         *)
LEMMA ListIsRead ==
  ASSUME NEW p \in Bytes, NEW n \in Nat, NEW items \in [1..n -> Item], NEW enc \in [1..n -> Bytes],
         NEW flat, Flattens(flat, Bytes, enc, n),
         NEW step, ReadsItems(step, p, items, enc, n),
         NEW from, Before(p, from, flat[n]), from.list = <<>>,
         NEW h, Repeats(h, Reader, from, n, step)
  PROVE  HasRead(from, h[n], flat[n]) /\ Listed(h[n], items, n)
<1>1. PICK at \in Nat : at = from.at /\ from \in Reader /\ from.ok
  BY DEF Before, Reader
<1>2. flat[0] = <<>> /\ \A k \in 0..n : flat[k] \in Bytes
  BY DEF Flattens
<1>3. ASSUME NEW k \in 1..n
      PROVE  k - 1 \in 0..n /\ flat[k - 1] \in Bytes /\ enc[k] \in Bytes /\ flat[k] = flat[k - 1] \o enc[k]
  <2>1. k - 1 \in 0..n
    OBVIOUS
  <2> QED  BY <1>2, <2>1 DEF Flattens
<1>h. h \in [0..n -> Reader] /\ h[0] = from /\ \A k \in 1..n : h[k] = step[k][h[k - 1]]
  BY DEF Repeats
(* Every beginning of the list stands at its place.                        *)
<1> DEFINE Ahead == {i \in 0..n : Before(p, from, flat[n - i])}
<1>4. ASSUME NEW i \in 0..n, i < n, i \in Ahead PROVE i + 1 \in Ahead
  <2>1. PICK k \in 1..n : k = n - i /\ k - 1 = n - (i + 1) /\ i + 1 \in 0..n
    BY <1>4
  <2>2. Before(p, from, flat[k - 1] \o enc[k])
    BY <1>3, <1>4, <2>1
  <2>3. Before(p, from, flat[k - 1])
    BY <1>3, <2>2, ReadsOn
  <2> QED  BY <2>1, <2>3
<1>5. \A k \in 0..n : Before(p, from, flat[k])
  <2>1. n - 0 = n /\ 0 \in 0..n
    OBVIOUS
  <2>2. 0 \in Ahead
    BY <2>1
  <2>3. \A i \in 0..n : i \in Ahead
    <3> HIDE DEF Ahead
    <3> QED  BY <1>4, <2>2, UpTo
  <2>4. ASSUME NEW k \in 0..n PROVE Before(p, from, flat[k])
    <3>1. n - k \in 0..n /\ n - (n - k) = k
      OBVIOUS
    <3>2. n - k \in Ahead
      BY <2>3, <3>1
    <3> QED  BY <3>1, <3>2
  <2> QED  BY <2>4
<1> DEFINE Good == {k \in 0..n : /\ HasRead(from, h[k], flat[k])
                              /\ Len(h[k].list) = k /\ \A i \in 1..k : h[k].list[i] = items[i]}
<1>6. 0 \in Good
  <2>1. Len(flat[0]) = 0 /\ at + 0 = at
    BY <1>2
  <2>2. HasRead(from, h[0], flat[0])
    BY <1>1, <1>h, <2>1 DEF HasRead
  <2>3. Len(h[0].list) = 0 /\ \A i \in 1..0 : h[0].list[i] = items[i]
    BY <1>h
  <2>4. 0 \in 0..n
    OBVIOUS
  <2> QED  BY <2>2, <2>3, <2>4
<1>7. ASSUME NEW j \in 0..n, j < n, j \in Good PROVE j + 1 \in Good
  <2>1. PICK k \in 1..n : k = j + 1 /\ k - 1 = j /\ k \in 0..n
    BY <1>7
  <2>2. /\ HasRead(from, h[j], flat[j]) /\ Len(h[j].list) = j
        /\ \A i \in 1..j : h[j].list[i] = items[i]
    BY <1>7
  <2>3. h[k] = step[k][h[j]] /\ flat[k] = flat[j] \o enc[k] /\ flat[j] \in Bytes /\ enc[k] \in Bytes
    BY <1>3, <1>h, <2>1
  <2>4. Before(p, from, flat[j] \o enc[k])
    BY <1>5, <2>1, <2>3
  <2>5. Before(p, h[j], enc[k])
    BY <2>2, <2>3, <2>4, ReadsOn
  <2>6. HasRead(h[j], h[k], enc[k]) /\ h[k].list = Append(h[j].list, items[k])
    BY <2>1, <2>3, <2>5 DEF ReadsItems, Before
  <2>7. HasRead(from, h[k], flat[k])
    BY <2>2, <2>3, <2>4, <2>6, ReadsOn
  <2>8. h[j].list \in Seq(Item) /\ items[k] \in Item
    BY <2>2 DEF HasRead, Reader
  <2>9. /\ Len(h[k].list) = j + 1 /\ h[k].list[j + 1] = items[k]
        /\ \A i \in 1..j : h[k].list[i] = h[j].list[i]
    BY <2>2, <2>6, <2>8, AppendProperties
  <2>10. \A i \in 1..k : i \in 1..j \/ i = k
    BY <2>1
  <2>11. \A i \in 1..k : h[k].list[i] = items[i]
    BY <2>1, <2>2, <2>9, <2>10
  <2> QED  BY <2>1, <2>7, <2>9, <2>11
<1>8. n \in Good
  <2>1. n \in 0..n
    OBVIOUS
  <2> HIDE DEF Good
  <2> QED  BY <1>6, <1>7, <2>1, UpTo
<1> QED  BY <1>8 DEF Listed

(* ReadList goes over the items one after the other.                       *)
AllSources(p, from, seq) == FoldLeft(LAMBDA acc, i : ReadSource(p, acc), from, seq)
SourceSteps(p, n) == [k \in 1..n |-> [v \in Reader |-> ReadSource(p, v)]]

LEMMA SourcesAreSteps ==
  ASSUME BaseOK, NEW p \in Bytes, NEW n \in Nat, NEW from \in Reader,
         NEW seq, seq = [i \in 1..n |-> i]
  PROVE  \E h : /\ Repeats(h, Reader, from, n, SourceSteps(p, n))
                /\ h[n] = AllSources(p, from, seq)
<1>1. DOMAIN seq = 1..n
  OBVIOUS
<1>2. PICK step \in [1..n -> [Reader -> Reader]] :
        /\ step = SourceSteps(p, n)
        /\ \A k \in 1..n, v \in Reader : step[k][v] = ReadSource(p, v)
  <2>1. [v \in Reader |-> ReadSource(p, v)] \in [Reader -> Reader]
    BY ReadSourceStays
  <2>2. PICK st : st = SourceSteps(p, n) /\ st = [k \in 1..n |-> [v \in Reader |-> ReadSource(p, v)]]
    BY DEF SourceSteps
  <2>3. st \in [1..n -> [Reader -> Reader]] /\ \A k \in 1..n, v \in Reader : st[k][v] = ReadSource(p, v)
    BY ONLY <2>1, <2>2
  <2> QED  BY <2>2, <2>3
<1> DEFINE Iterates(g) ==
             g = [s \in SUBSET (1..n) |-> IF s = {} THEN from ELSE ReadSource(p, g[s \ {Max(s)}])]
<1>3. PICK iter : iter = CHOOSE g : Iterates(g)
  OBVIOUS
<1>4. AllSources(p, from, seq) = iter[1..n]
  BY <1>1, <1>3 DEF AllSources, FoldLeft, MapThenFoldSet
<1>5. Iterates(iter)
  <2>1. PICK F \in [SUBSET (1..n) -> Reader] : FoldsWithin(F, Reader, from, n, step)
    BY FoldExists
  <2>2. ASSUME NEW s \in SUBSET (1..n)
        PROVE  F[s] = IF s = {} THEN from ELSE ReadSource(p, F[s \ {Max(s)}])
    <3>1. CASE s = {}
      BY <2>1, <3>1 DEF FoldsWithin
    <3>2. CASE s # {}
      <4>1. Max(s) \in 1..n /\ s \ {Max(s)} \in SUBSET (1..n)
        BY <3>2, MaxIs
      <4>2. F[s \ {Max(s)}] \in Reader
        BY <4>1
      <4>3. F[s] = step[Max(s)][F[s \ {Max(s)}]]
        BY <2>1, <3>2, <4>2 DEF FoldsWithin
      <4> QED  BY <1>2, <3>2, <4>1, <4>2, <4>3
    <3> QED  BY <3>1, <3>2
  <2>3. Iterates(F)
    BY <2>2
  <2> HIDE DEF Iterates
  <2> QED  BY <1>3, <2>3
<1>6. FoldsWithin(iter, Reader, from, n, step)
  <2>1. iter[{}] = from
    BY <1>5
  <2>2. ASSUME NEW s \in SUBSET (1..n), s # {}, iter[s \ {Max(s)}] \in Reader
        PROVE  iter[s] = step[Max(s)][iter[s \ {Max(s)}]]
    <3>1. Max(s) \in 1..n
      BY <2>2, MaxIs
    <3>2. iter[s] = ReadSource(p, iter[s \ {Max(s)}])
      BY <1>5, <2>2
    <3> QED  BY <1>2, <2>2, <3>1, <3>2
  <2> QED  BY <2>1, <2>2 DEF FoldsWithin
<1>7. PICK h : Repeats(h, Reader, from, n, step) /\ h[n] = iter[1..n]
  <2> HIDE DEF Iterates
  <2> QED  BY <1>6, FoldValues
<1> QED  BY <1>2, <1>4, <1>7

AllEvents(p, from, seq) == FoldLeft(LAMBDA acc, i : ReadEvent(p, acc), from, seq)
EventSteps(p, n) == [k \in 1..n |-> [v \in Reader |-> ReadEvent(p, v)]]

LEMMA EventsAreSteps ==
  ASSUME BaseOK, NEW p \in Bytes, NEW n \in Nat, NEW from \in Reader,
         NEW seq, seq = [i \in 1..n |-> i]
  PROVE  \E h : /\ Repeats(h, Reader, from, n, EventSteps(p, n))
                /\ h[n] = AllEvents(p, from, seq)
<1>1. DOMAIN seq = 1..n
  OBVIOUS
<1>2. PICK step \in [1..n -> [Reader -> Reader]] :
        /\ step = EventSteps(p, n)
        /\ \A k \in 1..n, v \in Reader : step[k][v] = ReadEvent(p, v)
  <2>1. [v \in Reader |-> ReadEvent(p, v)] \in [Reader -> Reader]
    BY ReadEventStays
  <2>2. PICK st : st = EventSteps(p, n) /\ st = [k \in 1..n |-> [v \in Reader |-> ReadEvent(p, v)]]
    BY DEF EventSteps
  <2>3. st \in [1..n -> [Reader -> Reader]] /\ \A k \in 1..n, v \in Reader : st[k][v] = ReadEvent(p, v)
    BY ONLY <2>1, <2>2
  <2> QED  BY <2>2, <2>3
<1> DEFINE Iterates(g) ==
             g = [s \in SUBSET (1..n) |-> IF s = {} THEN from ELSE ReadEvent(p, g[s \ {Max(s)}])]
<1>3. PICK iter : iter = CHOOSE g : Iterates(g)
  OBVIOUS
<1>4. AllEvents(p, from, seq) = iter[1..n]
  BY <1>1, <1>3 DEF AllEvents, FoldLeft, MapThenFoldSet
<1>5. Iterates(iter)
  <2>1. PICK F \in [SUBSET (1..n) -> Reader] : FoldsWithin(F, Reader, from, n, step)
    BY FoldExists
  <2>2. ASSUME NEW s \in SUBSET (1..n)
        PROVE  F[s] = IF s = {} THEN from ELSE ReadEvent(p, F[s \ {Max(s)}])
    <3>1. CASE s = {}
      BY <2>1, <3>1 DEF FoldsWithin
    <3>2. CASE s # {}
      <4>1. Max(s) \in 1..n /\ s \ {Max(s)} \in SUBSET (1..n)
        BY <3>2, MaxIs
      <4>2. F[s \ {Max(s)}] \in Reader
        BY <4>1
      <4>3. F[s] = step[Max(s)][F[s \ {Max(s)}]]
        BY <2>1, <3>2, <4>2 DEF FoldsWithin
      <4> QED  BY <1>2, <3>2, <4>1, <4>2, <4>3
    <3> QED  BY <3>1, <3>2
  <2>3. Iterates(F)
    BY <2>2
  <2> HIDE DEF Iterates
  <2> QED  BY <1>3, <2>3
<1>6. FoldsWithin(iter, Reader, from, n, step)
  <2>1. iter[{}] = from
    BY <1>5
  <2>2. ASSUME NEW s \in SUBSET (1..n), s # {}, iter[s \ {Max(s)}] \in Reader
        PROVE  iter[s] = step[Max(s)][iter[s \ {Max(s)}]]
    <3>1. Max(s) \in 1..n
      BY <2>2, MaxIs
    <3>2. iter[s] = ReadEvent(p, iter[s \ {Max(s)}])
      BY <1>5, <2>2
    <3> QED  BY <1>2, <2>2, <3>1, <3>2
  <2> QED  BY <2>1, <2>2 DEF FoldsWithin
<1>7. PICK h : Repeats(h, Reader, from, n, step) /\ h[n] = iter[1..n]
  <2> HIDE DEF Iterates
  <2> QED  BY <1>6, FoldValues
<1> QED  BY <1>2, <1>4, <1>7

-----------------------------------------------------------------------------
(* What the items are written as.                                          *)
LEMMA SourceIsBytes ==
  ASSUME BaseOK, NEW s \in SourceShape
  PROVE  SourceBytes(s) \in Bytes
<1>1. TypeOf(s.type) \in Byte
  BY OneByte DEF SourceShape, TypeOf
<1>2. <<TypeOf(s.type)>> \in Bytes /\ Field(s.text) \in Bytes
  BY <1>1, OneByte, FieldIs DEF SourceShape
<1> QED  BY <1>2, Joined DEF SourceBytes

LEMMA EventIsBytes ==
  ASSUME BaseOK, NEW e \in EventShape
  PROVE  EventBytes(e) \in Bytes
<1>1. PICK f, g, c, d : /\ f = Field(e.event) /\ g = Field(e.target)
                        /\ c = <<e.type>> /\ d = Field(e.source)
  OBVIOUS
<1>2. f \in Bytes /\ g \in Bytes /\ c \in Bytes /\ d \in Bytes
  BY <1>1, OneByte, FieldIs DEF EventShape
<1>3. f \o g \in Bytes
  BY <1>2, Joined
<1>4. f \o g \o c \in Bytes
  BY <1>2, <1>3, Joined
<1>5. f \o g \o c \o d \in Bytes
  BY <1>2, <1>4, Joined
<1> QED  BY <1>1, <1>5 DEF EventBytes

LEMMA Flat ==
  ASSUME NEW n \in Nat, NEW enc \in [1..n -> Bytes]
  PROVE  \E flat : /\ Flattens(flat, Bytes, enc, n) /\ flat[n] = FlattenSeq(enc)
                   /\ FlattenSeq(enc) \in Bytes
<1>1. enc \in Seq(Seq(Byte)) /\ Len(enc) = n
  BY DEF Bytes
<1>2. PICK flat : Flattens(flat, Bytes, enc, n) /\ flat[n] = FlattenSeq(enc)
  BY <1>1, FlattenValues DEF Bytes
<1>3. n \in 0..n
  OBVIOUS
<1>4. flat[n] \in Bytes
  BY <1>2, <1>3 DEF Flattens
<1> QED  BY <1>2, <1>4

(* A counted list of sources, or of events, is read as it was written.     *)
LEMMA SourcesArrive ==
  ASSUME BaseOK, NEW p \in Bytes, Len(p) \in Word, NEW n \in Nat, n < Base * Base,
         NEW items \in [1..n -> SourceShape], \A i \in 1..n : items[i].type # 0,
         NEW enc, enc = [i \in 1..n |-> SourceBytes(items[i])],
         NEW r, Before(p, r, Net2(n) \o FlattenSeq(enc)),
         NEW r2, r2 = ReadList(ReadSource, p, r)
  PROVE  HasRead(r, r2, Net2(n) \o FlattenSeq(enc)) /\ Listed(r2, items, n)
<1>1. enc \in [1..n -> Bytes]
  BY SourceIsBytes
<1>2. PICK flat : /\ Flattens(flat, Bytes, enc, n) /\ flat[n] = FlattenSeq(enc)
                  /\ FlattenSeq(enc) \in Bytes
  BY <1>1, Flat
<1>4. PICK all \in Bytes : all = FlattenSeq(enc) /\ all = flat[n]
  BY <1>2
<1>5. Net2(n) \in Bytes /\ Len(Net2(n)) = 2
  BY TwoBytes
<1>6. Before(p, r, Net2(n) \o all) /\ Before(p, r, Net2(n))
  BY <1>4, <1>5, ReadsOn
<1>7. PICK at \in Nat : at = r.at /\ r \in Reader /\ r.ok /\ at + 2 <= Len(p) /\ HoldsAt(p, at, Net2(n))
  BY <1>5, <1>6 DEF Before, Reader, HoldsAt
<1>8. Value2(p, at) = n
  BY <1>7, HeldCount
<1>9. PICK from : from = [Skip(r, 2) EXCEPT !.list = <<>>]
  OBVIOUS
<1>10. /\ from \in Reader /\ from.ok /\ from.at = at + 2 /\ from.list = <<>>
  <2>1. PICK empty \in Seq(Item) : empty = <<>>
    BY EmptySeq
  <2>2. from = [r EXCEPT !.at = at + 2, !.list = empty] /\ at + 2 \in Nat
    BY <1>7, <1>9, <2>1 DEF Skip, Reader
  <2> QED  BY <1>7, <2>1, <2>2 DEF Reader
<1>11. HasRead(r, from, Net2(n))
  BY <1>5, <1>7, <1>10 DEF HasRead
<1>12. Before(p, from, all)
  BY <1>4, <1>5, <1>6, <1>11, ReadsOn
<1>13. PICK seq : seq = [i \in 1..n |-> i]
  OBVIOUS
<1>14. PICK h : /\ Repeats(h, Reader, from, n, SourceSteps(p, n))
                /\ h[n] = AllSources(p, from, seq)
  BY <1>10, <1>13, SourcesAreSteps
<1>15. r2 = h[n]
  <2>1. 1..Value2(p, r.at) = 1..n /\ r.ok /\ r.at + 2 <= Len(p)
    BY <1>7, <1>8
  <2>2. [i \in 1..Value2(p, r.at) |-> i] = seq
    BY <1>13, <2>1
  <2> QED  BY <1>9, <1>14, <2>1, <2>2 DEF ReadList, AllSources
<1>18. items \in [1..n -> Item]
  BY DEF Item
<1>19. ReadsItems(SourceSteps(p, n), p, items, enc, n)
  <2> SUFFICES ASSUME NEW k \in 1..n, NEW v, Before(p, v, enc[k])
               PROVE  /\ HasRead(v, SourceSteps(p, n)[k][v], enc[k])
                      /\ SourceSteps(p, n)[k][v].list = Append(v.list, items[k])
    BY DEF ReadsItems
  <2>1. items[k] \in SourceShape /\ items[k].type # 0 /\ enc[k] = SourceBytes(items[k])
    OBVIOUS
  <2>2. SourceSteps(p, n)[k][v] = ReadSource(p, v)
    BY DEF SourceSteps, Before
  <2> QED  BY <2>1, <2>2, ReadSourceAt
<1>20. HasRead(from, h[n], all) /\ Listed(h[n], items, n)
  <2>1. Before(p, from, flat[n])
    BY <1>4, <1>12
  <2>2. HasRead(from, h[n], flat[n]) /\ Listed(h[n], items, n)
    BY <1>1, <1>2, <1>10, <1>14, <1>18, <1>19, <2>1, ListIsRead
  <2> QED  BY <1>4, <2>2
<1>21. HasRead(r, h[n], Net2(n) \o all)
  BY <1>4, <1>5, <1>6, <1>11, <1>20, ReadsOn
<1> QED  BY <1>4, <1>15, <1>20, <1>21
LEMMA EventsArrive ==
  ASSUME BaseOK, NEW p \in Bytes, Len(p) \in Word, NEW n \in Nat, n < Base * Base,
         NEW items \in [1..n -> EventShape],
         NEW enc, enc = [i \in 1..n |-> EventBytes(items[i])],
         NEW r, Before(p, r, Net2(n) \o FlattenSeq(enc)),
         NEW r2, r2 = ReadList(ReadEvent, p, r)
  PROVE  HasRead(r, r2, Net2(n) \o FlattenSeq(enc)) /\ Listed(r2, items, n)
<1>1. enc \in [1..n -> Bytes]
  BY EventIsBytes
<1>2. PICK flat : /\ Flattens(flat, Bytes, enc, n) /\ flat[n] = FlattenSeq(enc)
                  /\ FlattenSeq(enc) \in Bytes
  BY <1>1, Flat
<1>4. PICK all \in Bytes : all = FlattenSeq(enc) /\ all = flat[n]
  BY <1>2
<1>5. Net2(n) \in Bytes /\ Len(Net2(n)) = 2
  BY TwoBytes
<1>6. Before(p, r, Net2(n) \o all) /\ Before(p, r, Net2(n))
  BY <1>4, <1>5, ReadsOn
<1>7. PICK at \in Nat : at = r.at /\ r \in Reader /\ r.ok /\ at + 2 <= Len(p) /\ HoldsAt(p, at, Net2(n))
  BY <1>5, <1>6 DEF Before, Reader, HoldsAt
<1>8. Value2(p, at) = n
  BY <1>7, HeldCount
<1>9. PICK from : from = [Skip(r, 2) EXCEPT !.list = <<>>]
  OBVIOUS
<1>10. /\ from \in Reader /\ from.ok /\ from.at = at + 2 /\ from.list = <<>>
  <2>1. PICK empty \in Seq(Item) : empty = <<>>
    BY EmptySeq
  <2>2. from = [r EXCEPT !.at = at + 2, !.list = empty] /\ at + 2 \in Nat
    BY <1>7, <1>9, <2>1 DEF Skip, Reader
  <2> QED  BY <1>7, <2>1, <2>2 DEF Reader
<1>11. HasRead(r, from, Net2(n))
  BY <1>5, <1>7, <1>10 DEF HasRead
<1>12. Before(p, from, all)
  BY <1>4, <1>5, <1>6, <1>11, ReadsOn
<1>13. PICK seq : seq = [i \in 1..n |-> i]
  OBVIOUS
<1>14. PICK h : /\ Repeats(h, Reader, from, n, EventSteps(p, n))
                /\ h[n] = AllEvents(p, from, seq)
  BY <1>10, <1>13, EventsAreSteps
<1>15. r2 = h[n]
  <2>1. 1..Value2(p, r.at) = 1..n /\ r.ok /\ r.at + 2 <= Len(p)
    BY <1>7, <1>8
  <2>2. [i \in 1..Value2(p, r.at) |-> i] = seq
    BY <1>13, <2>1
  <2> QED  BY <1>9, <1>14, <2>1, <2>2 DEF ReadList, AllEvents
<1>18. items \in [1..n -> Item]
  BY DEF Item
<1>19. ReadsItems(EventSteps(p, n), p, items, enc, n)
  <2> SUFFICES ASSUME NEW k \in 1..n, NEW v, Before(p, v, enc[k])
               PROVE  /\ HasRead(v, EventSteps(p, n)[k][v], enc[k])
                      /\ EventSteps(p, n)[k][v].list = Append(v.list, items[k])
    BY DEF ReadsItems
  <2>1. items[k] \in EventShape /\ enc[k] = EventBytes(items[k])
    OBVIOUS
  <2>2. EventSteps(p, n)[k][v] = ReadEvent(p, v)
    BY DEF EventSteps, Before
  <2> QED  BY <2>1, <2>2, ReadEventAt
<1>20. HasRead(from, h[n], all) /\ Listed(h[n], items, n)
  <2>1. Before(p, from, flat[n])
    BY <1>4, <1>12
  <2>2. HasRead(from, h[n], flat[n]) /\ Listed(h[n], items, n)
    BY <1>1, <1>2, <1>10, <1>14, <1>18, <1>19, <2>1, ListIsRead
  <2> QED  BY <1>4, <2>2
<1>21. HasRead(r, h[n], Net2(n) \o all)
  BY <1>4, <1>5, <1>6, <1>11, <1>20, ReadsOn
<1> QED  BY <1>4, <1>15, <1>20, <1>21

-----------------------------------------------------------------------------
(* POST /train_uml to the master: a container arrives as it was given.     *)
UmlShape == [kind : {"uml"}, name : Bytes, schema : Bytes,
             sources : Seq(SourceShape), events : Seq(EventShape)]

Regroups(s, t, u) == (s \o t) \o u = s \o (t \o u)
LEMMA Regrouped ==
  ASSUME NEW s \in Bytes, NEW t \in Bytes, NEW u \in Bytes
  PROVE  Regroups(s, t, u)
BY ConcatAssociative DEF Bytes, Regroups
InThree(f1, f2, c1, l1, c2, l2) ==
  f1 \o f2 \o c1 \o l1 \o c2 \o l2 = ((f1 \o f2) \o (c1 \o l1)) \o (c2 \o l2)

LEMMA SixParts ==
  ASSUME NEW f1 \in Bytes, NEW f2 \in Bytes, NEW c1 \in Bytes, NEW l1 \in Bytes,
         NEW c2 \in Bytes, NEW l2 \in Bytes
  PROVE  InThree(f1, f2, c1, l1, c2, l2)
<1>1. PICK g2 \in Bytes : g2 = f1 \o f2
  BY Joined
<1>2. PICK q1 \in Bytes : q1 = c1 \o l1
  BY Joined
<1>3. PICK g3 \in Bytes : g3 = g2 \o q1
  BY Joined
<1>4. Regroups(g2, c1, l1) /\ Regroups(g3, c2, l2)
  BY Regrouped
<1>5. (g2 \o c1) \o l1 = g2 \o (c1 \o l1)
  BY <1>4 DEF Regroups
<1>6. (g3 \o c2) \o l2 = g3 \o (c2 \o l2)
  BY <1>4 DEF Regroups
<1> QED  BY <1>1, <1>2, <1>3, <1>5, <1>6 DEF InThree

LEMMA UmlArrives ==
  ASSUME BaseOK, NEW j \in UmlShape,
         Len(j.sources) < Base * Base, Len(j.events) < Base * Base,
         \A i \in DOMAIN j.sources : j.sources[i].type # 0,
         NEW p, p = PackUml(j), Len(p) \in Word
  PROVE  UnpackUml(p) = j
<1>1. PICK nm \in Bytes, sc \in Bytes, ss \in Seq(SourceShape), es \in Seq(EventShape) :
        /\ nm = j.name /\ sc = j.schema /\ ss = j.sources /\ es = j.events
        /\ j = [kind |-> "uml", name |-> nm, schema |-> sc, sources |-> ss, events |-> es]
  BY DEF UmlShape
<1>2. PICK n \in Nat, m \in Nat :
        /\ n = Len(ss) /\ m = Len(es) /\ n < Base * Base /\ m < Base * Base
        /\ ss \in [1..n -> SourceShape] /\ es \in [1..m -> EventShape]
        /\ DOMAIN ss = 1..n /\ DOMAIN es = 1..m /\ \A i \in 1..n : ss[i].type # 0
  BY <1>1, LenProperties
<1>3. PICK se, ee : /\ se = [i \in 1..n |-> SourceBytes(ss[i])]
                    /\ ee = [i \in 1..m |-> EventBytes(es[i])]
  OBVIOUS
<1>4. PICK f1, f2, c1, c2, l1, l2 :
        /\ f1 = Field(nm) /\ f2 = Field(sc)
        /\ c1 = Net2(n) /\ l1 = FlattenSeq(se) /\ c2 = Net2(m) /\ l2 = FlattenSeq(ee)
  OBVIOUS
<1>5. p = f1 \o f2 \o c1 \o l1 \o c2 \o l2
  BY <1>1, <1>2, <1>3, <1>4 DEF PackUml, SourceBytes, EventBytes
<1>6. f1 \in Bytes /\ f2 \in Bytes /\ c1 \in Bytes /\ c2 \in Bytes /\ l1 \in Bytes /\ l2 \in Bytes
  <2>1. f1 \in Bytes /\ f2 \in Bytes
    BY <1>4, FieldIs
  <2>2. c1 \in Bytes /\ c2 \in Bytes
    BY <1>4, TwoBytes
  <2>3. se \in [1..n -> Bytes]
    BY <1>2, <1>3, SourceIsBytes
  <2>4. ee \in [1..m -> Bytes]
    BY <1>2, <1>3, EventIsBytes
  <2>5. l1 \in Bytes
    BY <1>4, <2>3, Flat
  <2>6. l2 \in Bytes
    BY <1>4, <2>4, Flat
  <2> QED  BY <2>1, <2>2, <2>5, <2>6
<1>7. PICK q1, q2, g2, g3 : /\ q1 = c1 \o l1 /\ q2 = c2 \o l2
                            /\ g2 = f1 \o f2 /\ g3 = g2 \o q1
  OBVIOUS
<1>8. q1 \in Bytes /\ q2 \in Bytes /\ g2 \in Bytes /\ g3 \in Bytes
  <2>1. q1 \in Bytes
    BY <1>6, <1>7, Joined
  <2>2. q2 \in Bytes
    BY <1>6, <1>7, Joined
  <2>3. g2 \in Bytes
    BY <1>6, <1>7, Joined
  <2>4. g3 \in Bytes
    BY <1>7, <2>1, <2>3, Joined
  <2> QED  BY <2>1, <2>2, <2>3, <2>4
<1>9. p = g3 \o q2
  <2>1. InThree(f1, f2, c1, l1, c2, l2)
    BY <1>6, SixParts
  <2> QED  BY <1>5, <1>7, <2>1 DEF InThree
<1>10. p \in Bytes /\ Len(p) >= 8
  <2>1. p \in Bytes /\ Len(p) = Len(g3) + Len(q2) /\ Len(q2) \in Nat
    BY <1>8, <1>9, Joined
  <2>2. Len(g3) = Len(g2) + Len(q1) /\ Len(q1) \in Nat
    BY <1>7, <1>8, Joined
  <2>3. Len(f1 \o f2) = Len(f1) + Len(f2)
    BY <1>6, Joined
  <2>4. Len(f1) \in Nat /\ Len(f2) \in Nat /\ Len(f1) >= 4 /\ Len(f2) >= 4
    <3>1. Len(Field(nm)) = 4 + Len(nm) /\ Len(nm) \in Nat
      BY FieldIs
    <3>2. Len(Field(sc)) = 4 + Len(sc) /\ Len(sc) \in Nat
      BY FieldIs
    <3> QED  BY <1>4, <3>1, <3>2
  <2> QED  BY <1>7, <2>1, <2>2, <2>3, <2>4
<1>11. PICK start, a, b, c, d :
         /\ start = [at |-> 0, ok |-> Len(p) >= 8, text |-> <<>>, byte |-> 0, list |-> <<>>]
         /\ a = ReadField(p, start) /\ b = ReadField(p, a)
         /\ c = ReadList(ReadSource, p, b) /\ d = ReadList(ReadEvent, p, c)
  OBVIOUS
<1>12. /\ Before(p, start, g3 \o q2) /\ Before(p, start, g3)
       /\ Before(p, start, g2) /\ Before(p, start, f1)
  <2>1. start \in Reader /\ start.ok /\ start.at = 0
    <3>1. <<>> \in Bytes /\ <<>> \in Seq(Item)
      BY EmptySeq DEF Bytes
    <3> QED  BY <1>10, <1>11, <3>1, OneByte DEF Reader
  <2>2. Before(p, start, g3 \o q2)
    BY <1>9, <1>10, <2>1, HoldsWhole DEF Before
  <2>3. Before(p, start, g3)
    BY <1>8, <1>10, <2>2, ReadsOn
  <2>4. Before(p, start, g2)
    BY <1>7, <1>8, <1>10, <2>3, ReadsOn
  <2>5. Before(p, start, f1)
    BY <1>6, <1>7, <1>10, <2>4, ReadsOn
  <2> QED  BY <2>2, <2>3, <2>4, <2>5
<1>13. HasRead(start, a, f1) /\ a.text = nm
  BY <1>4, <1>10, <1>11, <1>12, ReadFieldAt
<1>14. Before(p, a, f2)
  BY <1>6, <1>7, <1>10, <1>12, <1>13, ReadsOn
<1>15. HasRead(a, b, f2) /\ b.text = sc
  BY <1>4, <1>10, <1>11, <1>14, ReadFieldAt
<1>16. HasRead(start, b, g2)
  BY <1>6, <1>7, <1>10, <1>12, <1>13, <1>15, ReadsOn
<1>17. Before(p, b, q1)
  BY <1>7, <1>8, <1>10, <1>12, <1>16, ReadsOn
<1>18. HasRead(b, c, q1) /\ Listed(c, ss, n)
  BY <1>2, <1>3, <1>4, <1>7, <1>10, <1>11, <1>17, SourcesArrive
<1>19. HasRead(start, c, g3)
  BY <1>7, <1>8, <1>10, <1>12, <1>16, <1>18, ReadsOn
<1>20. Before(p, c, q2)
  BY <1>8, <1>10, <1>12, <1>19, ReadsOn
<1>21. HasRead(c, d, q2) /\ Listed(d, es, m)
  BY <1>2, <1>3, <1>4, <1>7, <1>10, <1>11, <1>20, EventsArrive
<1>22. c.list = ss /\ d.list = es
  <2>1. c.list \in Seq(Item) /\ d.list \in Seq(Item) /\ c.ok
    BY <1>18, <1>21 DEF HasRead, Reader
  <2>2. ss \in Seq(Item) /\ es \in Seq(Item)
    <3>1. SourceShape \subseteq Item /\ EventShape \subseteq Item
      BY DEF Item
    <3> QED  BY <3>1, SeqMonotonic
  <2>3. c.list = ss
    BY <1>2, <1>18, <2>1, <2>2, SeqEqual DEF Listed
  <2>4. d.list = es
    BY <1>2, <1>21, <2>1, <2>2, SeqEqual DEF Listed
  <2> QED  BY <2>3, <2>4
<1>23. c.ok
  BY <1>18 DEF HasRead
<1>24. UnpackUml(p) = [kind |-> "uml", name |-> nm, schema |-> sc, sources |-> ss, events |-> es]
  BY <1>11, <1>13, <1>15, <1>22, <1>23 DEF UnpackUml
<1> QED  BY <1>1, <1>24

-----------------------------------------------------------------------------
DownProof == INSTANCE IpcChannel_proofs WITH Messages <- Requests, sent <- dSent,
               stream <- dStream, written <- dWritten, taken <- dTaken,
               buffer <- dBuffer, received <- dReceived, open <- dOpen
UpProof   == INSTANCE IpcChannel_proofs WITH Messages <- Replies, sent <- uSent,
               stream <- uStream, written <- uWritten, taken <- uTaken,
               buffer <- uBuffer, received <- uReceived, open <- uOpen

-----------------------------------------------------------------------------
(* Every step of the two processes is a step of each stream, or none.      *)
LEMMA DownSteps == [Next]_vars => [Down!Next]_(Down!vars)
<1> SUFFICES ASSUME [Next]_vars PROVE [Down!Next]_(Down!vars)
  OBVIOUS
<1>1. ASSUME NEW j \in Jobs, Ask(j) PROVE Down!Next
  <2>1. Request(j) \in Requests /\ Down!Send(Request(j))
    BY <1>1 DEF Ask, Requests
  <2> QED  BY <2>1 DEF Down!Next
<1>2. CASE WorkerWrite
  BY <1>2 DEF WorkerWrite, Down!Next
<1>3. CASE MasterRead
  BY <1>3 DEF MasterRead, Down!Next
<1>4. CASE KillMaster
  BY <1>4 DEF KillMaster, Down!Next
<1>5. CASE KillWorker
  BY <1>5 DEF KillWorker, Down!Next
<1>6. CASE MasterEnds
  BY <1>6 DEF MasterEnds, Down!Next
<1>7. CASE WorkerLoses
  BY <1>7 DEF WorkerLoses, Down!Next, down, Down!vars
<1>8. CASE WorkerPipe
  BY <1>8 DEF WorkerPipe, Down!Next
<1>9. CASE MasterPipe
  <2>1. CASE "reader" \in dOpen
    BY <1>9, <2>1 DEF MasterPipe, Down!Next, Down!Die
  <2>2. CASE "reader" \notin dOpen
    <3>1. dOpen' = dOpen
      BY <1>9, <2>2 DEF MasterPipe
    <3> QED  BY <1>9, <3>1 DEF MasterPipe, Down!vars
  <2> QED  BY <2>1, <2>2
<1>10. CASE UNCHANGED down
  BY <1>10 DEF down, Down!vars
<1>11. CASE WorkerRead \/ Hear \/ Execute \/ Progress \/ Finish \/ MasterWrite
  BY <1>10, <1>11 DEF WorkerRead, Hear, Execute, Progress, Finish, MasterWrite
<1> QED
  BY <1>1, <1>2, <1>3, <1>4, <1>5, <1>6, <1>7, <1>8, <1>9, <1>10, <1>11 DEF Next, vars

(* The streams are the channels that IpcChannel_proofs is about.           *)
LEMMA DownIsChannel ==
  /\ Down!Init => DownProof!Init
  /\ [Down!Next]_(Down!vars) => [DownProof!Next]_(DownProof!vars)
  /\ Down!ChannelConstants => DownProof!ChannelConstants
  /\ DownProof!Fifo!Init => Down!Fifo!Init
  /\ [DownProof!Fifo!Next]_(DownProof!Fifo!vars) => [Down!Fifo!Next]_(Down!Fifo!vars)
<1>1. Down!Init => DownProof!Init
  BY DEF Down!Init, DownProof!Init
<1>2. Down!ChannelConstants => DownProof!ChannelConstants
  BY DEF Down!ChannelConstants, DownProof!ChannelConstants, Down!Fits, DownProof!Fits
<1>3. DownProof!Fifo!Init => Down!Fifo!Init
  BY DEF DownProof!Fifo!Init, Down!Fifo!Init, DownProof!Fifo!Ends, Down!Fifo!Ends
<1>4. [DownProof!Fifo!Next]_(DownProof!Fifo!vars) => [Down!Fifo!Next]_(Down!Fifo!vars)
  BY DEF DownProof!Fifo!Next, Down!Fifo!Next, DownProof!Fifo!Ends, Down!Fifo!Ends, DownProof!Fifo!vars, Down!Fifo!vars,
     DownProof!Fifo!Send, Down!Fifo!Send, DownProof!Fifo!Receive, Down!Fifo!Receive,
     DownProof!Fifo!Close, Down!Fifo!Close
<1>5. [Down!Next]_(Down!vars) => [DownProof!Next]_(DownProof!vars)
  <2>1. \A m : Down!Send(m) => DownProof!Send(m)
    BY DEF Down!Send, DownProof!Send, Down!Flushed, DownProof!Flushed, Down!Frame, DownProof!Frame,
       Down!LengthBytes, DownProof!LengthBytes
  <2>2. \A k : Down!Write(k) => DownProof!Write(k)
    BY DEF Down!Write, DownProof!Write
  <2>3. \A k : Down!Read(k) => DownProof!Read(k)
    BY DEF Down!Read, DownProof!Read, Down!Wanted, DownProof!Wanted, Down!Complete, DownProof!Complete,
       Down!PayloadLength, DownProof!PayloadLength, Down!HeaderSize, DownProof!HeaderSize
  <2>4. \A end : Down!Die(end) => DownProof!Die(end)
    BY DEF Down!Die, DownProof!Die
  <2>5. (Down!EndOfStream => DownProof!EndOfStream) /\ (Down!BrokenPipe => DownProof!BrokenPipe)
    BY <2>4 DEF Down!EndOfStream, DownProof!EndOfStream, Down!BrokenPipe, DownProof!BrokenPipe,
                Down!Flushed, DownProof!Flushed
  <2>6. UNCHANGED Down!vars => UNCHANGED DownProof!vars
    BY DEF Down!vars, DownProof!vars
  <2>7. Down!Next => DownProof!Next
    BY <2>1, <2>2, <2>3, <2>4, <2>5 DEF Down!Next, DownProof!Next, Down!Bytes, DownProof!Bytes
  <2> QED  BY <2>6, <2>7
<1> QED  BY <1>1, <1>2, <1>3, <1>4, <1>5

LEMMA UpIsChannel ==
  /\ Up!Init => UpProof!Init
  /\ [Up!Next]_(Up!vars) => [UpProof!Next]_(UpProof!vars)
  /\ Up!ChannelConstants => UpProof!ChannelConstants
  /\ UpProof!Fifo!Init => Up!Fifo!Init
  /\ [UpProof!Fifo!Next]_(UpProof!Fifo!vars) => [Up!Fifo!Next]_(Up!Fifo!vars)
<1>1. Up!Init => UpProof!Init
  BY DEF Up!Init, UpProof!Init
<1>2. Up!ChannelConstants => UpProof!ChannelConstants
  BY DEF Up!ChannelConstants, UpProof!ChannelConstants, Up!Fits, UpProof!Fits
<1>3. UpProof!Fifo!Init => Up!Fifo!Init
  BY DEF UpProof!Fifo!Init, Up!Fifo!Init, UpProof!Fifo!Ends, Up!Fifo!Ends
<1>4. [UpProof!Fifo!Next]_(UpProof!Fifo!vars) => [Up!Fifo!Next]_(Up!Fifo!vars)
  BY DEF UpProof!Fifo!Next, Up!Fifo!Next, UpProof!Fifo!Ends, Up!Fifo!Ends, UpProof!Fifo!vars, Up!Fifo!vars,
     UpProof!Fifo!Send, Up!Fifo!Send, UpProof!Fifo!Receive, Up!Fifo!Receive,
     UpProof!Fifo!Close, Up!Fifo!Close
<1>5. [Up!Next]_(Up!vars) => [UpProof!Next]_(UpProof!vars)
  <2>1. \A m : Up!Send(m) => UpProof!Send(m)
    BY DEF Up!Send, UpProof!Send, Up!Flushed, UpProof!Flushed, Up!Frame, UpProof!Frame,
       Up!LengthBytes, UpProof!LengthBytes
  <2>2. \A k : Up!Write(k) => UpProof!Write(k)
    BY DEF Up!Write, UpProof!Write
  <2>3. \A k : Up!Read(k) => UpProof!Read(k)
    BY DEF Up!Read, UpProof!Read, Up!Wanted, UpProof!Wanted, Up!Complete, UpProof!Complete,
       Up!PayloadLength, UpProof!PayloadLength, Up!HeaderSize, UpProof!HeaderSize
  <2>4. \A end : Up!Die(end) => UpProof!Die(end)
    BY DEF Up!Die, UpProof!Die
  <2>5. (Up!EndOfStream => UpProof!EndOfStream) /\ (Up!BrokenPipe => UpProof!BrokenPipe)
    BY <2>4 DEF Up!EndOfStream, UpProof!EndOfStream, Up!BrokenPipe, UpProof!BrokenPipe,
                Up!Flushed, UpProof!Flushed
  <2>6. UNCHANGED Up!vars => UNCHANGED UpProof!vars
    BY DEF Up!vars, UpProof!vars
  <2>7. Up!Next => UpProof!Next
    BY <2>1, <2>2, <2>3, <2>4, <2>5 DEF Up!Next, UpProof!Next, Up!Bytes, UpProof!Bytes
  <2> QED  BY <2>6, <2>7
<1> QED  BY <1>1, <1>2, <1>3, <1>4, <1>5

-----------------------------------------------------------------------------
Kinds == {"train", "list", "table", "uml"}

(* A message tells which kind of job it is.                                *)
LEMMA RequestIs ==
  ASSUME NEW j \in Jobs
  PROVE  /\ j.kind \in Kinds /\ Request(j) \in Requests /\ KindOf(Request(j).cmd) = j.kind
         /\ Meaning[Request(j)] = Unpacked(j.kind, Payload(j))
<1>1. j.kind \in Kinds
  BY LinkConstants DEF JobShape, Kinds
<1>2. Request(j) \in Requests
  BY DEF Requests
<1>3. /\ DOMAIN Command = {"train", "progress", "train_done", "uml", "uml_done", "list", "table"}
      /\ Command["train"] = 0 /\ Command["progress"] = 1 /\ Command["train_done"] = 2
      /\ Command["uml"] = 4 /\ Command["uml_done"] = 5 /\ Command["list"] = 10
      /\ Command["table"] = 11
  BY DEF Command
<1>4. \A k \in DOMAIN Command : Command[k] = Command[j.kind] <=> k = j.kind
  BY <1>1, <1>3 DEF Kinds
<1>5. j.kind \in DOMAIN Command
  BY <1>1, <1>3 DEF Kinds
<1>6. KindOf(Command[j.kind]) = j.kind
  BY <1>4, <1>5 DEF KindOf
<1>7. Request(j).cmd = Command[j.kind] /\ Request(j).payload = Payload(j)
  BY DEF Request
<1>8. Meaning[Request(j)] = Unpacked(KindOf(Request(j).cmd), Request(j).payload)
  BY <1>2 DEF Meaning
<1> QED  BY <1>1, <1>2, <1>6, <1>7, <1>8

(* What the worker asked for is what was sent; what the master executes    *)
(* are the messages it has received, read as jobs.                         *)
LinkInv ==
  /\ DownProof!ChannelInv
  /\ asked \in Seq(Jobs) /\ Len(dSent) = Len(asked)
  /\ \A i \in 1..Len(asked) : dSent[i] = Request(asked[i])
  /\ executed \in Seq({Meaning[m] : m \in Requests})
  /\ Len(executed) <= Len(dReceived)
  /\ \A i \in 1..Len(executed) : executed[i] = Meaning[Request(asked[i])]
  /\ master = "work" => Len(executed) > 0

LEMMA InvParts ==
  ASSUME DownProof!ChannelInv
  PROVE  /\ dSent \in Seq(Requests) /\ dReceived \in Seq(Requests)
         /\ Len(dSent) \in Nat /\ Len(dReceived) \in Nat /\ Len(dReceived) <= Len(dSent)
         /\ \A i \in 1..Len(dReceived) : dReceived[i] = dSent[i] /\ dReceived[i] \in Requests
<1>1. dSent \in Seq(Requests) /\ dReceived \in Seq(Requests)
  BY DEF DownProof!ChannelInv, DownProof!ChannelTypeOK
<1>2. Len(dReceived) <= Len(dSent) /\ \A i \in 1..Len(dReceived) : dReceived[i] = dSent[i]
  BY DEF DownProof!ChannelInv, DownProof!Framed, DownProof!Reading
<1>3. \A i \in 1..Len(dReceived) : dReceived[i] \in Requests
  BY <1>1, LenProperties
<1> QED  BY <1>1, <1>2, <1>3, LenProperties

ReceivedCounts == Len(dReceived) \in Nat

LEMMA ReceivedHasLength == DownProof!ChannelInv => ReceivedCounts
BY InvParts DEF ReceivedCounts

LEMMA LinkStays ==
  ASSUME LinkInv, DownProof!ChannelInv', UNCHANGED <<asked, dSent, executed>>,
         Len(dReceived) <= Len(dReceived'), master' = "work" => master = "work"
  PROVE  LinkInv'
<1>1. Len(executed) <= Len(dReceived')
  <2>1. ReceivedCounts'
    BY ReceivedHasLength, PTL
  <2>2. ReceivedCounts /\ Len(executed) \in Nat /\ Len(executed) <= Len(dReceived)
    BY ReceivedHasLength, LenProperties DEF LinkInv
  <2> QED  BY <2>1, <2>2 DEF ReceivedCounts
<1> QED  BY <1>1 DEF LinkInv

LEMMA LinkNext ==
  ASSUME LinkInv, [Next]_vars
  PROVE  LinkInv'
<1>1. DownProof!ChannelInv'
  BY LinkConstants, DownSteps, DownIsChannel, DownProof!StepInv DEF LinkInv
<1>2. /\ dSent \in Seq(Requests) /\ dReceived \in Seq(Requests) /\ Len(dReceived) \in Nat
      /\ asked \in Seq(Jobs) /\ Len(asked) \in Nat /\ Len(dSent) = Len(asked)
      /\ executed \in Seq({Meaning[m] : m \in Requests}) /\ Len(executed) \in Nat
      /\ Len(executed) <= Len(dReceived) /\ Len(dReceived) <= Len(asked)
      /\ \A i \in 1..Len(asked) : dSent[i] = Request(asked[i])
  BY InvParts, LenProperties DEF LinkInv
<1>3. ASSUME UNCHANGED <<asked, dSent, executed, dReceived>>, master' = "work" => master = "work"
      PROVE  LinkInv'
  BY <1>1, <1>2, <1>3, LinkStays
<1>4. ASSUME NEW j \in Jobs, Ask(j) PROVE LinkInv'
  <2>1. /\ asked' = Append(asked, j) /\ dSent' = Append(dSent, Request(j))
        /\ UNCHANGED <<executed, dReceived, master>>
    BY <1>4 DEF Ask, Down!Send
  <2>2. PICK n \in Nat : n = Len(asked) /\ n = Len(dSent)
    BY <1>2
  <2>3. /\ asked' \in Seq(Jobs) /\ Len(asked') = n + 1 /\ asked'[n + 1] = j
        /\ \A i \in 1..n : asked'[i] = asked[i]
    BY <1>2, <2>1, <2>2, AppendProperties
  <2>4. /\ Len(dSent') = n + 1 /\ dSent'[n + 1] = Request(j)
        /\ \A i \in 1..n : dSent'[i] = dSent[i]
    BY <1>2, <2>1, <2>2, RequestIs, AppendProperties
  <2>5. \A i \in 1..(n + 1) : i \in 1..n \/ i = n + 1
    BY <2>2
  <2>6. \A i \in 1..(n + 1) : dSent'[i] = Request(asked'[i])
    BY <1>2, <2>2, <2>3, <2>4, <2>5
  <2>7. \A i \in 1..Len(executed) : i \in 1..n
    BY <1>2, <2>2
  <2>8. \A i \in 1..Len(executed) : executed[i] = Meaning[Request(asked'[i])]
    BY <2>3, <2>7 DEF LinkInv
  <2> QED  BY <1>1, <2>1, <2>3, <2>4, <2>6, <2>8 DEF LinkInv
<1>5. CASE MasterRead
  <2>1. PICK k : Down!Read(k)
    BY <1>5 DEF MasterRead
  <2>2. UNCHANGED <<asked, dSent, executed, master>>
    BY <1>5, <2>1 DEF MasterRead, own, Down!Read
  <2>3. Len(dReceived) <= Len(dReceived')
    <3>1. dReceived' = dReceived \/ \E m : dReceived' = Append(dReceived, m)
      BY <2>1 DEF Down!Read
    <3>2. ASSUME NEW m, dReceived' = Append(dReceived, m) PROVE Len(dReceived') = Len(dReceived) + 1
      <4>1. dReceived \in Seq(Requests \cup {m})
        BY <1>2
      <4> QED  BY <3>2, <4>1, AppendProperties
    <3> QED  BY <1>2, <3>1, <3>2
  <2> QED  BY <1>1, <2>2, <2>3, LinkStays
<1>6. CASE Execute
  <2>1. PICK n \in Nat : n = Len(executed)
    BY <1>2
  <2>2. /\ executed' = Append(executed, Meaning[dReceived[n + 1]]) /\ Len(dReceived) > n
        /\ UNCHANGED <<asked, dSent, dReceived>>
    BY <1>6, <2>1 DEF Execute, down
  <2>3. n + 1 \in 1..Len(dReceived) /\ n + 1 \in 1..Len(asked)
    BY <1>2, <2>2
  <2>4. dReceived[n + 1] \in Requests /\ dReceived[n + 1] = Request(asked[n + 1])
    BY <1>2, <2>3, InvParts DEF LinkInv
  <2>5. /\ executed' \in Seq({Meaning[m] : m \in Requests}) /\ Len(executed') = n + 1
        /\ executed'[n + 1] = Meaning[dReceived[n + 1]] /\ \A i \in 1..n : executed'[i] = executed[i]
    BY <1>2, <2>1, <2>2, <2>4, AppendProperties
  <2>6. \A i \in 1..(n + 1) : i \in 1..n \/ i = n + 1
    BY <2>1
  <2>7. \A i \in 1..(n + 1) : executed'[i] = Meaning[Request(asked[i])]
    BY <2>1, <2>4, <2>5, <2>6 DEF LinkInv
  <2>8. n + 1 <= Len(dReceived) /\ n + 1 > 0
    BY <1>2, <2>1, <2>3
  <2> QED  BY <1>1, <2>2, <2>5, <2>7, <2>8 DEF LinkInv
<1>7. CASE WorkerWrite \/ WorkerRead \/ Hear \/ Progress \/ Finish \/ MasterWrite
  BY <1>3, <1>7 DEF WorkerWrite, WorkerRead, Hear, Progress, Finish, MasterWrite, down, own,
                    Down!Write
<1>8. CASE KillMaster \/ KillWorker \/ MasterEnds \/ WorkerPipe \/ MasterPipe
  BY <1>3, <1>8 DEF KillMaster, KillWorker, MasterEnds, WorkerPipe, MasterPipe,
                    Down!Die, Down!EndOfStream, Down!BrokenPipe
<1>9. CASE WorkerLoses
  BY <1>3, <1>9 DEF WorkerLoses, down, Down!Die
<1>10. CASE UNCHANGED vars
  BY <1>3, <1>10 DEF vars, down, own
<1> QED
  BY <1>4, <1>5, <1>6, <1>7, <1>8, <1>9, <1>10 DEF Next

LEMMA LinkInit == Init => LinkInv
<1> SUFFICES ASSUME Init PROVE LinkInv
  OBVIOUS
<1>1. DownProof!ChannelInv
  BY LinkConstants, DownIsChannel, DownProof!InitInv DEF Init
<1>2. dSent = <<>> /\ dReceived = <<>> /\ asked = <<>> /\ executed = <<>> /\ master = "recv"
  BY DEF Init, Down!Init
<1> QED  BY <1>1, <1>2 DEF LinkInv

LEMMA UpSteps ==
  ASSUME LinkInv, [Next]_vars
  PROVE  [Up!Next]_(Up!vars)
<1>1. CASE UNCHANGED up
  BY <1>1 DEF up, Up!vars
<1>2. ASSUME NEW j \in Jobs, Ask(j) PROVE UNCHANGED up
  BY <1>2 DEF Ask
<1>3. CASE WorkerWrite \/ MasterRead \/ Hear \/ Execute
  BY <1>1, <1>3 DEF WorkerWrite, MasterRead, Hear, Execute
<1>4. CASE WorkerRead
  BY <1>4 DEF WorkerRead, Up!Next
<1>5. CASE Progress
  <2>1. Percent \in Replies /\ Up!Send(Percent)
    BY <1>5 DEF Progress, Replies
  <2> QED  BY <2>1 DEF Up!Next
<1>6. CASE Finish
  <2>1. PICK k : k = KindOf(dReceived[Len(executed)].cmd)
    OBVIOUS
  <2>2. Up!Send(Answer(k))
    BY <1>6, <2>1 DEF Finish
  <2>3. Answer(k) \in Replies
    <3>1. dReceived[Len(executed)] \in Requests
      BY <1>6, InvParts DEF Finish, LinkInv
    <3>2. PICK j \in Jobs : dReceived[Len(executed)] = Request(j)
      BY <3>1 DEF Requests
    <3>3. k = j.kind /\ j.kind \in Kinds
      BY <2>1, <3>2, RequestIs
    <3> QED  BY <3>3 DEF Replies, Kinds
  <2> QED  BY <2>2, <2>3 DEF Up!Next
<1>7. CASE MasterWrite
  BY <1>7 DEF MasterWrite, Up!Next
<1>8. CASE KillMaster \/ MasterEnds
  BY <1>8 DEF KillMaster, MasterEnds, Up!Next
<1>9. CASE WorkerLoses
  BY <1>9 DEF WorkerLoses, Up!Next
<1>10. CASE MasterPipe
  BY <1>10 DEF MasterPipe, Up!Next
<1>11. CASE KillWorker \/ WorkerPipe
  <2>1. uOpen' = uOpen \ {"reader"} /\ UNCHANGED <<uSent, uStream, uWritten, uTaken, uBuffer, uReceived>>
    BY <1>11 DEF KillWorker, WorkerPipe
  <2>2. CASE "reader" \in uOpen
    BY <2>1, <2>2 DEF Up!Next, Up!Die
  <2>3. CASE "reader" \notin uOpen
    <3>1. uOpen' = uOpen
      BY <2>1, <2>3
    <3> QED  BY <2>1, <3>1 DEF Up!vars
  <2> QED  BY <2>2, <2>3
<1> QED
  BY <1>1, <1>2, <1>3, <1>4, <1>5, <1>6, <1>7, <1>8, <1>9, <1>10, <1>11 DEF Next, vars


(* Both streams are queues of whole messages, wherever a process is killed *)
(* and whatever the sizes of the reads and writes (IpcSocket,              *)
(* src/src/ipc.cpp:27): the safety of BothAreFifo.                         *)
THEOREM StreamsAreQueues == Spec => Down!Fifo!SafeSpec /\ Up!Fifo!SafeSpec
<1>1. DownProof!ChannelConstants /\ UpProof!ChannelConstants
  BY LinkConstants, DownIsChannel, UpIsChannel
<1>2. DownProof!Spec => DownProof!Fifo!SafeSpec
  BY <1>1, DownProof!ChannelIsFifo
<1>3. UpProof!Spec => UpProof!Fifo!SafeSpec
  BY <1>1, UpProof!ChannelIsFifo
<1>4. Init => Down!Init /\ Up!Init
  BY DEF Init
<1> QED  BY <1>2, <1>3, <1>4, LinkInit, LinkNext, DownSteps, UpSteps, DownIsChannel, UpIsChannel, PTL
         DEF Spec, DownProof!Spec, DownProof!Fifo!SafeSpec, Down!Fifo!SafeSpec,
             UpProof!Spec, UpProof!Fifo!SafeSpec, Up!Fifo!SafeSpec
-----------------------------------------------------------------------------
(* What JobsArriveWhole says of one job and what is executed for it.       *)
Whole(job, done) ==
  /\ Regular(job) => done = job
  /\ (job.kind = "train" /\ ~HasNul(job.tags)) =>
        done.flag = job.flag /\ done.tags \o done.text = job.tags \o job.text

TrainShape == [kind : {"train"}, flag : {0, 1}, tags : Bytes, text : Bytes]
TableShape == [kind : {"table"}, table : Bytes, filter : Bytes, offset : Word, limit : Word]

(* The NULs of a text, the three ways they are spoken of.                  *)
LEMMA NoNul ==
  ASSUME NEW t \in Bytes
  PROVE  ~HasNul(t) => Clean(t)
BY LenProperties DEF HasNul, Clean, Bytes

LEMMA BaseIsOK == BaseOK /\ \A m \in Requests : Len(m.payload) \in Word
<1>1. BaseOK /\ \A m \in Requests : m.payload \in Seq(0..Base - 1) /\ Down!Fits(m)
  BY LinkConstants DEF Down!ChannelConstants, BaseOK
<1>2. PICK top : top = Base * (Base * (Base * Base))
  OBVIOUS
<1>3. top \in Nat
  BY <1>1, <1>2 DEF BaseOK
<1> SUFFICES ASSUME NEW m \in Requests PROVE Len(m.payload) \in Word
  BY <1>1
<1>4. Len(m.payload) < top /\ Len(m.payload) \in Nat
  BY <1>1, <1>2, LenProperties DEF Down!Fits
<1>5. Len(m.payload) \in 0..top - 1
  BY <1>3, <1>4
<1> QED  BY <1>2, <1>5 DEF Word

(* Every kind of job, unpacked from what the worker sends for it.          *)
LEMMA TrainIsWhole ==
  ASSUME NEW j \in TrainShape
  PROVE  Whole(j, UnpackTrain(RepackTrain(PackTrain(j))))
<1>1. PICK f \in {0, 1}, tags \in Bytes, text \in Bytes :
        /\ f = j.flag /\ tags = j.tags /\ text = j.text
        /\ j = [kind |-> "train", flag |-> f, tags |-> tags, text |-> text]
  BY DEF TrainShape
<1>2. PICK d : d = <<f>> \o Net2(Len(tags)) \o tags \o text
  OBVIOUS
<1>3. PackTrain(j) = d
  BY <1>1, <1>2 DEF PackTrain
<1>4. CASE HasNul(tags)
  <2>1. j.kind = "train" /\ HasNul(j.tags)
    BY <1>1, <1>4
  <2> QED  BY <2>1 DEF Whole, Regular
<1>5. CASE ~HasNul(tags)
  <2>1. Clean(tags)
    BY <1>5, NoNul
  <2>2. PICK e : e = UnpackTrain(RepackTrain(d))
    OBVIOUS
  <2>3. TrainRead(e, f, tags, text)
    BY <1>2, <2>1, <2>2, BaseIsOK, TrainArrives
  <2>4. PICK a \in Bytes, b \in Bytes :
          /\ e = [kind |-> "train", flag |-> f, tags |-> a, text |-> b]
          /\ a \o b = tags \o text
          /\ Len(tags) < Base * Base => a = tags /\ b = text
    BY <2>3 DEF TrainRead
  <2>5. Regular(j) => e = j
    <3>1. Regular(j) => Len(tags) < Base * Base
      BY <1>1 DEF Regular, Short
    <3> QED  BY <1>1, <2>4, <3>1
  <2>6. e.flag = j.flag /\ e.tags = a /\ e.text = b
    BY <1>1, <2>4
  <2>7. e.tags \o e.text = j.tags \o j.text
    BY <1>1, <2>4, <2>6
  <2>8. Whole(j, e)
    BY <2>5, <2>6, <2>7 DEF Whole
  <2> QED  BY <1>3, <2>2, <2>8
<1> QED  BY <1>4, <1>5

LEMMA TableIsWhole ==
  ASSUME NEW j \in TableShape
  PROVE  Whole(j, UnpackTable(RepackTable(PackTable(j))))
<1>1. j.table \in Bytes /\ j.filter \in Bytes /\ j.kind = "table"
  BY DEF TableShape
<1>2. ASSUME Regular(j) PROVE UnpackTable(RepackTable(PackTable(j))) = j
  <2>1. ~HasNul(j.table) /\ ~HasNul(j.filter)
    BY <1>1, <1>2 DEF Regular
  <2>2. Clean(j.table) /\ Clean(j.filter)
    BY <1>1, <2>1, NoNul
  <2>3. UnpackTable(PackTable(j)) = j
    BY <2>2, BaseIsOK, TableArrives DEF TableShape
  <2>4. RepackTable(PackTable(j)) = PackTable(j)
    BY <2>3 DEF RepackTable
  <2> QED  BY <2>3, <2>4
<1> QED  BY <1>1, <1>2 DEF Whole

LEMMA UmlIsWhole ==
  ASSUME NEW j \in UmlShape, NEW p, p = PackUml(j), Len(p) \in Word
  PROVE  Whole(j, UnpackUml(p))
<1>1. j.kind = "uml"
  BY DEF UmlShape
<1>2. ASSUME Regular(j) PROVE UnpackUml(p) = j
  <2>1. /\ Len(j.sources) < Base * Base /\ Len(j.events) < Base * Base
        /\ \A i \in DOMAIN j.sources : j.sources[i].type # 0
    BY <1>1, <1>2 DEF Regular, Short
  <2> QED  BY <2>1, BaseIsOK, UmlArrives
<1> QED  BY <1>1, <1>2 DEF Whole

LEMMA JobIsWhole ==
  ASSUME NEW j \in Jobs
  PROVE  Whole(j, Meaning[Request(j)])
<1>1. /\ Request(j) \in Requests /\ Meaning[Request(j)] = Unpacked(j.kind, Payload(j))
  BY RequestIs
<1>2. Len(Payload(j)) \in Word
  <2>1. Request(j).payload = Payload(j)
    BY DEF Request
  <2> QED  BY <1>1, <2>1, BaseIsOK
<1>3. j \in TrainShape \/ j \in [kind : {"list"}] \/ j \in TableShape \/ j \in UmlShape
  BY LinkConstants DEF JobShape, TrainShape, TableShape, UmlShape
<1>4. CASE j \in TrainShape
  <2>1. j.kind = "train"
    BY <1>4 DEF TrainShape
  <2>2. Meaning[Request(j)] = UnpackTrain(RepackTrain(PackTrain(j)))
    BY <1>1, <2>1 DEF Unpacked, Payload
  <2> QED  BY <1>4, <2>2, TrainIsWhole
<1>5. CASE j \in [kind : {"list"}]
  <2>1. j.kind = "list" /\ j = [kind |-> "list"]
    BY <1>5
  <2>2. Meaning[Request(j)] = j
    BY <1>1, <2>1 DEF Unpacked
  <2> QED  BY <2>1, <2>2 DEF Whole
<1>6. CASE j \in TableShape
  <2>1. j.kind = "table"
    BY <1>6 DEF TableShape
  <2>2. Meaning[Request(j)] = UnpackTable(RepackTable(PackTable(j)))
    BY <1>1, <2>1 DEF Unpacked, Payload
  <2> QED  BY <1>6, <2>2, TableIsWhole
<1>7. CASE j \in UmlShape
  <2>1. j.kind = "uml"
    BY <1>7 DEF UmlShape
  <2>2. PICK p : p = PackUml(j)
    OBVIOUS
  <2>3. Payload(j) = p /\ Meaning[Request(j)] = UnpackUml(p)
    BY <1>1, <2>1, <2>2 DEF Unpacked, Payload
  <2> QED  BY <1>2, <1>7, <2>2, <2>3, UmlIsWhole
<1> QED  BY <1>3, <1>4, <1>5, <1>6, <1>7

LEMMA ExecutedAreWhole == LinkInv => JobsArriveWhole
<1> SUFFICES ASSUME LinkInv, NEW i \in DOMAIN executed
             PROVE  Whole(asked[i], executed[i])
  BY DEF JobsArriveWhole, Whole
<1>1. /\ executed \in Seq({Meaning[m] : m \in Requests}) /\ asked \in Seq(Jobs)
      /\ Len(executed) <= Len(dReceived) /\ Len(dSent) = Len(asked)
  BY DEF LinkInv
<1>2. Len(dReceived) \in Nat /\ Len(dReceived) <= Len(dSent)
  BY InvParts DEF LinkInv
<1>3. i \in 1..Len(executed) /\ i \in 1..Len(asked)
  BY <1>1, <1>2, LenProperties
<1>4. asked[i] \in Jobs
  BY <1>1, <1>3, LenProperties
<1>5. executed[i] = Meaning[Request(asked[i])]
  BY <1>3 DEF LinkInv
<1> QED  BY <1>4, <1>5, JobIsWhole

(* What the master carries out is what the handler was given, for any      *)
(* jobs, any base and any sizes of reads and writes (JobsArriveWhole:      *)
(* src/src/admin.cpp:435-441, src/src/worker_admin.cpp:31-44,              *)
(* src/src/worker_master.cpp:44-54).                                       *)
THEOREM JobsAreWhole == Spec => []JobsArriveWhole
BY LinkInit, LinkNext, ExecutedAreWhole, PTL DEF Spec
=============================================================================
