--------------------------- MODULE MCCodecProofs ---------------------------
(***************************************************************************)
(* Proofs about the frame decoder, for every base, every size of a VarInt, *)
(* any bodies, and however the bytes are cut into reads.                   *)
(*                                                                         *)
(* The frames not yet handed out lie one behind the other in what is       *)
(* buffered and on the wire.  Where frame i begins is place[i], which is   *)
(* below zero for a frame whose length was taken off already.  Dropping k  *)
(* bytes from the front moves every place by k, so no step needs to know   *)
(* how many frames there are.                                              *)
(***************************************************************************)
EXTENDS VarIntProofs

Rest == buf \o wire
Out == Len(frames)

Types ==
  /\ stray \in 0..MaxStray /\ cut \in BOOLEAN
  /\ sent \in Seq(Body) /\ Len(sent) <= MaxFrames
  /\ wire \in Seq(Byte) /\ buf \in Seq(Byte)
  /\ state \in {LenState} \cup [tag : {"Data"}, n : Nat]
  /\ turn \in {"actor", "decoder", "socket"}
  /\ status \in {"open", "errored", "panicked"}
  /\ frames \in Seq(RawPacket)

(* Frame i of fs lies at its place of s, the part of it that is behind the *)
(* front, and ends in s, where the next one begins.                        *)
Lies(i, place, s, fs) ==
  /\ place[i + 1] = place[i] + Len(Encode(fs[i])) /\ place[i + 1] <= Len(s)
  /\ \A j \in 1..Len(Encode(fs[i])) :
       place[i] + j > 0 => s[place[i] + j] = Encode(fs[i])[j]
Laid(place, s, fs, out) ==
  /\ place \in [1..Len(fs) + 1 -> Int]
  /\ \A i \in out + 1..Len(fs) : Lies(i, place, s, fs)

(* The decoder is in front of the next frame or of its body.               *)
Placed(place) ==
  \/ state = LenState /\ place[Out + 1] = 0
  \/ /\ Out < Len(sent) /\ state = Data(Len(sent[Out + 1]))
     /\ place[Out + 1] = -Len(VarInt[Len(sent[Out + 1])])

InOrder ==
  /\ Out <= Len(sent) /\ \A i \in 1..Out : frames[i] = Frame(sent[i])
  /\ status = "open"
  /\ \E place : Laid(place, Rest, sent, Out) /\ Placed(place)
                /\ (stray = 0 => place[Len(sent) + 1] = Len(Rest))
  /\ Out = Len(sent) => stray = 0

(* Stray bytes were all that was left: they may be decoded into anything.  *)
Overrun ==
  stray > 0 /\ Out >= Len(sent) /\ \A i \in 1..Len(sent) : frames[i] = Frame(sent[i])

(* It waits for the socket only with a part of a length or of a body.      *)
Waits ==
  turn = "socket" => \/ state = LenState /\ ReadVarInt(buf).is = "short"
                     \/ state # LenState /\ Len(buf) < state.n

(* Whatever framer an actor builds next, it starts with a length.          *)
Fresh == turn = "actor" => state = LenState

IndInv ==
  Types /\ Fresh /\ Waits /\ (cut = TRUE \/ InOrder \/ Overrun)

-----------------------------------------------------------------------------
(* The elements of a concatenation. *)
LEMMA ConcatElements ==
  ASSUME NEW S, NEW s \in Seq(S), NEW t \in Seq(S)
  PROVE  /\ s \o t \in Seq(S) /\ Len(s \o t) = Len(s) + Len(t)
         /\ \A j \in 1..Len(s) : (s \o t)[j] = s[j]
         /\ \A j \in 1..Len(t) : (s \o t)[Len(s) + j] = t[j]
  OBVIOUS

(* A sequence that begins like another, no longer one, is its prefix.      *)
LEMMA PrefixOf ==
  ASSUME NEW S, NEW s \in Seq(S), NEW t \in Seq(S), Len(s) <= Len(t),
         \A j \in 1..Len(s) : s[j] = t[j]
  PROVE  IsPrefix(s, t)
  <1>1. Len(s) \in Nat /\ Len(t) \in Nat
    OBVIOUS
  <1>2. SubSeq(s, 1, Len(s)) = SubSeq(t, 1, Len(s))
    BY <1>1
  <1> QED  BY <1>1, <1>2 DEF IsPrefix

(* What is behind the first k of a sequence. *)
LEMMA AfterProperties ==
  ASSUME NEW S, NEW s \in Seq(S), NEW k \in 0..Len(s)
  PROVE  /\ After(k, s) \in Seq(S) /\ Len(After(k, s)) = Len(s) - k
         /\ \A j \in 1..Len(s) - k : After(k, s)[j] = s[k + j]
  BY DEF After

(* A frame is the VarInt of its length and its body.                       *)
LEMMA EncodeProperties ==
  ASSUME NEW b \in Body
  PROVE  LET v == VarInt[Len(b)] IN
         /\ b \in Seq(Byte) /\ v \in Seq(Byte) /\ Len(v) \in 1..VarIntMax
         /\ EndsAt(v, Len(v)) /\ Value(v) = Len(b)
         /\ Encode(b) \in Seq(Byte) /\ Len(Encode(b)) = Len(v) + Len(b)
         /\ \A j \in 1..Len(v) : Encode(b)[j] = v[j]
         /\ \A j \in 1..Len(b) : Encode(b)[Len(v) + j] = b[j]
  <1> DEFINE v == VarInt[Len(b)]
  <1>1. b \in Seq(Byte) /\ Len(b) \in 0..Wrap - 1 /\ Len(b) < Wrap \div 2
    <2>1. b \in Seq(Byte) /\ Len(b) < Wrap \div 2
      BY BodyAssumption
    <2> QED  BY <2>1, VarIntAssumption
  <1>2. /\ v \in Seq(Byte) /\ Len(v) \in 1..VarIntMax
        /\ EndsAt(v, Len(v)) /\ Digits(v) = Len(b)
    BY <1>1, VarIntTyped, VarIntLength, VarIntEnds, DigitsOfVarInt
  <1>3. Value(v) = Len(b)
    BY <1>1, <1>2, SignedOf DEF Value
  <1> HIDE DEF v
  <1>4. /\ v \o b \in Seq(Byte) /\ Len(v \o b) = Len(v) + Len(b)
        /\ \A j \in 1..Len(v) : (v \o b)[j] = v[j]
        /\ \A j \in 1..Len(b) : (v \o b)[Len(v) + j] = b[j]
    BY <1>1, <1>2, ConcatElements
  <1>5. Encode(b) = v \o b
    BY DEF Encode, v
  <1> QED  BY <1>1, <1>2, <1>3, <1>4, <1>5 DEF v

-----------------------------------------------------------------------------
(* What is buffered and on the wire, byte by byte.                         *)
LEMMA RestProperties ==
  ASSUME Types
  PROVE  /\ Rest \in Seq(Byte) /\ Len(Rest) = Len(buf) + Len(wire)
         /\ \A j \in 1..Len(buf) : Rest[j] = buf[j]
         /\ \A j \in 1..Len(wire) : Rest[Len(buf) + j] = wire[j]
         /\ Len(buf) \in Nat /\ Len(wire) \in Nat /\ Len(sent) \in Nat
  BY DEF Types, Rest

(* How many frames are out is a number. *)
LEMMA OutIsNat ==
  /\ Types => Out \in Nat
  /\ Types' => Out' \in Nat
  BY DEF Types, Out

(* The decoder in front of a length: it is there, or not yet.              *)
LEMMA HeadRead ==
  ASSUME Types, InOrder, state = LenState
  PROVE  \/ /\ ReadVarInt(buf) = [is |-> "short"]
            /\ Out < Len(sent) => Len(buf) < Len(VarInt[Len(sent[Out + 1])])
         \/ /\ Out < Len(sent)
            /\ Len(VarInt[Len(sent[Out + 1])]) <= Len(buf)
            /\ ReadVarInt(buf) = [is |-> "ok", len |-> Len(VarInt[Len(sent[Out + 1])]),
                                  val |-> Len(sent[Out + 1])]
  <1>1. PICK place : /\ Laid(place, Rest, sent, Out) /\ Placed(place)
                     /\ (stray = 0 => place[Len(sent) + 1] = Len(Rest))
    BY DEF InOrder
  <1>2. place[Out + 1] = 0
    BY <1>1 DEF Placed, Data, LenState
  <1>3. Out \in Nat /\ Len(buf) \in Nat /\ Len(sent) \in Nat /\ Out <= Len(sent) /\ buf \in Seq(Byte)
    BY OutIsNat, RestProperties DEF InOrder, Types
  <1>4. CASE Out = Len(sent)
    <2>1. Len(buf) = 0
      BY <1>1, <1>2, <1>3, <1>4, RestProperties DEF InOrder
    <2>2. \A k \in 1..VarIntMax : ~EndsAt(buf, k)
      BY <2>1, VarIntAssumption DEF EndsAt
    <2> QED  BY <1>3, <1>4, <2>1, <2>2, VarIntAssumption DEF ReadVarInt
  <1>5. CASE Out < Len(sent)
    <2> DEFINE b == sent[Out + 1]
               v == VarInt[Len(b)]
    <2>1. b \in Body
      BY <1>3, <1>5 DEF Types
    <2> HIDE DEF b
    <2>2. Lies(Out + 1, place, Rest, sent)
      BY <1>1, <1>3, <1>5 DEF Laid
    <2>3. /\ v \in Seq(Byte) /\ Len(v) \in 1..VarIntMax /\ EndsAt(v, Len(v)) /\ Value(v) = Len(b)
          /\ Len(b) \in Nat /\ Len(Encode(b)) = Len(v) + Len(b)
          /\ \A j \in 1..Len(v) : Encode(b)[j] = v[j]
      BY <2>1, EncodeProperties
    <2> HIDE DEF v
    <2>4. \A j \in 1..Len(Encode(b)) : Rest[j] = Encode(b)[j]
      BY <1>2, <1>3, <2>2, <2>3 DEF Lies, b
    <2>5. \A j \in 1..Len(buf) : j <= Len(v) => buf[j] = v[j]
      BY <1>3, <2>3, <2>4, RestProperties
    <2>6. CASE Len(v) <= Len(buf)
      <3>1. EndsAt(buf, Len(v)) /\ SubSeq(buf, 1, Len(v)) = SubSeq(v, 1, Len(v))
        <4>1. \A j \in 1..Len(v) : buf[j] = v[j]
          BY <1>3, <2>3, <2>5, <2>6
        <4>2. Len(v) \in 1..VarIntMax /\ EndsAt(v, Len(v)) /\ v \in Seq(Byte) /\ buf \in Seq(Byte)
          BY <1>3, <2>3
        <4> QED  BY <2>6, <4>1, <4>2, EndsBeyond
      <3>2. SubSeq(v, 1, Len(v)) = v
        BY <2>3
      <3>3. ReadVarInt(buf) = [is |-> "ok", len |-> Len(v), val |-> Value(SubSeq(buf, 1, Len(v)))]
        BY <2>3, <3>1, ReadEnds
      <3> QED  BY <1>5, <2>3, <2>6, <3>1, <3>2, <3>3 DEF b, v
    <2>7. CASE Len(buf) < Len(v)
      <3>1. ReadVarInt(buf) = [is |-> "short"]
        BY <1>3, <2>3, <2>5, <2>7, ReadShort
      <3> QED  BY <2>7, <3>1 DEF b, v
    <2> QED  BY <1>3, <2>3, <2>6, <2>7
  <1> QED  BY <1>3, <1>4, <1>5

(* The decoder in front of a body that is there: it is the one sent.       *)
LEMMA BodyRead ==
  ASSUME Types, InOrder, state # LenState
  PROVE  /\ Out < Len(sent) /\ state.n = Len(sent[Out + 1]) /\ sent[Out + 1] \in Body
         /\ Len(buf) >= state.n =>
              /\ ReadVarInt(buf) = ReadVarInt(sent[Out + 1]) /\ ReadVarInt(buf).is = "ok"
              /\ ReadVarInt(buf).len \in 1..state.n
              /\ SubSeq(buf, 1, state.n) = sent[Out + 1]
  <1>1. PICK place : Laid(place, Rest, sent, Out) /\ Placed(place)
    BY DEF InOrder
  <1> DEFINE b == sent[Out + 1]
             v == VarInt[Len(b)]
  <1>2. Out < Len(sent) /\ state = Data(Len(b)) /\ place[Out + 1] = -Len(v)
    BY <1>1 DEF Placed
  <1>3. Out \in Nat /\ Len(buf) \in Nat /\ Len(sent) \in Nat /\ buf \in Seq(Byte)
    BY OutIsNat, RestProperties DEF Types
  <1>4. b \in Body
    BY <1>2, <1>3 DEF Types
  <1>5. Lies(Out + 1, place, Rest, sent)
    BY <1>1, <1>2, <1>3 DEF Laid
  <1>6. state.n = Len(b)
    BY <1>2 DEF Data
  <1> HIDE DEF b
  <1>7. /\ b \in Seq(Byte) /\ Len(v) \in Nat /\ Len(b) \in Nat
        /\ Len(Encode(b)) = Len(v) + Len(b)
        /\ \A j \in 1..Len(b) : Encode(b)[Len(v) + j] = b[j]
    BY <1>4, EncodeProperties, VarIntAssumption
  <1> HIDE DEF v
  <1>8. \A j \in 1..Len(b) : Rest[j] = b[j]
    <2> SUFFICES ASSUME NEW j \in 1..Len(b) PROVE Rest[j] = b[j]
      OBVIOUS
    <2>1. Len(v) + j \in 1..Len(Encode(b)) /\ place[Out + 1] + (Len(v) + j) = j /\ j > 0
      BY <1>2, <1>7
    <2>2. Rest[place[Out + 1] + (Len(v) + j)] = Encode(b)[Len(v) + j]
      BY <1>5, <2>1 DEF Lies, b
    <2> QED  BY <1>7, <2>1, <2>2
  <1>9. ASSUME Len(buf) >= Len(b)
        PROVE  /\ ReadVarInt(buf) = ReadVarInt(b) /\ ReadVarInt(buf).is = "ok"
               /\ ReadVarInt(buf).len \in 1..Len(b) /\ SubSeq(buf, 1, Len(b)) = b
    <2>1. \A j \in 1..Len(b) : buf[j] = b[j]
      BY <1>3, <1>7, <1>8, <1>9, RestProperties
    <2>2. ReadVarInt(b).is = "ok"
      BY <1>4, BodyAssumption
    <2>3. PICK i \in 1..VarIntMax : EndsAt(b, i)
      BY <2>2, ReadOk
    <2>4. EndsAt(buf, i) /\ SubSeq(buf, 1, i) = SubSeq(b, 1, i)
      BY <1>3, <1>7, <1>9, <2>1, <2>3, EndsBeyond
    <2>5. ReadVarInt(buf) = ReadVarInt(b)
      BY <2>3, <2>4, ReadEnds
    <2>6. SubSeq(buf, 1, Len(b)) = b
      BY <1>3, <1>7, <1>9, <2>1
    <2> QED  BY <1>7, <2>2, <2>5, <2>6, ReadLength
  <1> QED  BY <1>2, <1>4, <1>6, <1>9 DEF b

(* Dropping bytes from the front moves the places of what is behind.       *)
LEMMA Drop ==
  ASSUME NEW r \in Seq(Byte), NEW k \in 0..Len(r), NEW fs \in Seq(Body),
         NEW m \in Nat, NEW n \in Nat, m <= n, NEW place, Laid(place, r, fs, m)
  PROVE  \E q : /\ Laid(q, After(k, r), fs, n) /\ \A i \in 1..Len(fs) + 1 : q[i] = place[i] - k
  <1> DEFINE q == [i \in 1..Len(fs) + 1 |-> place[i] - k]
             t == After(k, r)
  <1>1. Len(fs) \in Nat /\ Len(r) \in Nat
    OBVIOUS
  <1>2. Len(t) = Len(r) - k /\ \A j \in 1..Len(r) - k : t[j] = r[k + j]
    BY AfterProperties
  <1>3. place \in [1..Len(fs) + 1 -> Int]
    BY DEF Laid
  <1>4. q \in [1..Len(fs) + 1 -> Int] /\ \A i \in 1..Len(fs) + 1 : q[i] = place[i] - k
    BY <1>3
  <1> HIDE DEF q, t
  <1>5. ASSUME NEW i \in n + 1..Len(fs) PROVE Lies(i, q, t, fs)
    <2>1. /\ i \in m + 1..Len(fs) /\ i \in 1..Len(fs) + 1 /\ i + 1 \in 1..Len(fs) + 1
          /\ i \in 1..Len(fs)
      BY <1>1
    <2>2. Lies(i, place, r, fs)
      BY <2>1 DEF Laid
    <2>3. Len(Encode(fs[i])) \in Nat
      BY <2>1, EncodeProperties
    <2>4. /\ q[i] = place[i] - k /\ q[i + 1] = place[i + 1] - k
          /\ place[i] \in Int /\ place[i + 1] \in Int
      BY <1>3, <1>4, <2>1
    <2>5. q[i + 1] = q[i] + Len(Encode(fs[i])) /\ q[i + 1] <= Len(t)
      BY <1>1, <1>2, <2>2, <2>3, <2>4 DEF Lies
    <2>6. ASSUME NEW j \in 1..Len(Encode(fs[i])), q[i] + j > 0
          PROVE  t[q[i] + j] = Encode(fs[i])[j]
      <3>1. place[i] + j > 0 /\ q[i] + j \in 1..Len(r) - k /\ k + (q[i] + j) = place[i] + j
        <4>1. k \in Nat /\ q[i] \in Int /\ place[i] = q[i] + k /\ q[i + 1] = q[i] + Len(Encode(fs[i]))
          BY <1>1, <2>4, <2>5
        <4>2. q[i] + Len(Encode(fs[i])) <= Len(r) - k
          BY <1>2, <2>5
        <4> QED  BY SMTT(30), <1>1, <2>3, <2>6, <4>1, <4>2
      <3>2. r[place[i] + j] = Encode(fs[i])[j]
        BY <2>2, <3>1 DEF Lies
      <3> QED  BY <1>2, <3>1, <3>2
    <2> QED  BY <2>5, <2>6 DEF Lies
  <1>6. Laid(q, t, fs, n)
    BY <1>4, <1>5 DEF Laid
  <1> QED  BY <1>4, <1>6 DEF t

(* What the decoder takes off the buffer it takes off the front of it all. *)
LEMMA RestAfter ==
  ASSUME NEW s \in Seq(Byte), NEW t \in Seq(Byte), NEW k \in 0..Len(s)
  PROVE  After(k, s) \o t = After(k, s \o t) /\ k \in 0..Len(s \o t)
  <1> DEFINE u == After(k, s)
             l == u \o t
             r == After(k, s \o t)
  <1>1. /\ Len(s) \in Nat /\ Len(t) \in Nat /\ s \o t \in Seq(Byte)
        /\ Len(s \o t) = Len(s) + Len(t)
        /\ \A j \in 1..Len(s) : (s \o t)[j] = s[j]
        /\ \A j \in 1..Len(t) : (s \o t)[Len(s) + j] = t[j]
    OBVIOUS
  <1>2. k \in 0..Len(s \o t)
    BY <1>1
  <1>3. /\ u \in Seq(Byte) /\ Len(u) = Len(s) - k /\ \A j \in 1..Len(s) - k : u[j] = s[k + j]
    BY AfterProperties
  <1>4. /\ r \in Seq(Byte) /\ Len(r) = Len(s \o t) - k
        /\ \A j \in 1..Len(s \o t) - k : r[j] = (s \o t)[k + j]
    BY <1>1, <1>2, AfterProperties
  <1> HIDE DEF u
  <1>5. /\ l \in Seq(Byte) /\ Len(l) = Len(u) + Len(t)
        /\ \A j \in 1..Len(u) : l[j] = u[j]
        /\ \A j \in 1..Len(t) : l[Len(u) + j] = t[j]
    <2>1. u \in Seq(Byte)
      BY <1>3
    <2> QED  BY <2>1, ConcatElements
  <1> HIDE DEF l, r
  <1>6. Len(l) = Len(r)
    BY <1>1, <1>3, <1>4, <1>5
  <1>7. ASSUME NEW j \in 1..Len(l) PROVE l[j] = r[j]
    <2>1. CASE j <= Len(u)
      BY <1>1, <1>3, <1>4, <1>5, <2>1
    <2>2. CASE j > Len(u)
      <3> DEFINE i == j - Len(u)
      <3>1. i \in 1..Len(t) /\ Len(u) + i = j /\ Len(s) + i = k + j /\ j \in 1..Len(s \o t) - k
        BY <1>1, <1>3, <1>5, <2>2
      <3> HIDE DEF i
      <3>2. l[j] = t[i]
        BY <1>5, <3>1
      <3>3. r[j] = t[i]
        BY <1>1, <1>4, <3>1
      <3> QED  BY <3>2, <3>3
    <2> QED  BY <1>3, <2>1, <2>2
  <1>8. l = r
    BY <1>4, <1>5, <1>6, <1>7, SeqEqual
  <1> QED  BY <1>2, <1>8 DEF l, r, u

-----------------------------------------------------------------------------
(* The bytes from behind place i to place n. *)
LEMMA MiddleOfBytes ==
  ASSUME NEW s \in Seq(Byte), NEW n \in 0..Len(s), NEW i \in 0..n
  PROVE  /\ SubSeq(s, i + 1, n) \in Seq(Byte) /\ Len(SubSeq(s, i + 1, n)) = n - i
         /\ \A j \in 1..n - i : SubSeq(s, i + 1, n)[j] = s[i + j]
  OBVIOUS

(* Pieces of sequences of bytes are sequences of bytes. *)
LEMMA PieceOfBytes ==
  ASSUME NEW s \in Seq(Byte), NEW k \in 0..Len(s)
  PROVE  /\ SubSeq(s, 1, k) \in Seq(Byte) /\ After(k, s) \in Seq(Byte)
         /\ SubSeq(s, 1, k) \o After(k, s) = s
  <1>1. /\ SubSeq(s, 1, k) \in Seq(Byte) /\ Len(SubSeq(s, 1, k)) = k
        /\ \A j \in 1..k : SubSeq(s, 1, k)[j] = s[j]
    OBVIOUS
  <1>2. /\ After(k, s) \in Seq(Byte) /\ Len(After(k, s)) = Len(s) - k
        /\ \A j \in 1..Len(s) - k : After(k, s)[j] = s[k + j]
    BY AfterProperties
  <1> DEFINE a == SubSeq(s, 1, k)
             b == After(k, s)
             c == a \o b
  <1> HIDE DEF a, b
  <1>3. /\ c \in Seq(Byte) /\ Len(c) = Len(a) + Len(b)
        /\ \A j \in 1..Len(a) : c[j] = a[j]
        /\ \A j \in 1..Len(b) : c[Len(a) + j] = b[j]
    <2>1. a \in Seq(Byte) /\ b \in Seq(Byte)
      BY <1>1, <1>2 DEF a, b
    <2> QED  BY <2>1, ConcatElements
  <1> HIDE DEF c
  <1>4. /\ Len(s) \in Nat /\ k \in Nat /\ Len(a) = k /\ Len(b) = Len(s) - k
        /\ \A j \in 1..k : a[j] = s[j]
        /\ \A j \in 1..Len(s) - k : b[j] = s[k + j]
    BY <1>1, <1>2 DEF a, b
  <1>5. ASSUME NEW j \in 1..Len(s) PROVE c[j] = s[j]
    <2>1. CASE j <= k
      BY <1>3, <1>4, <2>1
    <2>2. CASE j > k
      <3> DEFINE i == j - k
      <3>1. i \in 1..Len(s) - k /\ i \in 1..Len(b) /\ Len(a) + i = j /\ k + i = j
        BY <1>4, <2>2
      <3> HIDE DEF i
      <3>2. c[j] = b[i]
        BY <1>3, <3>1
      <3>3. b[i] = s[j]
        BY <1>4, <3>1
      <3> QED  BY <3>2, <3>3
    <2> QED  BY <1>4, <2>1, <2>2
  <1>6. Len(c) = Len(s)
    BY <1>3, <1>4
  <1>7. c = s
    BY <1>3, <1>5, <1>6, SeqEqual
  <1> QED  BY <1>1, <1>2, <1>7 DEF a, b, c

(* The outcomes of a call of decode, those of its two halves.              *)
LEMMA DecodeHeadOutcomes ==
  ASSUME Types, DecodeHead
  PROVE  /\ status = "open" /\ turn = "decoder" /\ state = LenState
         /\ UNCHANGED <<sent, stray, wire, cut>>
         /\ \/ ReadVarInt(buf).is = "short" /\ AwaitMore
            \/ /\ ReadVarInt(buf).is \notin {"short", "ok"}
               /\ Fail("errored")
            \/ ReadVarInt(buf).is = "ok" /\ ReadVarInt(buf).val \notin Nat /\ Fail("panicked")
            \/ /\ ReadVarInt(buf).is = "ok" /\ ReadVarInt(buf).val \in Nat
               /\ ReadVarInt(buf).len \in 1..Len(buf) /\ HeadTaken(ReadVarInt(buf))
  <1>1. buf \in Seq(Byte)
    BY DEF Types
  <1>2. ReadVarInt(buf).is = "ok" => ReadVarInt(buf).len \in 1..Len(buf)
    BY <1>1, ReadLength
  <1> QED  BY <1>2 DEF DecodeHead, Decoding, Early, Reservable

LEMMA DecodeBodyOutcomes ==
  ASSUME Types, DecodeBody
  PROVE  /\ status = "open" /\ turn = "decoder" /\ state # LenState /\ state.n \in Nat
         /\ UNCHANGED <<sent, stray, wire, cut>>
         /\ \/ Len(buf) < state.n /\ AwaitMore
            \/ Len(buf) >= state.n /\ ReadVarInt(buf).is # "ok" /\ Fail("errored")
            \/ /\ Len(buf) >= state.n /\ ReadVarInt(buf).is = "ok"
               /\ state.n \notin ReadVarInt(buf).len..Len(buf) /\ Fail("panicked")
            \/ /\ Len(buf) >= state.n /\ ReadVarInt(buf).is = "ok"
               /\ ReadVarInt(buf).val \in Int
               /\ state.n \in ReadVarInt(buf).len..Len(buf) /\ ReadVarInt(buf).len \in 1..Len(buf)
               /\ PacketTaken(ReadVarInt(buf), state.n)
  <1>1. buf \in Seq(Byte) /\ Len(buf) \in Nat
    BY DEF Types
  <1>2. ReadVarInt(buf).is = "ok" =>
          ReadVarInt(buf).len \in 1..Len(buf) /\ ReadVarInt(buf).val \in Int
    BY <1>1, ReadLength, ReadTyped
  <1>3. state # LenState /\ state.n \in Nat
    BY DEF Types, DecodeBody
  <1> QED  BY <1>1, <1>2, <1>3 DEF DecodeBody, Decoding, BodyThere, BodySize

(* A packet more is a sequence still, of what was there and the packet.    *)
LEMMA AppendTyped ==
  ASSUME NEW S, NEW s \in Seq(S), NEW e
  PROVE  /\ Append(s, e) \in Seq(S \cup {e}) /\ Len(Append(s, e)) = Len(s) + 1
         /\ \A i \in 1..Len(s) : Append(s, e)[i] = s[i]
         /\ Append(s, e)[Len(s) + 1] = e
  <1>1. s \in Seq(S \cup {e}) /\ e \in S \cup {e}
    OBVIOUS
  <1> QED  BY <1>1

(* Every step keeps the types. *)
LEMMA TypesStep ==
  ASSUME Types, [Next]_vars
  PROVE  Types'
  <1>0. /\ buf \in Seq(Byte) /\ wire \in Seq(Byte) /\ Len(buf) \in Nat /\ Len(wire) \in Nat
        /\ Len(frames) \in Nat /\ sent \in Seq(Body) /\ Len(sent) \in Nat
    BY DEF Types
  <1>1. CASE DecodeHead
    <2>1. CASE UNCHANGED <<buf, state, frames>> /\ turn' \in {turn, "socket"}
               /\ status' \in {status, "errored", "panicked"}
      BY <1>1, <2>1, DecodeHeadOutcomes DEF Types
    <2>2. CASE ReadVarInt(buf).val \in Nat /\ ReadVarInt(buf).len \in 1..Len(buf)
               /\ HeadTaken(ReadVarInt(buf))
      <3>1. buf' \in Seq(Byte)
        BY <1>0, <2>2, PieceOfBytes DEF HeadTaken
      <3>2. state' \in [tag : {"Data"}, n : Nat]
        BY <2>2 DEF HeadTaken, Data
      <3> QED  BY <1>1, <2>2, <3>1, <3>2, DecodeHeadOutcomes DEF Types, HeadTaken
    <2> QED  BY <1>1, <2>1, <2>2, DecodeHeadOutcomes DEF AwaitMore, Fail
  <1>2. CASE DecodeBody
    <2>1. CASE UNCHANGED <<buf, state, frames>> /\ turn' \in {turn, "socket"}
               /\ status' \in {status, "errored", "panicked"}
      BY <1>2, <2>1, DecodeBodyOutcomes DEF Types
    <2>2. CASE /\ state.n \in ReadVarInt(buf).len..Len(buf) /\ ReadVarInt(buf).len \in 1..Len(buf)
               /\ ReadVarInt(buf).val \in Int
               /\ PacketTaken(ReadVarInt(buf), state.n)
      <3> DEFINE p == [id |-> ReadVarInt(buf).val,
                       payload |-> SubSeq(buf, ReadVarInt(buf).len + 1, state.n)]
      <3>1. state.n \in 0..Len(buf) /\ ReadVarInt(buf).len \in Nat /\ state.n \in Nat
        BY <1>0, <1>2, <2>2, DecodeBodyOutcomes
      <3>2. buf' \in Seq(Byte) /\ state' = LenState /\ turn' = "actor" /\ status' = status
        BY <1>0, <2>2, <3>1, PieceOfBytes DEF PacketTaken
      <3>3. p \in RawPacket
        <4>1. p.payload \in Seq(Byte)
          BY <1>0, <2>2, <3>1
        <4>2. p.id \in Int
          BY <2>2
        <4> QED  BY <4>1, <4>2 DEF RawPacket
      <3>4. frames' = Append(frames, p)
        BY <2>2 DEF PacketTaken
      <3> HIDE DEF p
      <3>5. frames' \in Seq(RawPacket)
        BY <3>3, <3>4 DEF Types
      <3> QED  BY <1>2, <3>2, <3>5, DecodeBodyOutcomes DEF Types
    <2> QED  BY <1>2, <2>1, <2>2, DecodeBodyOutcomes DEF AwaitMore, Fail
  <1>3. CASE NextFrame
    BY <1>3 DEF NextFrame, Types
  <1>4. CASE Fill
    <2>1. PICK k \in 1..Len(wire) : buf' = buf \o SubSeq(wire, 1, k) /\ wire' = After(k, wire)
      BY <1>4 DEF Fill
    <2>2. SubSeq(wire, 1, k) \in Seq(Byte) /\ wire' \in Seq(Byte)
      BY <1>0, <2>1, PieceOfBytes
    <2>3. buf' \in Seq(Byte)
      BY <1>0, <2>1, <2>2
    <2> QED  BY <1>4, <2>2, <2>3 DEF Fill, Types
  <1>5. CASE Rebuild
    <2>1. buf' \in Seq(Byte) /\ cut' \in BOOLEAN
      BY <1>5 DEF Rebuild
    <2> QED  BY <1>5, <2>1 DEF Rebuild, Types
  <1>6. ASSUME NEW body \in Body, PeerSend(body) PROVE Types'
    <2>1. sent' \in Seq(Body) /\ Len(sent') <= MaxFrames
      BY <1>0, <1>6, BoundAssumption DEF PeerSend
    <2>2. wire' \in Seq(Byte)
      BY <1>0, <1>6, EncodeProperties DEF PeerSend
    <2> QED  BY <1>6, <2>1, <2>2 DEF PeerSend, Types
  <1>7. ASSUME NEW byte \in Byte, PeerStray(byte) PROVE Types'
    <2>1. stray' \in 0..MaxStray
      BY <1>7, BoundAssumption DEF PeerStray, Types
    <2>2. wire' \in Seq(Byte)
      BY <1>0, <1>7 DEF PeerStray
    <2> QED  BY <1>7, <2>1, <2>2 DEF PeerStray, Types
  <1>8. CASE UNCHANGED vars
    BY <1>8 DEF vars, Types
  <1> QED  BY <1>1, <1>2, <1>3, <1>4, <1>5, <1>6, <1>7, <1>8 DEF Next, Decode, Framed

(* The decoder gives the turn to the actor only with a packet, and is then *)
(* in front of a length.                                                   *)
LEMMA FreshStep ==
  ASSUME Types, Fresh, [Next]_vars
  PROVE  Fresh'
  <1> USE DEF Fresh
  <1>1. CASE DecodeHead
    BY <1>1, DecodeHeadOutcomes DEF AwaitMore, Fail, HeadTaken
  <1>2. CASE DecodeBody
    BY <1>2, DecodeBodyOutcomes DEF AwaitMore, Fail, PacketTaken
  <1>3. CASE Framed \/ Rebuild \/ UNCHANGED vars
    BY <1>3 DEF Framed, NextFrame, Fill, Rebuild, vars
  <1>4. CASE (\E body \in Body : PeerSend(body)) \/ (\E byte \in Byte : PeerStray(byte))
    BY <1>4 DEF PeerSend, PeerStray
  <1> QED  BY <1>1, <1>2, <1>3, <1>4 DEF Next, Decode

(* It is given the turn after every read, and what the peer sends does not *)
(* touch the buffer.                                                       *)
LEMMA WaitsStep ==
  ASSUME Types, Waits, [Next]_vars
  PROVE  Waits'
  <1>1. CASE DecodeHead
    <2>1. CASE ReadVarInt(buf).is = "short" /\ AwaitMore
      BY <1>1, <2>1, DecodeHeadOutcomes DEF AwaitMore, Waits
    <2>2. CASE turn' = turn
      BY <1>1, <2>2, DecodeHeadOutcomes DEF Waits
    <2> QED  BY <1>1, <2>1, <2>2, DecodeHeadOutcomes DEF Fail, HeadTaken
  <1>2. CASE DecodeBody
    <2>1. CASE Len(buf) < state.n /\ AwaitMore
      BY <1>2, <2>1, DecodeBodyOutcomes DEF AwaitMore, Waits
    <2>2. CASE turn' \in {"decoder", "actor"}
      BY <2>2 DEF Waits
    <2> QED  BY <1>2, <2>1, <2>2, DecodeBodyOutcomes DEF Fail, PacketTaken
  <1>3. CASE Framed \/ Rebuild
    BY <1>3 DEF Framed, NextFrame, Fill, Rebuild, Waits
  <1>4. CASE UNCHANGED vars \/ (\E body \in Body : PeerSend(body))
               \/ (\E byte \in Byte : PeerStray(byte))
    BY <1>4 DEF PeerSend, PeerStray, vars, Waits
  <1> QED  BY <1>1, <1>2, <1>3, <1>4 DEF Next, Decode

-----------------------------------------------------------------------------
(* Bytes that only move from the wire to the buffer are where they were.   *)
LEMMA OrderStays ==
  ASSUME UNCHANGED <<sent, stray, state, status, frames>>, Rest' = Rest
  PROVE  (InOrder => InOrder') /\ (Overrun => Overrun')
  <1>1. Out' = Out
    BY DEF Out
  <1>2. Overrun => Overrun'
    BY <1>1 DEF Overrun
  <1>3. ASSUME InOrder PROVE InOrder'
    <2>1. PICK place : /\ Laid(place, Rest, sent, Out) /\ Placed(place)
                       /\ (stray = 0 => place[Len(sent) + 1] = Len(Rest))
      BY <1>3 DEF InOrder
    <2>2. Laid(place, Rest, sent, Out)' /\ (stray = 0 => place[Len(sent) + 1] = Len(Rest))'
      BY <1>1, <2>1
    <2>3. Placed(place)'
      BY <1>1, <2>1 DEF Placed
    <2> QED  BY <1>1, <1>3, <2>2, <2>3 DEF InOrder
  <1> QED  BY <1>2, <1>3

(* A length is taken off: the body behind it is next.                      *)
LEMMA OrderHead ==
  ASSUME Types, InOrder, DecodeHead
  PROVE  InOrder'
  <1>1. status = "open" /\ state = LenState /\ UNCHANGED <<sent, stray, wire, cut>>
    BY DecodeHeadOutcomes
  <1>2. CASE ReadVarInt(buf) = [is |-> "short"]
    <2>1. AwaitMore
      BY <1>2, DecodeHeadOutcomes
    <2>2. Rest' = Rest /\ UNCHANGED <<sent, stray, state, status, frames>>
      BY <1>1, <2>1 DEF AwaitMore, Rest
    <2> QED  BY <2>2, OrderStays
  <1>3. CASE ReadVarInt(buf) # [is |-> "short"]
    <2> DEFINE k == Len(VarInt[Len(sent[Out + 1])])
    <2>1. /\ Out < Len(sent) /\ k <= Len(buf)
          /\ ReadVarInt(buf) = [is |-> "ok", len |-> k, val |-> Len(sent[Out + 1])]
      BY <1>1, <1>3, HeadRead
    <2>2. Out \in Nat /\ sent \in Seq(Body) /\ Len(sent) \in Nat /\ buf \in Seq(Byte) /\ wire \in Seq(Byte)
      BY OutIsNat DEF Types
    <2>3. sent[Out + 1] \in Body
      BY <2>1, <2>2
    <2>4. k \in Nat /\ Len(sent[Out + 1]) \in Nat
      BY <2>3, EncodeProperties
    <2>5. HeadTaken([is |-> "ok", len |-> k, val |-> Len(sent[Out + 1])])
      BY <2>1, <2>4, DecodeHeadOutcomes
    <2>6. buf' = After(k, buf) /\ state' = Data(Len(sent[Out + 1])) /\ UNCHANGED <<status, frames>>
      BY <2>5 DEF HeadTaken
    <2> HIDE DEF k
    <2>7. k \in 0..Len(buf)
      BY <2>1, <2>2, <2>4
    <2>8. Rest' = After(k, Rest) /\ k \in 0..Len(Rest)
      BY <1>1, <2>2, <2>6, <2>7, RestAfter DEF Rest
    <2>9. PICK place : /\ Laid(place, Rest, sent, Out) /\ Placed(place)
                       /\ (stray = 0 => place[Len(sent) + 1] = Len(Rest))
      BY DEF InOrder
    <2>10. place[Out + 1] = 0
      BY <1>1, <2>9 DEF Placed, Data, LenState
    <2>11. Rest \in Seq(Byte) /\ Len(Rest') = Len(Rest) - k /\ Len(Rest) \in Nat
      BY <2>8, RestProperties, AfterProperties
    <2>12. PICK q : /\ Laid(q, After(k, Rest), sent, Out)
                    /\ \A i \in 1..Len(sent) + 1 : q[i] = place[i] - k
      BY <2>2, <2>8, <2>9, <2>11, Drop
    <2>13. Out' = Out /\ sent' = sent /\ stray' = stray
      BY <1>1, <2>6 DEF Out
    <2>14. Laid(q, Rest, sent, Out)'
      BY <2>8, <2>12, <2>13
    <2>15. q[Out + 1] = -k
      BY <2>1, <2>2, <2>4, <2>10, <2>12
    <2>16. Placed(q)'
      BY <2>1, <2>6, <2>13, <2>15 DEF Placed, k
    <2>17. stray = 0 => q[Len(sent) + 1] = Len(Rest')
      <3>1. q[Len(sent) + 1] = place[Len(sent) + 1] - k
        BY <2>2, <2>12
      <3> QED  BY <2>9, <2>11, <3>1
    <2> QED  BY <2>6, <2>13, <2>14, <2>16, <2>17 DEF InOrder
  <1> QED  BY <1>2, <1>3

(* A body is taken off: it is the packet that was sent, and the length of  *)
(* the next frame is next, or what is stray.                               *)
LEMMA OrderBody ==
  ASSUME Types, InOrder, DecodeBody
  PROVE  InOrder' \/ Overrun'
  <1> DEFINE b == sent[Out + 1]
             n == Len(b)
  <1>1. /\ status = "open" /\ state # LenState /\ UNCHANGED <<sent, stray, wire, cut>>
    BY DecodeBodyOutcomes
  <1>2. /\ Out < Len(sent) /\ state.n = n /\ b \in Body
        /\ Len(buf) >= n =>
             /\ ReadVarInt(buf) = ReadVarInt(b) /\ ReadVarInt(buf).is = "ok"
             /\ ReadVarInt(buf).len \in 1..n /\ SubSeq(buf, 1, n) = b
    BY <1>1, BodyRead
  <1>3. Out \in Nat /\ sent \in Seq(Body) /\ Len(sent) \in Nat
        /\ buf \in Seq(Byte) /\ wire \in Seq(Byte) /\ Len(buf) \in Nat
    BY OutIsNat DEF Types
  <1>4. CASE Len(buf) < n
    <2>1. n \in Nat
      BY <1>2, EncodeProperties
    <2>2. AwaitMore
      BY <1>2, <1>3, <1>4, <2>1, DecodeBodyOutcomes
    <2>3. Rest' = Rest /\ UNCHANGED <<sent, stray, state, status, frames>>
      BY <1>1, <2>2 DEF AwaitMore, Rest
    <2> QED  BY <2>3, OrderStays
  <1>5. CASE Len(buf) >= n
    <2> DEFINE r == ReadVarInt(buf)
    <2>1. n \in Nat /\ b \in Seq(Byte)
      BY <1>2, EncodeProperties
    <2>2. r = ReadVarInt(b) /\ r.is = "ok" /\ r.len \in 1..n /\ SubSeq(buf, 1, n) = b
      BY <1>2, <1>5
    <2>3. n \in r.len..Len(buf) /\ n \in 0..Len(buf)
      BY <1>3, <1>5, <2>1, <2>2
    <2>4. PacketTaken(r, n)
      BY <1>2, <1>3, <1>5, <2>1, <2>2, <2>3, DecodeBodyOutcomes
    <2>5. /\ frames' = Append(frames, [id |-> r.val, payload |-> SubSeq(buf, r.len + 1, n)])
          /\ buf' = After(n, buf) /\ state' = LenState /\ status' = status
      BY <2>4 DEF PacketTaken
    <2> HIDE DEF r, n, b
    <2>6. SubSeq(buf, r.len + 1, n) = SubSeq(b, r.len + 1, n)
      <3>1. \A j \in 1..n : buf[j] = b[j]
        BY <1>3, <2>1, <2>2, <2>3
      <3>2. r.len \in Nat /\ r.len >= 1 /\ r.len <= n
        BY <2>1, <2>2
      <3>3. n \in 0..Len(buf) /\ n \in 0..Len(b) /\ r.len \in 0..n
        BY <1>3, <2>1, <2>3, <3>2 DEF n
      <3> DEFINE c == SubSeq(buf, r.len + 1, n)
                 d == SubSeq(b, r.len + 1, n)
      <3>4. /\ c \in Seq(Byte) /\ Len(c) = n - r.len
            /\ \A j \in 1..n - r.len : c[j] = buf[r.len + j]
        BY <1>3, <3>3, MiddleOfBytes
      <3>5. /\ d \in Seq(Byte) /\ Len(d) = n - r.len
            /\ \A j \in 1..n - r.len : d[j] = b[r.len + j]
        BY <2>1, <3>3, MiddleOfBytes
      <3> HIDE DEF c, d
      <3>6. \A j \in 1..n - r.len : c[j] = d[j]
        <4> SUFFICES ASSUME NEW j \in 1..n - r.len PROVE c[j] = d[j]
          OBVIOUS
        <4>1. r.len + j \in 1..n
          BY <2>1, <3>2
        <4> QED  BY <3>1, <3>4, <3>5, <4>1
      <3>7. c = d
        BY <3>4, <3>5, <3>6, SeqEqual
      <3> QED  BY <3>7 DEF c, d
    <2>7. frames' = Append(frames, Frame(b))
      BY <2>2, <2>5, <2>6 DEF Frame, n
    <2>8. PICK S : frames \in Seq(S)
      BY DEF Types
    <2>9. /\ Out' = Out + 1 /\ \A i \in 1..Out : frames'[i] = frames[i]
          /\ frames'[Out + 1] = Frame(b)
      BY <2>7, <2>8, AppendTyped DEF Out
    <2>10. \A i \in 1..Out' : frames'[i] = Frame(sent[i])
      <3>1. \A i \in 1..Out : frames[i] = Frame(sent[i])
        BY DEF InOrder
      <3>2. \A i \in 1..Out' : i \in 1..Out \/ i = Out + 1
        BY <1>3, <2>9
      <3> QED  BY <2>9, <3>1, <3>2 DEF b
    <2>11. Rest' = After(n, Rest) /\ n \in 0..Len(Rest)
      BY <1>1, <1>3, <2>3, <2>5, RestAfter DEF Rest
    <2>12. PICK place : /\ Laid(place, Rest, sent, Out) /\ Placed(place)
                        /\ (stray = 0 => place[Len(sent) + 1] = Len(Rest))
      BY DEF InOrder
    <2>13. Rest \in Seq(Byte) /\ Len(Rest') = Len(Rest) - n /\ Len(Rest) \in Nat
      BY <2>11, RestProperties, AfterProperties
    <2>14. PICK q : /\ Laid(q, After(n, Rest), sent, Out + 1)
                    /\ \A i \in 1..Len(sent) + 1 : q[i] = place[i] - n
      BY SMTT(30), <1>3, <2>11, <2>12, <2>13, Drop
    <2>15. place[Out + 2] = n
      <3>1. Lies(Out + 1, place, Rest, sent)
        BY <1>2, <1>3, <2>12 DEF Laid
      <3>2. place[Out + 1] = -Len(VarInt[n])
        BY <1>1, <2>12 DEF Placed, n, b
      <3>3. Len(Encode(b)) = Len(VarInt[n]) + n /\ Len(VarInt[n]) \in Nat
        BY <1>2, EncodeProperties, VarIntAssumption DEF n
      <3>4. (Out + 1) + 1 = Out + 2
        BY <1>3
      <3> QED  BY <2>1, <3>1, <3>2, <3>3, <3>4 DEF Lies, b
    <2>16. q[Out + 2] = 0
      <3>1. Out + 2 \in 1..Len(sent) + 1
        BY <1>2, <1>3
      <3>2. q[Out + 2] = place[Out + 2] - n
        BY <2>14, <3>1
      <3> QED  BY <2>1, <2>15, <3>2
    <2>17. sent' = sent /\ stray' = stray
      BY <1>1
    <2>18. Laid(q, Rest, sent, Out)'
      BY <2>9, <2>11, <2>14, <2>17
    <2>19. Placed(q)'
      <3>1. Out' + 1 = Out + 2
        BY <1>3, <2>9
      <3> QED  BY <2>5, <2>16, <3>1 DEF Placed, LenState
    <2>20. stray = 0 => q[Len(sent) + 1] = Len(Rest')
      <3>1. q[Len(sent) + 1] = place[Len(sent) + 1] - n
        BY <1>3, <2>14
      <3> QED  BY <2>12, <2>13, <3>1
    <2>21. CASE Out' = Len(sent) /\ stray # 0
      <3>1. stray > 0
        BY <2>21 DEF Types
      <3> QED  BY <1>3, <2>9, <2>10, <2>17, <2>21, <3>1 DEF Overrun
    <2>22. CASE Out' = Len(sent) => stray = 0
      <3>1. Out' <= Len(sent) /\ status' = "open"
        BY <1>1, <1>2, <1>3, <2>5, <2>9
      <3>2. (stray = 0 => q[Len(sent) + 1] = Len(Rest))'
        BY <2>17, <2>20
      <3> QED  BY <2>10, <2>17, <2>18, <2>19, <2>22, <3>1, <3>2 DEF InOrder
    <2> QED  BY <2>21, <2>22
  <1> QED
    <2>1. n \in Nat
      BY <1>2, EncodeProperties
    <2> QED  BY <1>3, <1>4, <1>5, <2>1

(* Decoding what is stray changes nothing of the frames that were sent.    *)
LEMMA OverrunDecode ==
  ASSUME Types, Overrun, DecodeHead \/ DecodeBody
  PROVE  Overrun'
  <1>1. sent' = sent /\ stray' = stray
    BY DecodeHeadOutcomes, DecodeBodyOutcomes
  <1>2. \/ frames' = frames
        \/ \E e : frames' = Append(frames, e)
    BY DecodeHeadOutcomes, DecodeBodyOutcomes DEF AwaitMore, Fail, HeadTaken, PacketTaken
  <1>3. CASE frames' = frames
    BY <1>1, <1>3 DEF Overrun, Out
  <1>4. ASSUME NEW e, frames' = Append(frames, e) PROVE Overrun'
    <2>1. PICK S : frames \in Seq(S)
      BY DEF Types
    <2>2. Out' = Out + 1 /\ Out \in Nat /\ \A i \in 1..Out : frames'[i] = frames[i]
      BY <1>4, <2>1, AppendTyped DEF Out
    <2>3. Len(sent) \in Nat
      BY DEF Types
    <2> QED  BY <1>1, <2>2, <2>3 DEF Overrun
  <1> QED  BY <1>2, <1>3, <1>4

(* A frame that is sent lies behind all the others. *)
LEMMA OrderPeerSend ==
  ASSUME Types, InOrder, NEW body \in Body, PeerSend(body)
  PROVE  InOrder'
  <1>1. /\ stray = 0 /\ sent' = Append(sent, body) /\ wire' = wire \o Encode(body)
        /\ UNCHANGED <<stray, buf, state, turn, status, frames, cut>>
    BY DEF PeerSend
  <1>2. /\ Out \in Nat /\ sent \in Seq(Body) /\ Len(sent) \in Nat /\ Out <= Len(sent)
        /\ buf \in Seq(Byte) /\ wire \in Seq(Byte)
        /\ Rest \in Seq(Byte) /\ Len(Rest) \in Nat
    BY OutIsNat, RestProperties DEF Types, InOrder
  <1>3. Encode(body) \in Seq(Byte) /\ Len(Encode(body)) \in Nat
    BY EncodeProperties
  <1>4. /\ Len(sent') = Len(sent) + 1 /\ sent'[Len(sent) + 1] = body
        /\ \A i \in 1..Len(sent) : sent'[i] = sent[i]
    BY <1>1, <1>2
  <1>5. Rest' = Rest \o Encode(body)
    BY SMTT(30), <1>1, <1>2, <1>3 DEF Rest
  <1>6. /\ Len(Rest') = Len(Rest) + Len(Encode(body))
        /\ \A j \in 1..Len(Rest) : Rest'[j] = Rest[j]
        /\ \A j \in 1..Len(Encode(body)) : Rest'[Len(Rest) + j] = Encode(body)[j]
    BY <1>2, <1>3, <1>5, ConcatElements
  <1>7. PICK place : /\ Laid(place, Rest, sent, Out) /\ Placed(place)
                     /\ (stray = 0 => place[Len(sent) + 1] = Len(Rest))
    BY DEF InOrder
  <1> DEFINE e == Encode(body)
  <1>8. place \in [1..Len(sent) + 1 -> Int] /\ place[Len(sent) + 1] = Len(Rest)
    BY <1>1, <1>7 DEF Laid
  <1>9. PICK q : /\ q \in [1..Len(sent) + 2 -> Int] /\ q[Len(sent) + 2] = Len(Rest) + Len(e)
                 /\ \A i \in 1..Len(sent) + 1 : q[i] = place[i]
    <2> DEFINE f == [i \in 1..Len(sent) + 2 |->
                       IF i = Len(sent) + 2 THEN Len(Rest) + Len(e) ELSE place[i]]
    <2>1. /\ f \in [1..Len(sent) + 2 -> Int] /\ f[Len(sent) + 2] = Len(Rest) + Len(e)
          /\ \A i \in 1..Len(sent) + 1 : f[i] = place[i]
      BY <1>2, <1>3, <1>8
    <2> HIDE DEF f
    <2> QED  BY <2>1
  <1> HIDE DEF e
  <1>10. ASSUME NEW i \in Out + 1..Len(sent) PROVE Lies(i, q, Rest', sent')
    <2>1. /\ i \in 1..Len(sent) /\ i \in 1..Len(sent) + 1 /\ i + 1 \in 1..Len(sent) + 1
      BY <1>2
    <2>2. Lies(i, place, Rest, sent)
      BY <1>7 DEF Laid
    <2>3. /\ q[i] = place[i] /\ q[i + 1] = place[i + 1] /\ place[i] \in Int /\ place[i + 1] \in Int
          /\ sent'[i] = sent[i]
      BY <1>4, <1>8, <1>9, <2>1
    <2>4. Len(Encode(sent[i])) \in Nat
      BY <1>2, <2>1, EncodeProperties
    <2>5. q[i + 1] = q[i] + Len(Encode(sent'[i])) /\ q[i + 1] <= Len(Rest')
      BY <1>2, <1>3, <1>6, <2>2, <2>3 DEF Lies
    <2>6. ASSUME NEW j \in 1..Len(Encode(sent[i])), q[i] + j > 0
          PROVE  Rest'[q[i] + j] = Encode(sent[i])[j]
      <3>1. place[i] + j \in 1..Len(Rest) /\ q[i] + j = place[i] + j
        <4>1. place[i] + Len(Encode(sent[i])) <= Len(Rest)
          BY <2>2 DEF Lies
        <4>2. Len(Rest) \in Nat /\ place[i] \in Int /\ q[i] = place[i]
          BY <1>2, <2>3
        <4>3. place[i] + j > 0 /\ place[i] + j <= Len(Rest)
          BY <2>4, <2>6, <4>1, <4>2
        <4> QED  BY <4>2, <4>3
      <3>2. Rest[place[i] + j] = Encode(sent[i])[j]
        BY <2>2, <3>1 DEF Lies
      <3> QED  BY <1>6, <3>1, <3>2
    <2> QED  BY <2>3, <2>5, <2>6 DEF Lies
  <1>11. Lies(Len(sent) + 1, q, Rest', sent')
    <2>1. (Len(sent) + 1) + 1 = Len(sent) + 2 /\ Len(sent) + 1 \in 1..Len(sent) + 1
      BY <1>2
    <2>2. q[Len(sent) + 1] = Len(Rest) /\ q[(Len(sent) + 1) + 1] = Len(Rest) + Len(e)
      BY <1>8, <1>9, <2>1
    <2>3. Len(Rest) + Len(e) <= Len(Rest')
      BY <1>2, <1>3, <1>6 DEF e
    <2> QED  BY <1>4, <1>6, <2>2, <2>3 DEF Lies, e
  <1>12. Laid(q, Rest', sent', Out)
    <2>1. q \in [1..Len(sent') + 1 -> Int]
      BY <1>2, <1>4, <1>9
    <2>2. \A i \in Out + 1..Len(sent') : i \in Out + 1..Len(sent) \/ i = Len(sent) + 1
      BY <1>2, <1>4
    <2>3. \A i \in Out + 1..Len(sent') : Lies(i, q, Rest', sent')
      BY <1>10, <1>11, <2>2
    <2> QED  BY <2>1, <2>3 DEF Laid
  <1>13. Out' = Out
    BY <1>1 DEF Out
  <1>14. q[Out + 1] = place[Out + 1]
    BY <1>2, <1>9
  <1>15. Placed(q)'
    <2>1. CASE state = LenState /\ place[Out + 1] = 0
      BY <1>1, <1>13, <1>14, <2>1 DEF Placed
    <2>2. CASE /\ Out < Len(sent) /\ state = Data(Len(sent[Out + 1]))
               /\ place[Out + 1] = -Len(VarInt[Len(sent[Out + 1])])
      <3>1. Out + 1 \in 1..Len(sent)
        BY <1>2, <2>2
      <3>2. sent'[Out + 1] = sent[Out + 1] /\ Out < Len(sent')
        BY <1>2, <1>4, <2>2, <3>1
      <3> QED  BY <1>1, <1>13, <1>14, <2>2, <3>2 DEF Placed
    <2> QED  BY <1>7, <2>1, <2>2 DEF Placed
  <1>16. q[Len(sent') + 1] = Len(Rest')
    <2>1. Len(sent') + 1 = Len(sent) + 2
      BY <1>2, <1>4
    <2> QED  BY <1>6, <1>9, <2>1 DEF e
  <1>17. Out' <= Len(sent') /\ status' = "open" /\ stray' = 0
    BY <1>1, <1>2, <1>4, <1>13 DEF InOrder
  <1>18. \A i \in 1..Out' : frames'[i] = Frame(sent'[i])
    BY <1>1, <1>2, <1>4, <1>13 DEF InOrder
  <1>19. \E p : (Laid(p, Rest, sent, Out) /\ Placed(p) /\ (stray = 0 => p[Len(sent) + 1] = Len(Rest)))'
    BY <1>12, <1>13, <1>15, <1>16
  <1> QED  BY <1>17, <1>18, <1>19 DEF InOrder

(* A stray byte is behind all the frames. *)
LEMMA OrderPeerStray ==
  ASSUME Types, InOrder \/ Overrun, NEW byte \in Byte, PeerStray(byte)
  PROVE  InOrder' \/ Overrun'
  <1>1. /\ stray' > 0 /\ wire' = Append(wire, byte)
        /\ UNCHANGED <<sent, buf, state, turn, status, frames, cut>>
    BY DEF PeerStray, Types
  <1>2. /\ Out \in Nat /\ Len(sent) \in Nat /\ Out' = Out
        /\ buf \in Seq(Byte) /\ wire \in Seq(Byte) /\ Rest \in Seq(Byte) /\ Len(Rest) \in Nat
    BY <1>1, OutIsNat, RestProperties DEF Types, Out
  <1>3. CASE Overrun \/ Out = Len(sent)
    BY <1>1, <1>2, <1>3 DEF Overrun, InOrder
  <1>4. CASE InOrder /\ Out # Len(sent)
    <2>1. PICK place : Laid(place, Rest, sent, Out) /\ Placed(place)
      BY <1>4 DEF InOrder
    <2>2. Rest' = Append(Rest, byte)
      BY <1>1, <1>2 DEF Rest
    <2>3. Len(Rest') = Len(Rest) + 1 /\ \A j \in 1..Len(Rest) : Rest'[j] = Rest[j]
      BY <1>2, <2>2
    <2>4. ASSUME NEW i \in Out + 1..Len(sent) PROVE Lies(i, place, Rest', sent)
      <3>1. Lies(i, place, Rest, sent)
        BY <2>1 DEF Laid
      <3>2. place \in [1..Len(sent) + 1 -> Int] /\ i \in 1..Len(sent) /\ i \in 1..Len(sent) + 1
            /\ i + 1 \in 1..Len(sent) + 1
        BY <1>2, <2>1 DEF Laid
      <3>3. place[i] \in Int /\ place[i + 1] \in Int /\ Len(Encode(sent[i])) \in Nat
        <4>1. sent[i] \in Body
          BY <3>2 DEF Types
        <4>2. Len(Encode(sent[i])) \in Nat
          BY <4>1, EncodeProperties
        <4> QED  BY <3>2, <4>2
      <3>4. ASSUME NEW j \in 1..Len(Encode(sent[i])), place[i] + j > 0
            PROVE  Rest'[place[i] + j] = Encode(sent[i])[j]
        <4>1. place[i] + j \in 1..Len(Rest)
          <5>1. /\ place[i + 1] = place[i] + Len(Encode(sent[i]))
                /\ place[i + 1] <= Len(Rest)
            BY <3>1 DEF Lies
          <5>2. Len(Rest) \in Nat
            BY <1>2
          <5> HIDE DEF Rest
          <5> QED  BY <3>3, <3>4, <5>1, <5>2
        <4> QED  BY <2>3, <3>1, <3>4, <4>1 DEF Lies
      <3>5. place[i + 1] <= Len(Rest')
        BY <1>2, <2>3, <3>1, <3>3 DEF Lies
      <3> QED  BY <3>1, <3>4, <3>5 DEF Lies
    <2>5. Laid(place, Rest, sent, Out)'
      BY <1>1, <1>2, <2>1, <2>4 DEF Laid
    <2>6. Placed(place)'
      BY <1>1, <1>2, <2>1 DEF Placed
    <2> QED  BY <1>1, <1>2, <1>4, <2>5, <2>6 DEF InOrder
  <1> QED  BY <1>3, <1>4

(* Every step keeps the invariant. *)
LEMMA IndInvStep == IndInv /\ [Next]_vars => IndInv'
  <1> SUFFICES ASSUME IndInv, [Next]_vars PROVE IndInv'
    OBVIOUS
  <1>1. /\ Types /\ Fresh
        /\ Types' /\ Fresh' /\ Waits'
    BY TypesStep, FreshStep, WaitsStep DEF IndInv
  <1>2. cut = TRUE => cut' = TRUE
    BY DEF Next, vars, Decode, DecodeHead, DecodeBody, Framed, NextFrame, Fill, Rebuild,
           PeerSend, PeerStray
  <1>3. ASSUME InOrder \/ Overrun PROVE cut' = TRUE \/ InOrder' \/ Overrun'
    <2>1. CASE Decode
      BY <1>1, <1>3, <2>1, OrderHead, OrderBody, OverrunDecode DEF Decode
    <2>2. CASE UNCHANGED vars \/ NextFrame
      <3>1. UNCHANGED <<sent, stray, state, status, frames>> /\ Rest' = Rest
        BY <2>2 DEF vars, NextFrame, Rest
      <3> QED  BY <1>3, <3>1, OrderStays
    <2>3. CASE Fill
      <3>1. PICK k \in 1..Len(wire) : buf' = buf \o SubSeq(wire, 1, k) /\ wire' = After(k, wire)
        BY <2>3 DEF Fill
      <3>2. buf \in Seq(Byte) /\ wire \in Seq(Byte) /\ k \in 0..Len(wire)
        BY <1>1 DEF Types
      <3>3. /\ SubSeq(wire, 1, k) \in Seq(Byte) /\ After(k, wire) \in Seq(Byte)
            /\ SubSeq(wire, 1, k) \o After(k, wire) = wire
        BY <3>2, PieceOfBytes
      <3>4. Rest' = buf \o (SubSeq(wire, 1, k) \o After(k, wire))
        BY SMTT(30), <3>1, <3>2, <3>3, ConcatAssociative DEF Rest
      <3>5. Rest' = Rest
        BY <3>3, <3>4 DEF Rest
      <3>6. UNCHANGED <<sent, stray, state, status, frames>>
        BY <2>3 DEF Fill
      <3> QED  BY <1>3, <3>5, <3>6, OrderStays
    <2>4. CASE Rebuild
      <3>1. CASE buf # <<>>
        BY <2>4, <3>1 DEF Rebuild
      <3>2. CASE buf = <<>>
        <4>1. UNCHANGED <<sent, stray, state, status, frames>> /\ Rest' = Rest
          BY <2>4, <3>2 DEF Rebuild, Rest
        <4> QED  BY <1>3, <4>1, OrderStays
      <3> QED  BY <3>1, <3>2
    <2>5. ASSUME NEW body \in Body, PeerSend(body) PROVE InOrder'
      <3>1. ~Overrun
        BY <2>5 DEF Overrun, PeerSend
      <3> QED  BY <1>1, <1>3, <2>5, <3>1, OrderPeerSend
    <2>6. ASSUME NEW byte \in Byte, PeerStray(byte) PROVE InOrder' \/ Overrun'
      BY <1>1, <1>3, <2>6, OrderPeerStray
    <2> QED  BY <2>1, <2>2, <2>3, <2>4, <2>5, <2>6 DEF Next, Framed
  <1> QED  BY <1>1, <1>2, <1>3 DEF IndInv

(* Initially there is nothing. *)
LEMMA IndInvInit == Init => IndInv
  <1> SUFFICES ASSUME Init PROVE IndInv
    OBVIOUS
  <1>1. /\ sent = <<>> /\ stray = 0 /\ wire = <<>> /\ buf = <<>> /\ state = LenState
        /\ turn = "actor" /\ status = "open" /\ frames = <<>> /\ cut = FALSE
    BY DEF Init
  <1>2. Types /\ Fresh /\ Waits
    <2>1. frames \in Seq(RawPacket)
      BY <1>1
    <2>2. sent \in Seq(Body) /\ Len(sent) <= MaxFrames /\ wire \in Seq(Byte) /\ buf \in Seq(Byte)
      BY <1>1, BoundAssumption
    <2>3. Types
      <3>1. stray \in 0..MaxStray
        BY <1>1, BoundAssumption
      <3>2. cut \in BOOLEAN /\ turn \in {"actor", "decoder", "socket"}
            /\ status \in {"open", "errored", "panicked"}
            /\ state \in {LenState} \cup [tag : {"Data"}, n : Nat]
        BY <1>1
      <3> QED  BY <2>1, <2>2, <3>1, <3>2 DEF Types
    <2> QED  BY <1>1, <2>3 DEF Fresh, Waits
  <1>3. InOrder
    <2>1. PICK q : q = [i \in 1..1 |-> 0]
      OBVIOUS
    <2>2. Out = 0 /\ Len(sent) = 0 /\ Len(Rest) = 0
      BY <1>1 DEF Out, Rest
    <2>3. q \in [1..Len(sent) + 1 -> Int] /\ q[1] = 0
      BY <2>1, <2>2
    <2>4. Laid(q, Rest, sent, Out) /\ Placed(q) /\ q[Len(sent) + 1] = Len(Rest)
      BY <1>1, <2>2, <2>3 DEF Laid, Placed
    <2> QED  BY <1>1, <2>2, <2>4 DEF InOrder
  <1> QED  BY <1>2, <1>3 DEF IndInv

(* The invariant holds in every behaviour. *)
LEMMA Invariance == SafeSpec => []IndInv
  BY IndInvInit, IndInvStep, PTL DEF SafeSpec

-----------------------------------------------------------------------------
(* The decoder's state has its types: a length it keeps is never negative. *)
THEOREM TypeCorrect == SafeSpec => []TypeOK
  <1>1. IndInv => TypeOK
    BY DEF IndInv, Types, TypeOK
  <1> QED  BY <1>1, Invariance, PTL

(* A stream of frames is never an error nor a panic, wherever it is cut.   *)
THEOREM NoFailure == SafeSpec => []FramesNeverFail
  <1>1. IndInv => FramesNeverFail
    BY DEF IndInv, Types, InOrder, Overrun, FramesNeverFail, Sound
  <1> QED  BY <1>1, Invariance, PTL

(* With no byte on the wire, what it waits for cannot be a frame sent: all *)
(* of that lies in the buffer.                                             *)
LEMMA NoneIsHeldBack ==
  ASSUME Types, InOrder, Waits, turn = "socket", wire = <<>>
  PROVE  Out >= Len(sent)
  <1> SUFFICES ASSUME Out < Len(sent) PROVE FALSE
    BY OutIsNat, RestProperties
  <1> DEFINE b == sent[Out + 1]
             v == VarInt[Len(b)]
  <1>1. PICK place : Laid(place, Rest, sent, Out) /\ Placed(place)
    BY DEF InOrder
  <1>2. Out \in Nat /\ Len(sent) \in Nat /\ Len(buf) \in Nat /\ Len(Rest) = Len(buf)
    BY OutIsNat, RestProperties
  <1>3. b \in Body
    BY <1>2 DEF Types
  <1>4. Len(v) \in Nat /\ Len(b) \in Nat /\ Len(Encode(b)) = Len(v) + Len(b)
    <2> HIDE DEF b
    <2>1. /\ b \in Seq(Byte) /\ v \in Seq(Byte)
          /\ Len(Encode(b)) = Len(v) + Len(b)
      BY <1>3, EncodeProperties
    <2> HIDE DEF v
    <2> QED  BY <2>1
  <1>5. place[Out + 2] = place[Out + 1] + Len(Encode(b)) /\ place[Out + 2] <= Len(buf)
    <2>1. Lies(Out + 1, place, Rest, sent)
      BY <1>1, <1>2 DEF Laid
    <2>2. (Out + 1) + 1 = Out + 2
      BY <1>2
    <2> QED  BY <1>2, <2>1, <2>2 DEF Lies
  <1>6. CASE state = LenState
    <2>1. place[Out + 1] = 0
      BY <1>1, <1>6 DEF Placed, Data, LenState
    <2>2. Len(buf) < Len(v)
      BY <1>6, HeadRead DEF Waits
    <2> HIDE DEF b, v
    <2> QED  BY <1>2, <1>4, <1>5, <2>1, <2>2
  <1>7. CASE state # LenState
    <2>1. state = Data(Len(b)) /\ place[Out + 1] = -Len(v)
      BY <1>1, <1>7 DEF Placed
    <2>2. Len(buf) < Len(b)
      BY <1>7, <2>1 DEF Waits, Data
    <2> HIDE DEF b, v
    <2> QED  BY <1>2, <1>4, <1>5, <2>1, <2>2
  <1> QED  BY <1>6, <1>7

(* The frames come out as they were sent, nothing else before them, and    *)
(* all of them without a byte behind the last.                             *)
THEOREM StreamIsRight == SafeSpec => []FramesAreTheStream
  <1>1. IndInv => FramesAreTheStream
    <2> SUFFICES ASSUME IndInv, cut = FALSE PROVE FramesAreTheStream
      BY DEF FramesAreTheStream, Sound, IndInv, Types
    <2>1. PICK S : frames \in Seq(S)
      BY DEF IndInv, Types
    <2> DEFINE U == S \cup {Frame(sent[i]) : i \in 1..Len(sent)}
    <2>2. /\ SentFrames \in Seq(U) /\ Len(SentFrames) = Len(sent)
          /\ \A i \in 1..Len(sent) : SentFrames[i] = Frame(sent[i])
      <3>1. sent \in Seq(Body)
        BY DEF IndInv, Types
      <3> QED  BY <3>1, SMTT(30) DEF SentFrames
    <2>3. frames \in Seq(U) /\ Out \in Nat /\ Len(sent) \in Nat
      BY <2>1 DEF Out, IndInv, Types
    <2> HIDE DEF U
    <2>4. CASE InOrder
      <3>1. Out <= Len(sent) /\ \A i \in 1..Out : frames[i] = SentFrames[i]
        BY <2>2, <2>3, <2>4 DEF InOrder
      <3>2. IsPrefix(frames, SentFrames)
        BY <2>2, <2>3, <3>1, PrefixOf DEF Out
      <3>3. turn = "socket" /\ wire = <<>> => Len(frames) >= Len(sent)
        BY <2>4, NoneIsHeldBack DEF IndInv, Out
      <3> QED  BY <3>2, <3>3 DEF FramesAreTheStream
    <2>5. CASE Overrun
      <3>1. Len(sent) <= Out /\ \A i \in 1..Len(sent) : SentFrames[i] = frames[i]
        BY <2>2, <2>3, <2>5 DEF Overrun
      <3>2. IsPrefix(SentFrames, frames)
        BY <2>2, <2>3, <3>1, PrefixOf DEF Out
      <3>3. Len(frames) >= Len(sent)
        BY <2>3, <3>1 DEF Out
      <3> QED  BY <2>5, <3>2, <3>3 DEF FramesAreTheStream, Overrun
    <2> QED  BY <2>4, <2>5 DEF IndInv
  <1> QED  BY <1>1, Invariance, PTL
=============================================================================
