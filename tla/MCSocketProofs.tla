--------------------------- MODULE MCSocketProofs ---------------------------
(***************************************************************************)
(* Proofs about the socket of a login connection, for frames of any sizes  *)
(* and any number of bytes.                                                *)
(*                                                                         *)
(* Until a write fails, the caller's buffer begins where the wire ends,    *)
(* the pending bytes are the front of that buffer, already encrypted at    *)
(* their places, and the encryptor is at the place behind them.  So what   *)
(* poll_write offers is the buffer encrypted in place, whatever was        *)
(* offered before (OfferedInPlace).  A failed write breaks this for good,  *)
(* but then nothing more reaches the wire.                                 *)
(***************************************************************************)
EXTENDS MCSocket, SequenceTheorems, TLAPS

(* The byte at place n, as it is or will be on the wire in this mode.      *)
Sealing(n) == IF mode = "Encrypted" THEN Cipher(n, n - clearOut) ELSE Clear(n)
SealingIn(n) == IF mode = "Encrypted" THEN Cipher(n, n - clearIn) ELSE Clear(n)

Types ==
  /\ mode \in {"Cleartext", "Encrypted"} /\ sending \in BOOLEAN /\ failed \in BOOLEAN
  /\ buffer \in Seq(Plain) /\ encoded \in 0..MaxSent /\ fed \in Nat
  /\ pending \in Seq(OnWire) /\ wire \in Seq(OnWire) /\ Len(wire) <= encoded
  /\ clearOut \in Nat /\ clearOut <= Len(wire)
InTypes ==
  /\ inbound \in Seq(OnWire) /\ peerSent \in 0..MaxReceived /\ fedIn \in Nat
  /\ filled \in Seq(1..MaxReceived)
  /\ clearIn \in Nat /\ clearIn <= Len(filled)

(* What is on the wire is sealed in place.                                 *)
WireInv == \A n \in 1..Len(wire) : wire[n] = Sealed(n)

(* The caller, the pending bytes and the encryptor, while writes succeed.  *)
CallerInv ==
  /\ sending = FALSE => buffer = <<>>
  /\ Len(buffer) = encoded - Len(wire)
  /\ \A i \in 1..Len(buffer) : buffer[i] = Len(wire) + i
  /\ Len(pending) <= Len(buffer)
  /\ \A i \in 1..Len(pending) : pending[i] = Sealing(Len(wire) + i)
  /\ mode = "Encrypted" => fed = Len(wire) + Len(pending) - clearOut
WriteInv ==
  /\ mode = "Cleartext" => pending = <<>> /\ fed = 0
  /\ failed = TRUE => pending = <<>>
  /\ failed = FALSE => CallerInv

(* The bytes to be read begin where those read end, sealed in place.       *)
ReadInv ==
  /\ Len(filled) + Len(inbound) = peerSent
  /\ \A i \in 1..Len(filled) : filled[i] = i
  /\ \A i \in 1..Len(inbound) : inbound[i] = SealingIn(Len(filled) + i)
  /\ mode = "Encrypted" => fedIn = Len(filled) - clearIn
  /\ mode = "Cleartext" => fedIn = 0

-----------------------------------------------------------------------------

(* Sealed bytes are bytes of the wire. *)
LEMMA SealedTyped ==
  ASSUME NEW n \in Nat, NEW k \in Nat
  PROVE  /\ n \in 1..MaxSent => Clear(n) \in OnWire
         /\ n \in 1..MaxReceived => Clear(n) \in OnWire
         /\ n \in 1..MaxSent /\ k <= n => Cipher(n, n - k) \in OnWire
         /\ n \in 1..MaxReceived /\ k <= n => Cipher(n, n - k) \in OnWire
  BY BoundAssumption DEF Clear, Cipher, OnWire

(* A function on 1..n is a sequence. *)
LEMMA FunctionIsSeq ==
  ASSUME NEW S, NEW n \in Nat, NEW f, f = [i \in 1..n |-> f[i]], \A i \in 1..n : f[i] \in S
  PROVE  f \in Seq(S) /\ Len(f) = n
  <1>1. f \in [1..n -> S]
    OBVIOUS
  <1> QED  BY <1>1

(* What is behind the first k of a sequence. *)
LEMMA FromProperties ==
  ASSUME NEW S, NEW s \in Seq(S), NEW k \in 1..Len(s) + 1
  PROVE  /\ From(s, k) \in Seq(S)
         /\ Len(From(s, k)) = Len(s) - k + 1
         /\ \A i \in 1..Len(s) - k + 1 : From(s, k)[i] = s[k + i - 1]
  <1>1. Len(s) \in Nat
    BY LenProperties
  <1>2. \A i \in k..Len(s) : s[i] \in S
    BY <1>1, ElementOfSeq
  <1>3. k \in Int /\ k >= 1 /\ (k <= Len(s) \/ k = Len(s) + 1)
    BY <1>1
  <1>4. /\ SubSeq(s, k, Len(s)) \in Seq(S)
        /\ Len(SubSeq(s, k, Len(s))) = IF k <= Len(s) THEN Len(s) - k + 1 ELSE 0
        /\ \A i \in 1..Len(s) - k + 1 : SubSeq(s, k, Len(s))[i] = s[k + i - 1]
    BY <1>1, <1>2, <1>3, SubSeqProperties
  <1> QED  BY <1>1, <1>3, <1>4 DEF From

(* While writes succeed, the caller's buffer is offered, sealed in place.  *)
LEMMA OfferedInPlace ==
  ASSUME Types, WriteInv, failed = FALSE
  PROVE  /\ Offered \in Seq(OnWire) /\ Len(Offered) = Len(buffer)
         /\ \A i \in 1..Len(buffer) : Offered[i] = Sealing(Len(wire) + i)
         /\ FedAfter \in Nat
         /\ mode = "Encrypted" => FedAfter = Len(wire) + Len(buffer) - clearOut
  <1>1. /\ Len(buffer) \in Nat /\ Len(pending) \in Nat /\ Len(wire) \in Nat
        /\ Len(pending) <= Len(buffer) /\ Len(buffer) = encoded - Len(wire)
        /\ encoded \in Nat /\ encoded <= MaxSent /\ MaxSent \in Nat
        /\ fed \in Nat /\ clearOut \in Nat /\ clearOut <= Len(wire)
    BY LenProperties, BoundAssumption DEF Types, WriteInv, CallerInv
  <1>0. mode = "Encrypted" => fed = Len(wire) + Len(pending) - clearOut
    BY DEF WriteInv, CallerInv
  <1>2. \A i \in 1..Len(buffer) : Sealing(Len(wire) + i) \in OnWire
    <2>1. \A n \in 1..MaxSent : clearOut <= n => Sealing(n) \in OnWire
      <3> SUFFICES ASSUME NEW n \in 1..MaxSent, clearOut <= n PROVE Sealing(n) \in OnWire
        OBVIOUS
      <3>1. n \in Nat
        BY <1>1
      <3>2. Clear(n) \in OnWire /\ Cipher(n, n - clearOut) \in OnWire
        BY <1>1, <3>1, SealedTyped
      <3> QED  BY <3>2 DEF Sealing
    <2>2. \A i \in 1..Len(buffer) : Len(wire) + i \in 1..MaxSent /\ clearOut <= Len(wire) + i
      BY <1>1
    <2> QED  BY <2>1, <2>2
  <1>3. CASE mode = "Encrypted"
    <2> DEFINE rest == [i \in 1..Len(buffer) - Len(pending) |->
                          Cipher(buffer[Len(pending) + i], fed + i)]
    <2>1. ASSUME NEW i \in 1..Len(buffer) - Len(pending)
          PROVE  rest[i] = Sealing(Len(wire) + Len(pending) + i)
      <3>1. Len(pending) + i \in 1..Len(buffer)
        BY <1>1
      <3>2. buffer[Len(pending) + i] = Len(wire) + Len(pending) + i
        BY <1>1, <3>1 DEF WriteInv, CallerInv
      <3> DEFINE n == Len(wire) + Len(pending) + i
      <3>3. fed + i = n - clearOut /\ buffer[Len(pending) + i] = n
        BY <1>0, <1>1, <1>3, <3>2
      <3>4. rest[i] = Cipher(buffer[Len(pending) + i], fed + i)
        OBVIOUS
      <3> HIDE DEF n
      <3>5. rest[i] = Sealing(n)
        BY <1>3, <3>3, <3>4 DEF Sealing
      <3> QED  BY <3>5 DEF n
    <2>2. rest \in Seq(OnWire) /\ Len(rest) = Len(buffer) - Len(pending)
      <3>1. \A i \in 1..Len(buffer) - Len(pending) : rest[i] \in OnWire
        <4> SUFFICES ASSUME NEW i \in 1..Len(buffer) - Len(pending) PROVE rest[i] \in OnWire
          OBVIOUS
        <4>1. Len(pending) + i \in 1..Len(buffer)
              /\ Len(wire) + Len(pending) + i = Len(wire) + (Len(pending) + i)
          BY <1>1
        <4> QED  BY <1>2, <2>1, <4>1
      <3>2. Len(buffer) - Len(pending) \in Nat
        BY <1>1
      <3> QED  BY <3>1, <3>2
    <2>3. Offered = pending \o rest
      BY <1>3 DEF Offered, Encrypted, AlreadyEncrypted
    <2> HIDE DEF rest
    <2>4. /\ Offered \in Seq(OnWire) /\ Len(Offered) = Len(pending) + Len(rest)
          /\ \A i \in 1..Len(pending) + Len(rest) :
               Offered[i] = IF i <= Len(pending) THEN pending[i] ELSE rest[i - Len(pending)]
      BY <2>2, <2>3, ConcatProperties DEF Types
    <2>5. Len(Offered) = Len(buffer)
      BY <1>1, <2>2, <2>4
    <2>6. ASSUME NEW i \in 1..Len(buffer) PROVE Offered[i] = Sealing(Len(wire) + i)
      <3>1. CASE i <= Len(pending)
        <4>1. i \in 1..Len(pending) /\ i \in 1..Len(pending) + Len(rest)
          BY <1>1, <2>2, <3>1
        <4> QED  BY <2>4, <3>1, <4>1 DEF WriteInv, CallerInv
      <3>2. CASE ~(i <= Len(pending))
        <4>1. /\ i - Len(pending) \in 1..Len(buffer) - Len(pending)
              /\ Len(wire) + Len(pending) + (i - Len(pending)) = Len(wire) + i
              /\ i \in 1..Len(pending) + Len(rest)
          BY <1>1, <2>2, <3>2
        <4> QED  BY <2>1, <2>4, <3>2, <4>1
      <3> QED  BY <3>1, <3>2
    <2>7. FedAfter = Len(wire) + Len(buffer) - clearOut
      BY <1>0, <1>1, <1>3 DEF FedAfter, AlreadyEncrypted
    <2>8. FedAfter \in Nat
      BY <1>1, <2>7 DEF Types
    <2> QED  BY <2>4, <2>5, <2>6, <2>7, <2>8
  <1>4. CASE mode = "Cleartext"
    <2>1. Offered = [i \in 1..Len(buffer) |-> Clear(buffer[i])]
      BY <1>4 DEF Offered
    <2>2. \A i \in 1..Len(buffer) : Clear(buffer[i]) = Sealing(Len(wire) + i)
      BY <1>4 DEF WriteInv, CallerInv, Sealing
    <2>3. \A i \in 1..Len(buffer) : Clear(buffer[i]) \in OnWire
      BY <1>2, <2>2
    <2>4. FedAfter \in Nat
      BY <1>4 DEF FedAfter, Types
    <2> QED  BY <1>1, <1>4, <2>1, <2>2, <2>3, <2>4
  <1> QED  BY <1>3, <1>4 DEF Types

-----------------------------------------------------------------------------

(* The writing side, and what it needs.                                    *)
WriteSide == Types /\ WireInv /\ WriteInv
ReadSide == InTypes /\ ReadInv

(* Lengths are numbers. *)
LEMMA WriteLengths ==
  ASSUME Types
  PROVE  /\ Len(buffer) \in Nat /\ Len(pending) \in Nat /\ Len(wire) \in Nat
         /\ encoded \in Nat /\ encoded <= MaxSent /\ MaxSent \in Nat
         /\ Len(wire) <= encoded /\ clearOut \in Nat /\ clearOut <= Len(wire)
  BY LenProperties, BoundAssumption DEF Types

(* A new frame goes to the end of the caller's buffer. *)
LEMMA StartSendStep ==
  ASSUME WriteSide, NEW n \in FrameSizes, StartSend(n)
  PROVE  WriteSide'
  <1> DEFINE frame == [i \in 1..n |-> encoded + i]
  <1>1. Types
    BY DEF WriteSide
  <1>2. n \in Nat \ {0} /\ encoded + n <= MaxSent
    BY BoundAssumption DEF StartSend
  <1>3. frame \in Seq(Plain) /\ Len(frame) = n /\ \A i \in 1..n : frame[i] = encoded + i
    <2>1. \A i \in 1..n : encoded + i \in Plain
      BY <1>1, <1>2, WriteLengths DEF Plain
    <2> QED  BY <1>2, <2>1
  <1>4. buffer' = buffer \o frame
    BY DEF StartSend
  <1> HIDE DEF frame
  <1>5. /\ buffer' \in Seq(Plain) /\ Len(buffer') = Len(buffer) + n
        /\ \A i \in 1..Len(buffer) + n :
             buffer'[i] = IF i <= Len(buffer) THEN buffer[i] ELSE frame[i - Len(buffer)]
    BY <1>1, <1>3, <1>4, ConcatProperties DEF Types
  <1>6. /\ encoded' = encoded + n /\ sending' = TRUE
        /\ UNCHANGED <<mode, pending, fed, wire, failed, clearOut>>
    BY DEF StartSend, modeVars
  <1>7. encoded' \in 0..MaxSent /\ Len(wire) <= encoded'
    BY <1>1, <1>2, <1>6, WriteLengths
  <1>8. Types'
    BY <1>1, <1>5, <1>6, <1>7 DEF Types
  <1>9. WireInv'
    BY <1>6 DEF WriteSide, WireInv, Sealed
  <1>10. ASSUME failed = FALSE PROVE CallerInv'
    <2>1. buffer = <<>> /\ Len(buffer) = 0 /\ Len(wire) = encoded
      <3>1. buffer = <<>>
        BY <1>1, <1>10 DEF WriteSide, WriteInv, CallerInv, StartSend, Types
      <3> QED  BY <1>1, <1>10, <3>1, WriteLengths DEF WriteSide, WriteInv, CallerInv
    <2>2. Len(buffer') = n /\ encoded' - Len(wire) = n
      BY <1>1, <1>2, <1>5, <1>6, <2>1, WriteLengths
    <2>3. \A i \in 1..n : buffer'[i] = Len(wire) + i
      <3> SUFFICES ASSUME NEW i \in 1..n PROVE buffer'[i] = Len(wire) + i
        OBVIOUS
      <3>1. i \in 1..Len(buffer) + n /\ ~(i <= Len(buffer)) /\ i - Len(buffer) = i
        BY <1>2, <2>1
      <3> QED  BY <1>3, <1>5, <2>1, <3>1
    <2>4. Len(pending) = 0
      BY <1>1, <1>10, <2>1, WriteLengths DEF WriteSide, WriteInv, CallerInv
    <2>5. \A i \in 1..Len(pending) : FALSE
      BY <2>4
    <2>6. mode = "Encrypted" => fed = Len(wire) + Len(pending) - clearOut
      BY <1>10 DEF WriteSide, WriteInv, CallerInv
    <2> QED  BY <1>2, <1>6, <2>2, <2>3, <2>4, <2>5, <2>6 DEF CallerInv
  <1>11. WriteInv'
    BY <1>6, <1>10 DEF WriteSide, WriteInv
  <1> QED  BY <1>8, <1>9, <1>11 DEF WriteSide

(* Of what was offered, some bytes are taken, or none; the rest is pending.*)
LEMMA OfferStep ==
  ASSUME WriteSide, failed = FALSE, NEW w \in 0..Len(buffer),
         wire' \in Seq(OnWire), Len(wire') = Len(wire) + w,
         \A n \in 1..Len(wire) : wire'[n] = wire[n],
         \A i \in 1..w : wire'[Len(wire) + i] = Offered[i],
         pending' = Remaining(Offered, w),
         buffer' \in Seq(Plain), Len(buffer') = Len(buffer) - w,
         \A i \in 1..Len(buffer) - w : buffer'[i] = buffer[w + i],
         fed' = FedAfter, sending' \in BOOLEAN, sending' = FALSE => buffer' = <<>>,
         UNCHANGED <<encoded, failed, mode, clearOut>>
  PROVE  WriteSide'
  <1>1. Types /\ WireInv /\ WriteInv /\ CallerInv
    BY DEF WriteSide, WriteInv
  <1>2. /\ Offered \in Seq(OnWire) /\ Len(Offered) = Len(buffer)
        /\ \A i \in 1..Len(buffer) : Offered[i] = Sealing(Len(wire) + i)
        /\ FedAfter \in Nat
        /\ mode = "Encrypted" => FedAfter = Len(wire) + Len(buffer) - clearOut
    BY <1>1, OfferedInPlace
  <1>3. /\ w \in Nat /\ w <= Len(buffer) /\ Len(buffer) = encoded - Len(wire)
        /\ w + 1 \in 1..Len(Offered) + 1
    BY <1>1, <1>2, WriteLengths DEF CallerInv
  <1>4. /\ From(Offered, w + 1) \in Seq(OnWire)
        /\ Len(From(Offered, w + 1)) = Len(buffer) - w
        /\ \A i \in 1..Len(buffer) - w : From(Offered, w + 1)[i] = Offered[w + i]
    <2>1. /\ From(Offered, w + 1) \in Seq(OnWire)
          /\ Len(From(Offered, w + 1)) = Len(Offered) - (w + 1) + 1
          /\ \A i \in 1..Len(Offered) - (w + 1) + 1 :
               From(Offered, w + 1)[i] = Offered[w + 1 + i - 1]
      BY <1>2, <1>3, FromProperties
    <2>2. Len(Offered) - (w + 1) + 1 = Len(buffer) - w
      BY <1>1, <1>2, <1>3, WriteLengths
    <2>3. \A i \in 1..Len(buffer) - w : w + 1 + i - 1 = w + i
      BY <1>3
    <2> QED  BY <2>1, <2>2, <2>3
  <1>5. /\ pending' \in Seq(OnWire) /\ (mode = "Cleartext" => pending' = <<>>)
        /\ mode = "Encrypted" => Len(pending') = Len(buffer) - w
        /\ mode = "Encrypted" =>
             \A i \in 1..Len(buffer) - w : pending'[i] = Offered[w + i]
    BY <1>4, EmptySeq DEF Remaining
  <1>6. /\ Len(wire') \in Nat /\ Len(wire') <= encoded /\ clearOut <= Len(wire')
        /\ Len(buffer') = encoded' - Len(wire')
    BY <1>1, <1>3, WriteLengths
  <1>7. Types'
    BY <1>1, <1>2, <1>5, <1>6 DEF Types
  <1>8. \A i \in 1..Len(buffer) : Offered[i] = Sealed(Len(wire) + i)
    <2>1. \A i \in 1..Len(buffer) : Len(wire) + i > clearOut
      BY <1>1, WriteLengths
    <2> QED  BY <1>2, <2>1 DEF Sealing, Sealed
  <1>9. WireInv'
    <2> SUFFICES ASSUME NEW n \in 1..Len(wire') PROVE wire'[n] = Sealed(n)
      BY DEF WireInv, Sealed
    <2>1. CASE n <= Len(wire)
      <3>1. n \in 1..Len(wire)
        BY <1>1, <1>6, <2>1, WriteLengths
      <3> QED  BY <1>1, <3>1 DEF WireInv
    <2>2. CASE ~(n <= Len(wire))
      <3>1. /\ n - Len(wire) \in 1..w /\ n - Len(wire) \in 1..Len(buffer)
            /\ Len(wire) + (n - Len(wire)) = n
        BY <1>1, <1>3, <1>6, <2>2, WriteLengths
      <3>2. wire'[n] = Offered[n - Len(wire)]
        BY <3>1
      <3>3. Offered[n - Len(wire)] = Sealed(n)
        BY <1>8, <3>1
      <3> QED  BY <3>2, <3>3
    <2> QED  BY <2>1, <2>2
  <1>10. \A i \in 1..Len(buffer') : buffer'[i] = Len(wire') + i
    <2> SUFFICES ASSUME NEW i \in 1..Len(buffer') PROVE buffer'[i] = Len(wire') + i
      OBVIOUS
    <2>1. /\ i \in 1..Len(buffer) - w /\ w + i \in 1..Len(buffer)
          /\ Len(wire) + (w + i) = Len(wire') + i
      BY <1>1, <1>3, WriteLengths
    <2> QED  BY <1>1, <2>1 DEF CallerInv
  <1>11. Len(pending') <= Len(buffer')
    <2>1. mode = "Cleartext" => Len(pending') = 0
      BY <1>5
    <2> QED  BY <1>1, <1>3, <1>5, <2>1, WriteLengths DEF Types
  <1>12. \A i \in 1..Len(pending') : pending'[i] = Sealing(Len(wire') + i)
    <2> SUFFICES ASSUME NEW i \in 1..Len(pending') PROVE pending'[i] = Sealing(Len(wire') + i)
      OBVIOUS
    <2>1. mode = "Encrypted"
      <3>1. pending' = <<>> => FALSE
        OBVIOUS
      <3> QED  BY <1>1, <1>5, <3>1 DEF Types
    <2>2. /\ i \in 1..Len(buffer) - w /\ w + i \in 1..Len(buffer)
          /\ Len(wire) + (w + i) = Len(wire') + i
      BY <1>1, <1>3, <1>5, <2>1, WriteLengths
    <2>3. pending'[i] = Offered[w + i]
      BY <1>5, <2>1, <2>2
    <2>4. Offered[w + i] = Sealing(Len(wire') + i)
      BY <1>2, <2>2
    <2> QED  BY <2>3, <2>4
  <1>13. mode = "Encrypted" => fed' = Len(wire') + Len(pending') - clearOut
    <2> SUFFICES ASSUME mode = "Encrypted" PROVE fed' = Len(wire') + Len(pending') - clearOut
      OBVIOUS
    <2>1. fed' = Len(wire) + Len(buffer) - clearOut /\ Len(pending') = Len(buffer) - w
      BY <1>2, <1>5
    <2> QED  BY <1>1, <1>3, <2>1, WriteLengths
  <1>14. CallerInv'
    BY <1>6, <1>10, <1>11, <1>12, <1>13 DEF CallerInv, Sealing
  <1>15. mode = "Cleartext" => fed' = 0
    BY <1>1 DEF WriteInv, FedAfter
  <1> QED  BY <1>5, <1>7, <1>9, <1>14, <1>15 DEF WriteSide, WriteInv

(* poll_write on a transport that takes nothing. *)
LEMMA PollWritePendingStep ==
  ASSUME WriteSide, PollWritePending
  PROVE  WriteSide'
  <1>1. /\ failed = FALSE /\ sending = TRUE /\ pending' = Remaining(Offered, 0) /\ fed' = FedAfter
        /\ UNCHANGED <<sending, buffer, encoded, wire, failed, mode, clearOut>>
    BY DEF PollWritePending, Polling, WriteSide, Types, modeVars
  <1>2. Len(buffer) \in Nat /\ Len(wire) \in Nat /\ buffer \in Seq(Plain) /\ wire \in Seq(OnWire)
    BY WriteLengths DEF WriteSide, Types
  <1>3. /\ 0 \in 0..Len(buffer) /\ Len(wire') = Len(wire) + 0 /\ Len(buffer') = Len(buffer) - 0
        /\ \A i \in 1..0 : wire'[Len(wire) + i] = Offered[i]
        /\ \A i \in 1..Len(buffer) - 0 : buffer'[i] = buffer[0 + i]
    BY <1>1, <1>2
  <1> QED  BY <1>1, <1>2, <1>3, OfferStep

(* poll_write on one that takes some bytes. *)
LEMMA PollWriteReadyStep ==
  ASSUME WriteSide, PollWriteReady
  PROVE  WriteSide' /\ failed = FALSE /\ Len(wire') \in Len(wire) + 1 .. encoded
  <1>1. Types /\ WriteInv /\ failed = FALSE
    BY DEF WriteSide, PollWriteReady, Types
  <1>2. PICK w \in 1..Len(Offered) :
          /\ wire' = wire \o SubSeq(Offered, 1, w)
          /\ pending' = Remaining(Offered, w)
          /\ buffer' = From(buffer, w + 1)
          /\ sending' = (w < Len(buffer))
    BY DEF PollWriteReady, Claimed
  <1>3. Offered \in Seq(OnWire) /\ Len(Offered) = Len(buffer)
    BY <1>1, OfferedInPlace
  <1>4. w \in 0..Len(buffer) /\ w + 1 \in 1..Len(buffer) + 1 /\ w \in 1..Len(buffer)
    BY <1>1, <1>3, WriteLengths
  <1> DEFINE taken == SubSeq(Offered, 1, w)
  <1>5. taken \in Seq(OnWire) /\ Len(taken) = w /\ \A i \in 1..w : taken[i] = Offered[i]
    <2>1. \A i \in 1..w : Offered[i] \in OnWire
      BY <1>1, <1>3, <1>4, ElementOfSeq, WriteLengths
    <2>2. /\ taken \in Seq(OnWire) /\ Len(taken) = IF 1 <= w THEN w - 1 + 1 ELSE 0
          /\ \A i \in 1..w - 1 + 1 : taken[i] = Offered[1 + i - 1]
      BY <1>3, <1>4, <2>1, SubSeqProperties
    <2>3. w - 1 + 1 = w /\ 1 <= w /\ \A i \in 1..w : 1 + i - 1 = i
      BY <1>4
    <2> QED  BY <2>2, <2>3
  <1>6. wire' = wire \o taken
    BY <1>2
  <1> HIDE DEF taken
  <1>7. /\ wire' \in Seq(OnWire) /\ Len(wire') = Len(wire) + w
        /\ \A n \in 1..Len(wire) + w :
             wire'[n] = IF n <= Len(wire) THEN wire[n] ELSE taken[n - Len(wire)]
    <2>1. wire \in Seq(OnWire)
      BY <1>1 DEF WriteSide, Types
    <2>2. /\ wire \o taken \in Seq(OnWire) /\ Len(wire \o taken) = Len(wire) + Len(taken)
          /\ \A n \in 1..Len(wire) + Len(taken) :
               (wire \o taken)[n] = IF n <= Len(wire) THEN wire[n] ELSE taken[n - Len(wire)]
      BY <1>5, <2>1, ConcatProperties
    <2>3. Len(taken) = w
      BY <1>5
    <2> QED  BY ZenonT(30), <1>6, <2>2, <2>3
  <1>8. \A n \in 1..Len(wire) : wire'[n] = wire[n]
    <2>1. \A n \in 1..Len(wire) : n \in 1..Len(wire) + w /\ n <= Len(wire)
      BY <1>1, <1>4, WriteLengths
    <2> QED  BY <1>7, <2>1
  <1>9. \A i \in 1..w : wire'[Len(wire) + i] = Offered[i]
    <2> SUFFICES ASSUME NEW i \in 1..w PROVE wire'[Len(wire) + i] = Offered[i]
      OBVIOUS
    <2>1. /\ Len(wire) + i \in 1..Len(wire) + w /\ ~(Len(wire) + i <= Len(wire))
          /\ (Len(wire) + i) - Len(wire) = i
      BY <1>1, <1>4, WriteLengths
    <2> QED  BY <1>5, <1>7, <2>1
  <1>10. /\ buffer' \in Seq(Plain) /\ Len(buffer') = Len(buffer) - w
         /\ \A i \in 1..Len(buffer) - w : buffer'[i] = buffer[w + i]
    <2>1. /\ buffer' \in Seq(Plain) /\ Len(buffer') = Len(buffer) - (w + 1) + 1
          /\ \A i \in 1..Len(buffer) - (w + 1) + 1 : buffer'[i] = buffer[w + 1 + i - 1]
      BY <1>1, <1>2, <1>4, FromProperties DEF Types
    <2>2. /\ Len(buffer) - (w + 1) + 1 = Len(buffer) - w
          /\ \A i \in 1..Len(buffer) - w : w + 1 + i - 1 = w + i
      BY <1>1, <1>4, WriteLengths
    <2> QED  BY <2>1, <2>2
  <1>11. sending' \in BOOLEAN /\ (sending' = FALSE => buffer' = <<>>)
    <2>1. sending' = FALSE => Len(buffer') = 0
      <3>1. sending' = FALSE => ~(w < Len(buffer))
        BY <1>2
      <3>2. ~(w < Len(buffer)) => Len(buffer) - w = 0
        BY <1>1, <1>4, WriteLengths
      <3> QED  BY <1>10, <3>1, <3>2
    <2>2. sending' \in BOOLEAN
      BY <1>2
    <2> QED  BY <1>10, <2>1, <2>2, EmptySeq
  <1>12. fed' = FedAfter /\ UNCHANGED <<encoded, failed, mode, clearOut>>
    BY DEF PollWriteReady, modeVars
  <1>13. WriteSide'
    BY <1>1, <1>2, <1>4, <1>7, <1>8, <1>9, <1>10, <1>11, <1>12, OfferStep
  <1>14. Len(wire') \in Len(wire) + 1 .. encoded
    <2>1. Len(buffer) = encoded - Len(wire)
      BY <1>1 DEF WriteInv, CallerInv
    <2> QED  BY <1>1, <1>4, <1>7, <2>1, WriteLengths
  <1> QED  BY <1>1, <1>13, <1>14

(* A write that fails is the last. *)
LEMMA PollWriteErrorStep ==
  ASSUME WriteSide, PollWriteError
  PROVE  WriteSide'
  <1>1. /\ failed' = TRUE /\ pending' = <<>> /\ fed' = FedAfter /\ sending' = FALSE
        /\ UNCHANGED <<buffer, encoded, wire, mode, clearOut>>
    BY DEF PollWriteError, modeVars
  <1>2. fed' \in Nat
    <2>1. Len(pending) <= Len(buffer)
      <3>1. failed = TRUE => Len(pending) = 0
        BY DEF WriteSide, WriteInv
      <3> QED  BY <3>1, WriteLengths DEF WriteSide, WriteInv, CallerInv, Types
    <2>2. fed \in Nat /\ Len(pending) \in Nat /\ Len(buffer) \in Nat
      BY WriteLengths DEF WriteSide, Types
    <2> QED  BY <1>1, <2>1, <2>2 DEF FedAfter, AlreadyEncrypted
  <1>3. mode = "Cleartext" => fed' = 0
    BY <1>1 DEF WriteSide, WriteInv, FedAfter
  <1> QED  BY <1>1, <1>2, <1>3, EmptySeq DEF WriteSide, Types, WireInv, Sealed, WriteInv

(* The switch: nothing is pending, and all that was sent before is clear.  *)
LEMMA EncryptStep ==
  ASSUME WriteSide, ReadSide, Encrypt
  PROVE  WriteSide' /\ ReadSide'
  <1>1. /\ mode = "Cleartext" /\ sending = FALSE /\ inbound = <<>> /\ mode' = "Encrypted"
        /\ clearOut' = Len(wire) /\ clearIn' = Len(filled) /\ buffer' = <<>>
        /\ UNCHANGED <<sending, encoded, pending, fed, wire, failed,
                       inbound, peerSent, fedIn, filled>>
    BY DEF Encrypt, readVars, WriteSide, Types
  <1>2. pending = <<>> /\ Len(pending) = 0 /\ Len(wire) \in Nat
    BY <1>1, WriteLengths DEF WriteSide, WriteInv
  <1>3. Types'
    <2>1. Len(wire) <= Len(wire)
      BY <1>2
    <2> QED  BY <1>1, <1>2, <2>1, EmptySeq DEF WriteSide, Types
  <1>4. WireInv'
    <2>1. \A n \in 1..Len(wire) : ~(n > Len(wire))
      BY <1>2
    <2> QED  BY <1>1, <2>1 DEF WriteSide, WireInv, Sealed
  <1>5. ASSUME failed = FALSE PROVE CallerInv'
    <2>1. buffer = <<>> /\ Len(buffer') = encoded - Len(wire) /\ Len(buffer') = 0
      BY <1>1, <1>5 DEF WriteSide, WriteInv, CallerInv
    <2>2. \A i \in 1..0 : FALSE
      OBVIOUS
    <2>3. fed = 0
      BY <1>1 DEF WriteSide, WriteInv
    <2> QED  BY <1>1, <1>2, <2>1, <2>2, <2>3 DEF CallerInv
  <1>6. WriteInv'
    BY <1>1, <1>2, <1>5 DEF WriteInv
  <1>7. Len(filled) \in Nat /\ Len(inbound) = 0
    BY <1>1, LenProperties DEF ReadSide, InTypes
  <1>8. InTypes'
    BY <1>1, <1>7 DEF ReadSide, InTypes
  <1>9. ReadInv'
    BY <1>1, <1>7 DEF ReadSide, ReadInv
  <1> QED  BY <1>3, <1>4, <1>6, <1>8, <1>9 DEF WriteSide, ReadSide

-----------------------------------------------------------------------------

(* Lengths are numbers, on the reading side too. *)
LEMMA ReadLengths ==
  ASSUME InTypes
  PROVE  /\ Len(inbound) \in Nat /\ Len(filled) \in Nat /\ clearIn \in Nat
         /\ clearIn <= Len(filled) /\ peerSent \in Nat /\ peerSent <= MaxReceived
         /\ MaxReceived \in Nat
  BY LenProperties, BoundAssumption DEF InTypes

(* The peer's bytes go behind those still to be read, sealed in place.     *)
LEMMA PeerSendStep ==
  ASSUME ReadSide, mode \in {"Cleartext", "Encrypted"}, NEW n \in FrameSizes, PeerSend(n)
  PROVE  ReadSide'
  <1> DEFINE bytes == [i \in 1..n |-> SealingIn(peerSent + i)]
  <1>1. InTypes /\ ReadInv
    BY DEF ReadSide
  <1>2. n \in Nat \ {0} /\ peerSent + n <= MaxReceived
    BY BoundAssumption DEF PeerSend
  <1>3. bytes \in Seq(OnWire) /\ Len(bytes) = n /\ \A i \in 1..n : bytes[i] = SealingIn(peerSent + i)
    <2>1. ASSUME NEW i \in 1..n PROVE SealingIn(peerSent + i) \in OnWire
      <3> DEFINE m == peerSent + i
      <3>1. m \in Nat /\ m \in 1..MaxReceived /\ clearIn \in Nat /\ clearIn <= m
        BY <1>1, <1>2, ReadLengths DEF ReadInv
      <3> HIDE DEF m
      <3>2. Clear(m) \in OnWire /\ Cipher(m, m - clearIn) \in OnWire
        BY <3>1, SealedTyped
      <3>3. SealingIn(m) \in OnWire
        BY <3>2 DEF SealingIn
      <3> QED  BY <3>3 DEF m
    <2> QED  BY <1>2, <2>1
  <1>4. inbound' = inbound \o bytes
    <2> DEFINE asSent ==
                 [i \in 1..n |->
                    IF mode = "Encrypted" THEN Cipher(peerSent + i, peerSent + i - clearIn)
                    ELSE Clear(peerSent + i)]
    <2>1. inbound' = inbound \o asSent
      BY DEF PeerSend
    <2>2. \A i \in 1..n : asSent[i] = SealingIn(peerSent + i)
      <3> SUFFICES ASSUME NEW i \in 1..n PROVE asSent[i] = SealingIn(peerSent + i)
        OBVIOUS
      <3>1. asSent[i] = IF mode = "Encrypted" THEN Cipher(peerSent + i, peerSent + i - clearIn)
                        ELSE Clear(peerSent + i)
        OBVIOUS
      <3>2. peerSent + i - clearIn = (peerSent + i) - clearIn
        BY <1>1, <1>2, ReadLengths
      <3> HIDE DEF asSent
      <3> QED  BY <3>1, <3>2 DEF SealingIn
    <2>3. asSent = [i \in 1..n |-> asSent[i]]
      OBVIOUS
    <2> HIDE DEF asSent
    <2>4. asSent = [i \in 1..n |-> SealingIn(peerSent + i)]
      BY <2>2, <2>3
    <2> QED  BY <2>1, <2>4
  <1> HIDE DEF bytes
  <1>5. /\ inbound' \in Seq(OnWire) /\ Len(inbound') = Len(inbound) + n
        /\ \A i \in 1..Len(inbound) + n :
             inbound'[i] = IF i <= Len(inbound) THEN inbound[i] ELSE bytes[i - Len(inbound)]
    BY <1>1, <1>3, <1>4, ConcatProperties DEF InTypes
  <1>6. peerSent' = peerSent + n /\ UNCHANGED <<fedIn, filled, mode, clearIn>>
    BY DEF PeerSend, modeVars
  <1>7. peerSent' \in 0..MaxReceived /\ Len(filled) + Len(inbound') = peerSent'
    BY <1>1, <1>2, <1>5, <1>6, ReadLengths DEF ReadInv
  <1>8. InTypes'
    BY <1>1, <1>5, <1>6, <1>7 DEF InTypes
  <1>9. \A i \in 1..Len(inbound') : inbound'[i] = SealingIn(Len(filled) + i)
    <2> SUFFICES ASSUME NEW i \in 1..Len(inbound') PROVE inbound'[i] = SealingIn(Len(filled) + i)
      OBVIOUS
    <2>1. CASE i <= Len(inbound)
      <3>1. i \in 1..Len(inbound) /\ i \in 1..Len(inbound) + n
        BY <1>1, <1>5, <2>1, ReadLengths
      <3> QED  BY <1>1, <1>5, <2>1, <3>1 DEF ReadInv
    <2>2. CASE ~(i <= Len(inbound))
      <3>1. /\ i - Len(inbound) \in 1..n /\ i \in 1..Len(inbound) + n
            /\ peerSent + (i - Len(inbound)) = Len(filled) + i
        BY <1>1, <1>2, <1>5, <2>2, ReadLengths DEF ReadInv
      <3>2. inbound'[i] = bytes[i - Len(inbound)]
        BY <1>5, <2>2, <3>1
      <3>3. bytes[i - Len(inbound)] = SealingIn(Len(filled) + i)
        BY <1>3, <3>1
      <3> QED  BY <3>2, <3>3
    <2> QED  BY <2>1, <2>2
  <1>10. ReadInv'
    BY <1>1, <1>6, <1>7, <1>9 DEF ReadInv, SealingIn
  <1> QED  BY <1>8, <1>10 DEF ReadSide

(* poll_read fills in the next bytes of the peer, each decrypted once.     *)
LEMMA PollReadStep ==
  ASSUME ReadSide, mode \in {"Cleartext", "Encrypted"}, PollReadReady
  PROVE  ReadSide'
  <1>1. InTypes /\ ReadInv
    BY DEF ReadSide
  <1>2. PICK n \in 1..Len(inbound) :
          /\ filled' = Decrypted(n)
          /\ fedIn' = IF mode = "Encrypted" THEN fedIn + n ELSE fedIn
          /\ inbound' = From(inbound, n + 1)
          /\ UNCHANGED <<peerSent, mode, clearIn>>
    BY DEF PollReadReady, modeVars
  <1>3. /\ n \in Nat \ {0} /\ n <= Len(inbound) /\ n + 1 \in 1..Len(inbound) + 1
        /\ Len(filled) + n \in Nat /\ Len(filled) + n <= MaxReceived
    BY <1>1, ReadLengths DEF ReadInv
  <1> DEFINE read == [i \in 1..n |-> IF mode = "Encrypted" THEN Decipher(inbound[i], fedIn + i)
                                                          ELSE inbound[i].byte]
  <1>4. ASSUME NEW i \in 1..n PROVE read[i] = Len(filled) + i
    <2> DEFINE m == Len(filled) + i
    <2>1. i \in 1..Len(inbound) /\ m \in Nat
      BY <1>1, <1>3, ReadLengths
    <2>2. inbound[i] = SealingIn(m)
      BY <1>1, <2>1 DEF ReadInv
    <2>3. mode = "Encrypted" => fedIn + i = m - clearIn
      BY <1>1, <1>3, ReadLengths DEF ReadInv
    <2>4. read[i] = IF mode = "Encrypted" THEN Decipher(inbound[i], fedIn + i) ELSE inbound[i].byte
      OBVIOUS
    <2> HIDE DEF m, read
    <2>5. read[i] = m
      BY <2>2, <2>3, <2>4 DEF SealingIn, Decipher, Cipher, Clear
    <2> QED  BY <2>5 DEF m
  <1>5. read \in Seq(1..MaxReceived) /\ Len(read) = n
    <2>1. \A i \in 1..n : Len(filled) + i \in 1..MaxReceived
      BY <1>1, <1>3, ReadLengths
    <2>2. \A i \in 1..n : read[i] \in 1..MaxReceived
      <3> HIDE DEF read
      <3> QED  BY <1>4, <2>1
    <2>3. read = [i \in 1..n |-> read[i]]
      OBVIOUS
    <2> HIDE DEF read
    <2>4. n \in Nat
      BY <1>3
    <2> QED  BY <2>2, <2>3, <2>4, FunctionIsSeq
  <1>6. filled' = filled \o read
    BY <1>2 DEF Decrypted
  <1> HIDE DEF read
  <1>7. /\ filled' \in Seq(1..MaxReceived) /\ Len(filled') = Len(filled) + n
        /\ \A i \in 1..Len(filled) + n :
             filled'[i] = IF i <= Len(filled) THEN filled[i] ELSE read[i - Len(filled)]
    BY <1>1, <1>5, <1>6, ConcatProperties DEF InTypes
  <1>8. /\ inbound' \in Seq(OnWire) /\ Len(inbound') = Len(inbound) - n
        /\ \A i \in 1..Len(inbound) - n : inbound'[i] = inbound[n + i]
    <2>1. /\ inbound' \in Seq(OnWire) /\ Len(inbound') = Len(inbound) - (n + 1) + 1
          /\ \A i \in 1..Len(inbound) - (n + 1) + 1 : inbound'[i] = inbound[n + 1 + i - 1]
      BY <1>1, <1>2, <1>3, FromProperties DEF InTypes
    <2>2. /\ Len(inbound) - (n + 1) + 1 = Len(inbound) - n
          /\ \A i \in 1..Len(inbound) - n : n + 1 + i - 1 = n + i
      BY <1>1, <1>3, ReadLengths
    <2> QED  BY <2>1, <2>2
  <1>9. /\ Len(filled') + Len(inbound') = peerSent' /\ clearIn <= Len(filled')
        /\ fedIn' \in Nat
        /\ mode = "Encrypted" => fedIn' = Len(filled') - clearIn
        /\ mode = "Cleartext" => fedIn' = 0
    <2>1. Len(filled) + Len(inbound) = peerSent /\ fedIn \in Nat
      BY <1>1 DEF ReadInv, InTypes
    <2>2. mode = "Encrypted" => fedIn' = fedIn + n /\ fedIn = Len(filled) - clearIn
      BY <1>1, <1>2 DEF ReadInv
    <2>3. mode = "Cleartext" => fedIn' = 0
      BY <1>1, <1>2 DEF ReadInv
    <2>4. Len(filled') = Len(filled) + n /\ Len(inbound') = Len(inbound) - n /\ peerSent' = peerSent
      BY <1>2, <1>7, <1>8
    <2>5. mode = "Encrypted" => fedIn' \in Nat /\ fedIn' = Len(filled') - clearIn
      BY <1>1, <1>3, <2>1, <2>2, <2>4, ReadLengths
    <2>6. Len(filled') + Len(inbound') = peerSent' /\ clearIn <= Len(filled')
      BY <1>1, <1>3, <2>1, <2>4, ReadLengths
    <2> QED  BY <2>3, <2>5, <2>6
  <1>10. InTypes'
    BY <1>1, <1>2, <1>7, <1>8, <1>9 DEF InTypes
  <1>11. \A i \in 1..Len(filled') : filled'[i] = i
    <2> SUFFICES ASSUME NEW i \in 1..Len(filled') PROVE filled'[i] = i
      OBVIOUS
    <2>1. i \in 1..Len(filled) + n
      BY <1>7
    <2>2. CASE i <= Len(filled)
      <3>1. i \in 1..Len(filled)
        BY <1>1, <2>1, <2>2, ReadLengths
      <3> QED  BY <1>1, <1>7, <2>1, <2>2, <3>1 DEF ReadInv
    <2>3. CASE ~(i <= Len(filled))
      <3>1. i - Len(filled) \in 1..n /\ Len(filled) + (i - Len(filled)) = i
        BY <1>1, <1>3, <2>1, <2>3, ReadLengths
      <3> QED  BY <1>4, <1>7, <2>1, <2>3, <3>1
    <2> QED  BY <2>2, <2>3
  <1>12. \A i \in 1..Len(inbound') : inbound'[i] = SealingIn(Len(filled') + i)
    <2> SUFFICES ASSUME NEW i \in 1..Len(inbound') PROVE inbound'[i] = SealingIn(Len(filled') + i)
      OBVIOUS
    <2>1. /\ i \in 1..Len(inbound) - n /\ n + i \in 1..Len(inbound)
          /\ Len(filled) + (n + i) = Len(filled') + i
      BY <1>1, <1>3, <1>7, <1>8, ReadLengths
    <2>2. inbound[n + i] = SealingIn(Len(filled) + (n + i))
      BY <1>1, <2>1 DEF ReadInv
    <2> QED  BY <1>8, <2>1, <2>2
  <1>13. ReadInv'
    BY <1>2, <1>9, <1>11, <1>12 DEF ReadInv, SealingIn
  <1> QED  BY <1>10, <1>13 DEF ReadSide

-----------------------------------------------------------------------------

(* Each side is left alone by the steps of the other. *)
LEMMA WriteSideStays ==
  ASSUME WriteSide, UNCHANGED <<writeVars, modeVars>>
  PROVE  WriteSide'
  BY DEF writeVars, modeVars, WriteSide, Types, WireInv, Sealed, WriteInv, CallerInv, Sealing

(* And the other way round. *)
LEMMA ReadSideStays ==
  ASSUME ReadSide, UNCHANGED <<readVars, modeVars>>
  PROVE  ReadSide'
  BY DEF readVars, modeVars, ReadSide, InTypes, ReadInv, SealingIn

(* Initially nothing was sent in either direction. *)
LEMMA InvInit == Init => WriteSide /\ ReadSide
  <1> SUFFICES ASSUME Init PROVE WriteSide /\ ReadSide
    OBVIOUS
  <1>1. Len(<<>>) = 0 /\ \A i \in 1..0 : FALSE
    OBVIOUS
  <1>2. Types
    <2>1. <<>> \in Seq(Plain) /\ <<>> \in Seq(OnWire) /\ 0 \in 0..MaxSent
      BY EmptySeq, BoundAssumption
    <2>2. wire = <<>> /\ Len(wire) = 0 /\ encoded = 0 /\ clearOut = 0
      BY <1>1 DEF Init
    <2>3. Len(wire) <= encoded /\ clearOut <= Len(wire)
      BY <2>2
    <2> QED  BY <2>1, <2>3 DEF Init, Types
  <1>3. WireInv /\ WriteInv
    <2>1. WireInv
      BY <1>1 DEF Init, WireInv
    <2>2. CallerInv
      <3>1. Len(buffer) = 0 /\ Len(pending) = 0 /\ Len(wire) = 0
        BY <1>1 DEF Init
      <3>2. Len(buffer) = encoded - Len(wire) /\ Len(pending) <= Len(buffer)
        <4>1. encoded = 0
          BY DEF Init
        <4> QED  BY <3>1, <4>1
      <3> QED  BY <1>1, <3>1, <3>2 DEF Init, CallerInv
    <2> QED  BY <2>1, <2>2 DEF Init, WriteInv
  <1>4. InTypes
    BY <1>1, EmptySeq, BoundAssumption DEF Init, InTypes
  <1>5. ReadInv
    BY <1>1 DEF Init, ReadInv
  <1> QED  BY <1>2, <1>3, <1>4, <1>5 DEF WriteSide, ReadSide

(* Every action keeps both sides' invariants. *)
LEMMA InvStep == WriteSide /\ ReadSide /\ [Next]_vars => (WriteSide /\ ReadSide)'
  <1> SUFFICES ASSUME WriteSide, ReadSide, [Next]_vars PROVE WriteSide' /\ ReadSide'
    OBVIOUS
  <1>1. mode \in {"Cleartext", "Encrypted"}
    BY DEF WriteSide, Types
  <1>2. ASSUME NEW n \in FrameSizes, StartSend(n) PROVE WriteSide' /\ ReadSide'
    BY <1>2, StartSendStep, ReadSideStays DEF StartSend
  <1>3. ASSUME NEW n \in FrameSizes, PeerSend(n) PROVE WriteSide' /\ ReadSide'
    BY <1>1, <1>3, PeerSendStep, WriteSideStays DEF PeerSend
  <1>4. CASE PollWritePending
    BY <1>4, PollWritePendingStep, ReadSideStays DEF PollWritePending
  <1>5. CASE PollWriteReady
    BY <1>5, PollWriteReadyStep, ReadSideStays DEF PollWriteReady
  <1>6. CASE PollWriteError
    BY <1>6, PollWriteErrorStep, ReadSideStays DEF PollWriteError
  <1>7. CASE PollReadReady
    BY <1>1, <1>7, PollReadStep, WriteSideStays DEF PollReadReady
  <1>8. CASE Encrypt
    BY <1>8, EncryptStep
  <1>9. CASE UNCHANGED vars
    BY <1>9, WriteSideStays, ReadSideStays DEF vars
  <1> QED  BY <1>2, <1>3, <1>4, <1>5, <1>6, <1>7, <1>8, <1>9 DEF Next, Write

(* Both invariants hold in every behaviour. *)
LEMMA InvHolds == SafeSpec => [](WriteSide /\ ReadSide)
  BY InvInit, InvStep, PTL DEF SafeSpec

(***************************************************************************)
(* What the run checks, for every instance.                                *)
(***************************************************************************)

(* A sequence of elements of a set is one of a larger set.                 *)
LEMMA SeqWidens ==
  ASSUME NEW S, NEW T, S \subseteq T, NEW s \in Seq(S)
  PROVE  s \in Seq(T)
  <1>1. Len(s) \in Nat /\ s = [i \in 1..Len(s) |-> s[i]]
    OBVIOUS
  <1>2. \A i \in 1..Len(s) : s[i] \in T
    BY ElementOfSeq
  <1> QED  BY <1>1, <1>2, FunctionIsSeq

(* A sequence is the function of its elements. *)
LEMMA SeqIsFunction ==
  ASSUME NEW S, NEW s \in Seq(S)
  PROVE  s = [i \in 1..Len(s) |-> s[i]]
  OBVIOUS

(* The stream of the first k bytes, and its prefixes.                      *)
LEMMA UptoProperties ==
  ASSUME NEW k \in Nat
  PROVE  Upto(k) \in Seq(1..k) /\ Len(Upto(k)) = k /\ \A i \in 1..k : Upto(k)[i] = i
  BY DEF Upto

(* The first j bytes of the first k are the first j. *)
LEMMA UptoPrefix ==
  ASSUME NEW k \in Nat, NEW j \in 0..k
  PROVE  SubSeq(Upto(k), 1, j) = Upto(j)
  <1>1. /\ Upto(k) \in Seq(1..k) /\ Len(Upto(k)) = k /\ \A i \in 1..k : Upto(k)[i] = i
        /\ Upto(j) \in Seq(1..j) /\ Len(Upto(j)) = j /\ \A i \in 1..j : Upto(j)[i] = i
        /\ j \in Nat
    BY UptoProperties
  <1>2. \A i \in 1..j : Upto(k)[i] \in 1..k
    BY <1>1
  <1> DEFINE s == SubSeq(Upto(k), 1, j)
  <1>3. /\ s \in Seq(1..k) /\ Len(s) = (IF 1 <= j THEN j - 1 + 1 ELSE 0)
        /\ \A i \in 1..j - 1 + 1 : s[i] = Upto(k)[1 + i - 1]
    BY <1>1, <1>2, SubSeqProperties
  <1>4. (IF 1 <= j THEN j - 1 + 1 ELSE 0) = j /\ j - 1 + 1 = j
    BY <1>1
  <1>5. \A i \in 1..j : 1 + i - 1 = i /\ i \in 1..k
    BY <1>1
  <1> HIDE DEF s
  <1>6. Len(s) = j /\ \A i \in 1..j : s[i] = Upto(j)[i]
    BY <1>1, <1>3, <1>4, <1>5
  <1>7. s = Upto(j)
    <2>1. Upto(j) \in Seq(1..k)
      <3>1. \A i \in 1..j : Upto(j)[i] \in 1..k
        BY <1>1, <1>5
      <3> QED  BY <1>1, <3>1
    <2> QED  BY <1>1, <1>3, <1>6, <2>1, SeqEqual
  <1> QED  BY <1>7 DEF s

(* Types, with the bounds. *)
THEOREM TypeCorrect == SafeSpec => []TypeOK
  <1>1. WriteSide /\ ReadSide => TypeOK
    <2> SUFFICES ASSUME WriteSide, ReadSide PROVE TypeOK
      OBVIOUS
    <2>1. clearOut \in 0..MaxSent
      BY WriteLengths DEF WriteSide
    <2>2. clearIn \in 0..MaxReceived
      BY ReadLengths DEF ReadSide, ReadInv
    <2>3. fedIn \in 0..MaxReceived
      <3>1. Len(filled) <= MaxReceived
        BY ReadLengths DEF ReadSide, ReadInv
      <3>2. mode = "Encrypted" => fedIn <= MaxReceived
        BY <3>1, ReadLengths DEF ReadSide, ReadInv
      <3>3. mode = "Cleartext" => fedIn <= MaxReceived
        BY ReadLengths DEF ReadSide, ReadInv
      <3> QED  BY <3>2, <3>3, BoundAssumption DEF WriteSide, Types, ReadSide, InTypes
    <2>4. filled \in Seq(0..MaxReceived)
      <3>1. 1..MaxReceived \subseteq 0..MaxReceived
        BY BoundAssumption
      <3> QED  BY <3>1, SeqWidens DEF ReadSide, InTypes
    <2> QED  BY <2>1, <2>2, <2>3, <2>4 DEF WriteSide, ReadSide, Types, InTypes, TypeOK
  <1> QED  BY <1>1, InvHolds, PTL

(* The pending bytes are bytes of the buffer that is offered: the length   *)
(* that poll_write subtracts does not underflow.                           *)
THEOREM NoUnderflow == SafeSpec => []PendingIsInBuffer
  <1>1. WriteSide => PendingIsInBuffer
    <2> SUFFICES ASSUME WriteSide PROVE PendingIsInBuffer
      OBVIOUS
    <2>1. failed = TRUE => Len(pending) = 0
      BY DEF WriteSide, WriteInv
    <2> QED  BY <2>1, WriteLengths DEF WriteSide, WriteInv, CallerInv, Types, PendingIsInBuffer
  <1> QED  BY <1>1, InvHolds, PTL

(* Every byte is on the wire once, in order, encrypted at its place.       *)
THEOREM WireIsRight == SafeSpec => []WireIsTheStream
  <1>1. WriteSide => WireIsTheStream
    <2> SUFFICES ASSUME WriteSide PROVE WireIsTheStream
      OBVIOUS
    <2>1. wire = [n \in 1..Len(wire) |-> wire[n]]
      BY SeqIsFunction DEF WriteSide, Types
    <2>2. \A n \in 1..Len(wire) : wire[n] = Sealed(n)
      BY DEF WriteSide, WireInv
    <2> QED  BY <2>1, <2>2 DEF WireIsTheStream
  <1> QED  BY <1>1, InvHolds, PTL

(* What is read is what was sent, decrypted once.                          *)
THEOREM ReadIsRight == SafeSpec => []ReadIsTheStream
  <1>1. ReadSide => ReadIsTheStream
    <2> SUFFICES ASSUME ReadSide PROVE ReadIsTheStream
      OBVIOUS
    <2>1. filled = [i \in 1..Len(filled) |-> filled[i]]
      BY SeqIsFunction DEF ReadSide, InTypes
    <2>2. \A i \in 1..Len(filled) : filled[i] = i
      BY DEF ReadSide, ReadInv
    <2>3. filled = Upto(Len(filled))
      BY <2>1, <2>2 DEF Upto
    <2> QED  BY <2>3 DEF ReadIsTheStream, ReadSide, ReadInv
  <1> QED  BY <1>1, InvHolds, PTL

(* What the other end makes out of the wire is the stream of bytes.        *)
LEMMA MadeOut ==
  /\ WriteSide => [n \in 1..Len(wire) |-> Made(n)] = Upto(Len(wire))
  /\ WriteSide' => [n \in 1..Len(wire) |-> Made(n)]' = Upto(Len(wire'))
  <1>1. ASSUME NEW n, NEW k PROVE Decipher(Cipher(n, k), k) = n /\ Clear(n).byte = n
    BY DEF Decipher, Cipher, Clear
  <1>2. ASSUME WriteSide, NEW n \in 1..Len(wire) PROVE Made(n) = n
    <2>1. wire[n] = Sealed(n)
      BY <1>2 DEF WriteSide, WireInv
    <2> QED  BY <1>1, <2>1 DEF Sealed, Made
  <1>3. ASSUME WriteSide', NEW n \in 1..Len(wire') PROVE Made(n)' = n
    <2>1. wire'[n] = Sealed(n)'
      BY <1>3 DEF WriteSide, WireInv
    <2> QED  BY <1>1, <2>1 DEF Sealed, Made
  <1> QED  BY <1>2, <1>3 DEF Upto

(* Every step is one of the pipe's, or none to it.                         *)
LEMMA PipeStep ==
  ASSUME WriteSide, ReadSide, [Next]_vars
  PROVE  [Pipe!Next]_(Pipe!vars)
  <1> DEFINE offered == Upto(encoded)
             delivered == [n \in 1..Len(wire) |-> Made(n)]
  <1>1. delivered = Upto(Len(wire)) /\ delivered' = Upto(Len(wire'))
    BY InvStep, MadeOut
  <1>2. Types /\ encoded \in Nat /\ Len(wire) \in Nat
    BY WriteLengths DEF WriteSide
  <1>3. Pipe!vars = <<offered, delivered, failed>>
    BY DEF Pipe!vars
  <1>4. offered' = Upto(encoded')
    OBVIOUS
  <1>5. ASSUME NEW n \in FrameSizes, StartSend(n) PROVE Pipe!Offer
    <2>1. /\ encoded' = encoded + n /\ wire' = wire /\ failed' = failed
          /\ n \in Nat \ {0} /\ encoded + n <= MaxSent
      BY <1>5, BoundAssumption DEF StartSend
    <2>2. Upto(encoded + n) \in Seq(Plain)
      <3>1. 1..(encoded + n) \subseteq Plain /\ encoded + n \in Nat
        BY <1>2, <2>1, BoundAssumption DEF Plain
      <3>2. Upto(encoded + n) \in Seq(1..(encoded + n))
        BY <3>1, UptoProperties
      <3> QED  BY <3>1, <3>2, SeqWidens
    <2>3. Pipe!IsStrictPrefix(Upto(encoded), Upto(encoded + n))
      <3>1. encoded \in 0..(encoded + n) /\ encoded + n \in Nat /\ encoded # encoded + n
        BY <1>2, <2>1
      <3>2. Len(Upto(encoded)) = encoded /\ Len(Upto(encoded + n)) = encoded + n
        BY <1>2, <3>1, UptoProperties
      <3>3. SubSeq(Upto(encoded + n), 1, encoded) = Upto(encoded)
        BY <3>1, UptoPrefix
      <3>4. SubSeq(Upto(encoded), 1, encoded) = Upto(encoded)
        BY <1>2, UptoPrefix
      <3> QED  BY <1>2, <3>1, <3>2, <3>3, <3>4 DEF Pipe!IsStrictPrefix, Pipe!IsPrefix
    <2> QED  BY <1>1, <1>4, <2>1, <2>2, <2>3 DEF Pipe!Offer
  <1>6. CASE PollWriteReady
    <2>1. /\ failed = FALSE /\ Len(wire') \in Len(wire) + 1 .. encoded
          /\ encoded' = encoded /\ failed' = failed
      BY <1>6, PollWriteReadyStep DEF PollWriteReady
    <2>2. SubSeq(Upto(encoded), 1, Len(wire')) = Upto(Len(wire'))
      BY <1>2, <2>1, UptoPrefix
    <2>3. Len(delivered) = Len(wire) /\ Len(offered) = encoded
      BY <1>1, <1>2, UptoProperties
    <2> QED  BY <1>1, <1>4, <2>1, <2>2, <2>3 DEF Pipe!Deliver, Pipe!Next
  <1>7. ASSUME wire' = wire, encoded' = encoded PROVE offered' = offered /\ delivered' = delivered
    BY <1>1, <1>4, <1>7
  <1>8. ASSUME UNCHANGED <<encoded, wire, failed>> PROVE UNCHANGED Pipe!vars
    <2>1. offered' = offered /\ delivered' = delivered /\ failed' = failed
      BY <1>7, <1>8
    <2> HIDE DEF offered, delivered
    <2>2. <<offered', delivered', failed'>> = <<offered, delivered, failed>>
      BY <2>1
    <2>3. Pipe!vars' = <<offered', delivered', failed'>>
      BY DEF Pipe!vars, offered, delivered
    <2> QED  BY <1>3, <2>2, <2>3
  <1>9. CASE PollWriteError
    <2>1. failed' = TRUE /\ wire' = wire /\ encoded' = encoded
      BY <1>9 DEF PollWriteError
    <2>2. CASE failed
      <3>1. failed' = failed
        BY <1>2, <2>1, <2>2 DEF Types
      <3> QED  BY <1>8, <2>1, <3>1
    <2>3. CASE ~failed
      <3>1. offered' = offered /\ delivered' = delivered
        BY <1>7, <2>1
      <3> HIDE DEF offered, delivered
      <3>2. Pipe!Break
        <4>1. ~failed /\ failed' = TRUE /\ UNCHANGED <<offered, delivered>>
          BY <2>1, <2>3, <3>1
        <4> QED  BY <4>1 DEF Pipe!Break, offered, delivered
      <3> QED  BY <3>2 DEF Pipe!Next
    <2> QED  BY <2>2, <2>3
  <1>10. CASE PollWritePending \/ PollReadReady \/ Encrypt \/ (\E n \in FrameSizes : PeerSend(n))
               \/ UNCHANGED vars
    BY <1>8, <1>10 DEF PollWritePending, PollReadReady, Encrypt, PeerSend, writeVars, vars
  <1> QED  BY <1>5, <1>6, <1>10, <1>9 DEF Next, Write, Pipe!Next

(* Encryption is transparent: what the socket does is what a pipe of plain *)
(* bytes does.                                                             *)
THEOREM SocketIsAPipe == SafeSpec => Pipe!SafeSpec
  <1>1. Init => Pipe!Init
    <2> SUFFICES ASSUME Init PROVE Pipe!Init
      OBVIOUS
    <2>1. Len(wire) = 0 /\ encoded = 0 /\ failed = FALSE
      BY DEF Init
    <2>2. Upto(0) = <<>>
      BY UptoProperties, EmptySeq
    <2> QED  BY <2>1, <2>2, InvInit, MadeOut DEF Pipe!Init
  <1>2. WriteSide /\ ReadSide /\ [Next]_vars => [Pipe!Next]_(Pipe!vars)
    BY PipeStep
  <1> QED  BY <1>1, <1>2, InvHolds, PTL DEF SafeSpec, Pipe!SafeSpec
=============================================================================
