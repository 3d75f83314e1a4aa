------------------------------ MODULE MCSocket ------------------------------
(***************************************************************************)
(* The socket of a login connection (proxy/src/client_actor/mc_socket.rs): *)
(* clear at first, then a CFB8 stream cipher over a transport that takes   *)
(* as much of a write as it likes, or none of it.  Bytes already encrypted *)
(* but not yet taken are kept in pending_bytes: the cipher cannot encrypt  *)
(* them again.                                                             *)
(*                                                                         *)
(* The framer above (tokio_util's Framed, external) offers its whole write *)
(* buffer at each poll and advances it by the count returned; it runs one  *)
(* `send` at a time to its end (StreamActor::send).                        *)
(*                                                                         *)
(* Operators that only PROJECT.json's mutants name (NothingEncrypted, ...)  *)
(* are slips the code could have made.                                     *)
(*                                                                         *)
(* The byte at place n of a stream is the number n.  The cipher is         *)
(* abstracted to the place it is at: the k-th byte fed to an encryptor     *)
(* comes back only from the k-th use of the decryptor.                     *)
(***************************************************************************)
EXTENDS Naturals, Sequences

CONSTANTS
  FrameSizes,   (* sizes of the frames the actors send                     *)
  MaxSent,      (* bound: bytes encoded by the proxy                       *)
  MaxReceived   (* bound: bytes sent by the peer                           *)

ASSUME BoundAssumption ==
  FrameSizes \subseteq Nat \ {0} /\ MaxSent \in Nat /\ MaxReceived \in Nat

VARIABLES
  mode,       (* the variant of MCSocket: "Cleartext" or "Encrypted"       *)
  sending,    (* is a `send(..).await` of the actor in progress?           *)
  buffer,     (* Framed's write buffer                                     *)
  encoded,    (* bytes ever put in it                                      *)
  pending,    (* pending_bytes, <<>> for None                              *)
  fed,        (* bytes ever fed to the encryptor                           *)
  wire,       (* bytes taken by the transport, as they are on the wire     *)
  failed,     (* has a write failed?  A TCP write error is for good.       *)
  inbound,    (* bytes of the peer, not yet read                           *)
  peerSent,   (* bytes ever sent by the peer                               *)
  fedIn,      (* bytes ever fed to the decryptor                           *)
  filled,     (* everything poll_read has put in the buffers it was given  *)
  clearOut,   (* history: bytes on the wire when the socket was encrypted  *)
  clearIn     (* history: bytes read by then                               *)

writeVars == <<sending, buffer, encoded, pending, fed, wire, failed>>
readVars == <<inbound, peerSent, fedIn, filled>>
modeVars == <<mode, clearOut, clearIn>>
vars == <<writeVars, readVars, modeVars>>

Init ==
  /\ mode = "Cleartext" /\ clearOut = 0 /\ clearIn = 0
  /\ sending = FALSE /\ failed = FALSE
  /\ buffer = <<>> /\ pending = <<>> /\ wire = <<>>
  /\ encoded = 0 /\ fed = 0
  /\ inbound = <<>> /\ filled = <<>>
  /\ peerSent = 0 /\ fedIn = 0

(* A byte on the wire: at is its place in the cipher stream, 0 if clear.   *)
Clear(n) == [byte |-> n, at |-> 0]
Cipher(n, k) == [byte |-> n, at |-> k]
Garbage == 0
Decipher(c, k) == IF c.at = k THEN c.byte ELSE Garbage

Upto(n) == [i \in 1..n |-> i]
From(s, k) == SubSeq(s, k, Len(s))

-----------------------------------------------------------------------------
(* Writing. *)

(* `send`: the frame is encoded behind whatever the buffer still holds.    *)
StartSend(n) ==
  /\ ~sending
  /\ encoded + n <= MaxSent
  /\ sending' = TRUE
  /\ buffer' = buffer \o [i \in 1..n |-> encoded + i]
  /\ encoded' = encoded + n
  /\ UNCHANGED <<pending, fed, wire, failed, readVars, modeVars>>

(* What poll_write offers to the transport: the pending bytes, then the    *)
(* rest of the buffer encrypted behind them.  It computes the length of    *)
(* the rest as buf.len() - remaining.len(), unsigned.                      *)
NothingEncrypted == 0
AlreadyEncrypted == Len(pending)
Encrypted ==
  pending \o [i \in 1..Len(buffer) - AlreadyEncrypted |->
                Cipher(buffer[AlreadyEncrypted + i], fed + i)]
Offered == IF mode = "Encrypted" THEN Encrypted ELSE [i \in 1..Len(buffer) |-> Clear(buffer[i])]
FedAfter == IF mode = "Encrypted" THEN fed + Len(buffer) - AlreadyEncrypted ELSE fed

(* What poll_write keeps of `out` after the first `written` were taken.    *)
NothingRemains(out, written) == <<>>
Remaining(out, written) == IF mode = "Encrypted" THEN From(out, written + 1) ELSE <<>>

Polling == sending /\ buffer # <<>>

PollWritePending ==
  /\ Polling /\ ~failed
  /\ pending' = Remaining(Offered, 0)
  /\ fed' = FedAfter
  /\ UNCHANGED <<sending, buffer, encoded, wire, failed, readVars, modeVars>>

(* The count that poll_write returns for `written` bytes taken. *)
ClaimsAll(written) == Len(buffer)
Claimed(written) == written
PollWriteReady ==
  /\ Polling /\ ~failed
  /\ \E written \in 1..Len(Offered) :
       /\ wire' = wire \o SubSeq(Offered, 1, written)
       /\ pending' = Remaining(Offered, written)
       /\ buffer' = From(buffer, Claimed(written) + 1)
       /\ sending' = (Claimed(written) < Len(buffer))
  /\ fed' = FedAfter
  /\ UNCHANGED <<encoded, failed, readVars, modeVars>>

(* An error ends the send, whose result StreamActor ignores; the buffer    *)
(* stays as it is, pending_bytes was taken and is not put back.            *)
PollWriteError ==
  /\ Polling
  /\ failed' = TRUE
  /\ pending' = <<>>
  /\ fed' = FedAfter
  /\ sending' = FALSE
  /\ UNCHANGED <<buffer, encoded, wire, readVars, modeVars>>

-----------------------------------------------------------------------------
(* Reading. *)

PeerSend(n) ==
  /\ peerSent + n <= MaxReceived
  /\ inbound' = inbound \o [i \in 1..n |->
                  IF mode = "Encrypted" THEN Cipher(peerSent + i, peerSent + i - clearIn)
                  ELSE Clear(peerSent + i)]
  /\ peerSent' = peerSent + n
  /\ UNCHANGED <<fedIn, filled, writeVars, modeVars>>

(* The bytes of a ReadBuf after the transport filled in n more: those that *)
(* were there before are left alone.                                       *)
DecryptedFromStart(n) ==
  [i \in 1..Len(filled) |-> IF mode = "Encrypted" THEN Garbage ELSE filled[i]]
    \o [i \in 1..n |->
          IF mode = "Encrypted" THEN Decipher(inbound[i], fedIn + i) ELSE inbound[i].byte]
Decrypted(n) ==
  filled \o [i \in 1..n |->
               IF mode = "Encrypted" THEN Decipher(inbound[i], fedIn + i) ELSE inbound[i].byte]

PollReadReady ==
  \E n \in 1..Len(inbound) :
    /\ filled' = Decrypted(n)
    /\ fedIn' = IF mode = "Encrypted" THEN fedIn + n ELSE fedIn
    /\ inbound' = From(inbound, n + 1)
    /\ UNCHANGED <<peerSent, writeVars, modeVars>>

-----------------------------------------------------------------------------
(* MCSocket::encrypt, between the EncryptionResponse and LoginSuccess.     *)
(* A peer encrypts what it sends after that response, and waits for        *)
(* LoginSuccess: nothing is in flight.  login.rs makes a new Framed around *)
(* the socket, which drops what a failed send left in the write buffer.    *)
Encrypt ==
  /\ mode = "Cleartext" /\ ~sending /\ inbound = <<>>
  /\ mode' = "Encrypted"
  /\ clearOut' = Len(wire)
  /\ clearIn' = Len(filled)
  /\ buffer' = <<>>
  /\ UNCHANGED <<sending, encoded, pending, fed, wire, failed, readVars>>

Write == PollWriteReady \/ PollWriteError
Next ==
  \/ \E n \in FrameSizes : StartSend(n) \/ PeerSend(n)
  \/ Write \/ PollWritePending
  \/ PollReadReady
  \/ Encrypt

SafeSpec == Init /\ [][Next]_vars

(* A transport does not answer Pending forever.  What the actors send to a *)
(* connection, some hundred bytes, fits the send buffer of its socket even *)
(* when the peer reads nothing; and tokio wakes the task when there is     *)
(* room.  An actor that sends more needs a timer here: send has none.      *)
Spec == SafeSpec /\ WF_vars(Write) /\ WF_vars(PollReadReady)

-----------------------------------------------------------------------------
(* What the socket guarantees.                                             *)

Plain == 1..MaxSent
OnWire == [byte : 1..MaxSent \cup 1..MaxReceived, at : 0..MaxSent \cup 0..MaxReceived]

(* Types; pending_bytes is None in a clear socket. *)
TypeOK ==
  /\ mode \in {"Cleartext", "Encrypted"} /\ sending \in BOOLEAN /\ failed \in BOOLEAN
  /\ buffer \in Seq(Plain) /\ encoded \in 0..MaxSent /\ fed \in Nat
  /\ pending \in Seq(OnWire) /\ wire \in Seq(OnWire)
  /\ inbound \in Seq(OnWire) /\ peerSent \in 0..MaxReceived /\ fedIn \in 0..MaxReceived
  /\ filled \in Seq(0..MaxReceived)
  /\ clearOut \in 0..MaxSent /\ clearIn \in 0..MaxReceived

(* `buf.len() - len` does not underflow, nor `buf[already_encrypted..]`    *)
(* panic: the caller's buffer always still holds the bytes pending.        *)
PendingIsInBuffer == Len(pending) <= Len(buffer)

(* Every byte reaches the wire once, in order and encrypted at its place,  *)
(* however the writes were split, retried or refused: a peer that decrypts *)
(* from the switch on reads what the actors sent.                          *)
Sealed(n) == IF mode = "Encrypted" /\ n > clearOut THEN Cipher(n, n - clearOut) ELSE Clear(n)
WireIsTheStream == wire = [n \in 1..Len(wire) |-> Sealed(n)]

(* What is read is what the peer sent, each byte decrypted once, however   *)
(* the reads were split and whatever the buffer held before.               *)
ReadIsTheStream == filled = Upto(Len(filled)) /\ Len(filled) + Len(inbound) = peerSent

Made(n) == IF mode = "Encrypted" /\ n > clearOut
           THEN Decipher(wire[n], n - clearOut) ELSE wire[n].byte
Pipe == INSTANCE BytePipe WITH
  Byte <- Plain, offered <- Upto(encoded),
  delivered <- [n \in 1..Len(wire) |-> Made(n)], broken <- failed
(* Encryption is transparent: the socket is a pipe of plain bytes. *)
ImplementsPipe == Pipe!Spec
=============================================================================
