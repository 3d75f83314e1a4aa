------------------------------ MODULE MCCodec ------------------------------
(***************************************************************************)
(* The decoder of a connection (proxy/src/client_actor/net.rs), under the  *)
(* Framed that calls it.  A frame is a VarInt, the length of its body, and *)
(* the body: the packet's id, a VarInt again, and its payload.  The bytes  *)
(* come in whatever pieces the transport delivers.  The decoder remembers  *)
(* between two calls whether it has taken a length off the buffer and      *)
(* which one.                                                              *)
(*                                                                         *)
(* A byte is what a VarInt makes of it: a continuation bit and a digit.    *)
(* The digits are below Base, 128 in the code.                             *)
(*                                                                         *)
(* Operators that only PROJECT.json's mutants name (SizeAfterId, ...)      *)
(* are slips the code could have made.                                     *)
(***************************************************************************)
EXTENDS Integers, SequencesExt

CONSTANTS
  Base,       (* digits of a VarInt: 128                                   *)
  VarIntMax,  (* bytes of the longest VarInt: 5                            *)
  Wrap,       (* values of its integer type: 2^32, half of them negative   *)
  Body,       (* bodies of the frames that the peer may send               *)
  MaxFrames,  (* bound: frames sent by the peer                            *)
  MaxStray    (* bound: bytes sent by the peer that are no part of a frame *)

Byte == [more : BOOLEAN, digit : 0..Base - 1]

ASSUME VarIntAssumption ==
  /\ Base \in Nat \ {0, 1} /\ VarIntMax \in Nat \ {0} /\ Wrap \in Nat \ {0}
ASSUME BoundAssumption == MaxFrames \in Nat /\ MaxStray \in Nat

VARIABLES
  sent,     (* history: bodies of the frames sent by the peer               *)
  stray,    (* bytes sent by the peer outside of frames                    *)
  wire,     (* bytes not yet read from the socket                          *)
  buf,      (* the read buffer of Framed: `src`                            *)
  state,    (* the DecodeState                                             *)
  turn,     (* who is to go on: "actor" between two reads, "decoder" while *)
            (* Framed has bytes to decode, "socket" while it needs more    *)
  status,   (* "open", "errored" or "panicked"                             *)
  frames,   (* the RawPackets handed to the actor                          *)
  cut       (* history: has a change of framer dropped bytes?              *)

vars == <<sent, stray, wire, buf, state, turn, status, frames, cut>>

RawPacket == [id : Int, payload : Seq(Byte)]
LenState == [tag |-> "Len"]
Data(n) == [tag |-> "Data", n |-> n]

Init ==
  /\ sent = <<>> /\ stray = 0 /\ wire = <<>>
  /\ buf = <<>> /\ state = LenState
  /\ turn = "actor" /\ status = "open"
  /\ frames = <<>> /\ cut = FALSE

-----------------------------------------------------------------------------
(* VarInts. *)

VarInt[n \in Nat] ==
  IF n < Base THEN <<[more |-> FALSE, digit |-> n]>>
  ELSE <<[more |-> TRUE, digit |-> n % Base]>> \o VarInt[n \div Base]

(* The least significant digit comes first: the i-th after it counts       *)
(* Weight[i] times as much.                                                *)
Weight[i \in Nat] == IF i = 0 THEN 1 ELSE Base * Weight[i - 1]

Signed(u) == IF u % Wrap < Wrap \div 2 THEN u % Wrap ELSE (u % Wrap) - Wrap
Digits(s) ==
  LET sum[i \in 0..Len(s)] == IF i = 0 THEN 0 ELSE sum[i - 1] + s[i].digit * Weight[i - 1]
  IN  sum[Len(s)]
Value(s) == Signed(Digits(s))

(* Read from the front of s: "ok", or an early end of s, or no VarInt.     *)
EndsAt(s, i) == i <= Len(s) /\ ~s[i].more /\ \A j \in 1..i - 1 : s[j].more
ReadVarInt(s) ==
  IF \E i \in 1..VarIntMax : EndsAt(s, i)
  THEN LET len == CHOOSE i \in 1..VarIntMax : EndsAt(s, i)
       IN  [is |-> "ok", len |-> len, val |-> Value(SubSeq(s, 1, len))]
  ELSE [is |-> IF Len(s) < VarIntMax THEN "short" ELSE "invalid"]

Frame(body) ==
  LET id == ReadVarInt(body)
  IN  [id |-> id.val, payload |-> SubSeq(body, id.len + 1, Len(body))]

Encode(body) == VarInt[Len(body)] \o body

(* The longest VarInt has room for every value of its integer type.        *)
ASSUME RoomAssumption == Wrap <= Weight[VarIntMax]

(* The peer sends the bodies of packets, an id and a payload, whose        *)
(* lengths are no negative integers.                                       *)
ASSUME BodyAssumption ==
  \A b \in Body : b \in Seq(Byte) /\ ReadVarInt(b).is = "ok" /\ Len(b) < Wrap \div 2

-----------------------------------------------------------------------------
(* `decode`: the head, unless an earlier call has taken it off, and then   *)
(* the body behind it.                                                     *)

After(n, s) == SubSeq(s, n + 1, Len(s))

Decoding == status = "open" /\ turn = "decoder"

(* Ok(None): Framed goes and reads the socket.                             *)
AwaitMore == turn' = "socket" /\ UNCHANGED <<buf, state, status, frames>>
(* Err, or a panic: the actor shuts down, or its task is gone.             *)
Fail(how) == status' = how /\ UNCHANGED <<buf, state, turn, frames>>

(* decode_head.  The length is cast to usize and reserved: that of a       *)
(* negative one panics with a capacity overflow.                           *)
HeadTaken(n) ==
  /\ buf' = After(n.len, buf)
  /\ state' = Data(n.val)
  /\ UNCHANGED <<turn, status, frames>>

EarlyIfEmpty(n) == buf = <<>>
Early(n) == n.is = "short"
EveryLength(n) == TRUE
Reservable(n) == n.val \in Nat
DecodeHead ==
  /\ Decoding /\ state = LenState
  /\ \E n \in {ReadVarInt(buf)} :
       \/ Early(n) /\ AwaitMore
       \/ ~Early(n) /\ n.is # "ok" /\ Fail("errored")
       \/ n.is = "ok" /\ ~Reservable(n) /\ Fail("panicked")
       \/ n.is = "ok" /\ Reservable(n) /\ HeadTaken(n)
  /\ UNCHANGED <<sent, stray, wire, cut>>

(* decode_body.  The id is read off whatever the buffer holds, the body or *)
(* beyond it; then `n - id.len` underflows if the body was too short, and  *)
(* split_to panics if it asks for more than there is.                      *)
PacketTaken(id, size) ==
  /\ frames' = Append(frames, [id |-> id.val, payload |-> SubSeq(buf, id.len + 1, size)])
  /\ buf' = After(size, buf)
  /\ state' = LenState
  /\ turn' = "actor"
  /\ UNCHANGED status

BodyLonger(n) == Len(buf) > n
BodyThere(n) == Len(buf) >= n
SizeAfterId(n, id) == n + id.len
BodySize(n, id) == n
DecodeBody ==
  /\ Decoding /\ state # LenState
  /\ \/ ~BodyThere(state.n) /\ AwaitMore
     \/ /\ BodyThere(state.n)
        /\ \E id \in {ReadVarInt(buf)} :
             \/ id.is # "ok" /\ Fail("errored")
             \/ id.is = "ok" /\ BodySize(state.n, id) \notin id.len..Len(buf) /\ Fail("panicked")
             \/ id.is = "ok" /\ BodySize(state.n, id) \in id.len..Len(buf)
                  /\ PacketTaken(id, BodySize(state.n, id))
  /\ UNCHANGED <<sent, stray, wire, cut>>

Decode == DecodeHead \/ DecodeBody

-----------------------------------------------------------------------------
(* Framed, the actor and the peer. *)

(* The next read of the actor: what is buffered is decoded first. *)
NextFrame ==
  /\ status = "open" /\ turn = "actor"
  /\ turn' = "decoder"
  /\ UNCHANGED <<sent, stray, wire, buf, state, status, frames, cut>>

(* A read of the socket brings some bytes, one or all. *)
Fill ==
  /\ status = "open" /\ turn = "socket"
  /\ \E k \in 1..Len(wire) :
       /\ buf' = buf \o SubSeq(wire, 1, k)
       /\ wire' = After(k, wire)
  /\ turn' = "decoder"
  /\ UNCHANGED <<sent, stray, state, status, frames, cut>>

(* login.rs makes a new Framed around the socket and the same codec: the   *)
(* state goes with it, the buffer does not.                                *)
Rebuild ==
  /\ status = "open" /\ turn = "actor" /\ frames # <<>>
  /\ cut' = (cut \/ buf # <<>>)
  /\ buf' = <<>>
  /\ turn' = "decoder"
  /\ UNCHANGED <<sent, stray, wire, state, status, frames>>

PeerSend(body) ==
  /\ Len(sent) < MaxFrames /\ stray = 0
  /\ sent' = Append(sent, body)
  /\ wire' = wire \o Encode(body)
  /\ UNCHANGED <<stray, buf, state, turn, status, frames, cut>>

PeerStray(byte) ==
  /\ stray < MaxStray
  /\ stray' = stray + 1
  /\ wire' = Append(wire, byte)
  /\ UNCHANGED <<sent, buf, state, turn, status, frames, cut>>

Framed == NextFrame \/ Fill

Next ==
  \/ Decode \/ Framed \/ Rebuild
  \/ \E body \in Body : PeerSend(body)
  \/ \E byte \in Byte : PeerStray(byte)

SafeSpec == Init /\ [][Next]_vars

(* tokio polls a task whose socket has bytes; the actor keeps reading.     *)
Spec == SafeSpec /\ WF_vars(Decode \/ Framed)

-----------------------------------------------------------------------------
(* What the decoder guarantees. *)

(* Types of the decoder's state: a length it keeps is never negative. *)
TypeOK ==
  /\ stray \in 0..MaxStray /\ cut \in BOOLEAN
  /\ wire \in Seq(Byte) /\ buf \in Seq(Byte)
  /\ state \in {LenState} \cup [tag : {"Data"}, n : Nat]
  /\ turn \in {"actor", "decoder", "socket"}
  /\ status \in {"open", "errored", "panicked"}
  /\ Len(sent) <= MaxFrames
  /\ frames \in Seq(RawPacket)

(* However the bytes are cut into reads, and whatever follows them, the    *)
(* frames come out as they were sent, until a change of framer drops some; *)
(* and none is held back: when the decoder waits for bytes and there are   *)
(* none, it has handed all of them out.                                    *)
Sound == ~cut
SentFrames == [i \in DOMAIN sent |-> Frame(sent[i])]
FramesAreTheStream ==
  Sound => /\ stray = 0 => IsPrefix(frames, SentFrames)
           /\ IsPrefix(frames, SentFrames) \/ IsPrefix(SentFrames, frames)
           /\ turn = "socket" /\ wire = <<>> => Len(frames) >= Len(sent)

(* A stream of frames is never an error nor a panic, neither its lengths   *)
(* nor its ids, not even when a piece of it ends in the middle of either.  *)
FramesNeverFail == Sound /\ stray = 0 => status = "open"

(* Every frame sent is handed to an actor that keeps reading. *)
EveryFrameArrives ==
  \A k \in 1..MaxFrames : Len(sent) = k ~> (Len(frames) >= k \/ ~Sound)
=============================================================================
