---------------------------- MODULE ClientActors ----------------------------
(***************************************************************************)
(* The client side of the proxy (proxy/src/client_actor/): one tokio task  *)
(* per connection, which is in turn a HandshakeActor, then a StatusActor   *)
(* or a LoginActor, then a ConfigurationActor.  Every actor is a straight  *)
(* line of awaits: read the next frame (StreamActor::read, with its 5 s    *)
(* timer), ask the server actor, await the answer, send a packet.  One     *)
(* action per stretch between two awaits; stage names the await a task is  *)
(* suspended at.                                                           *)
(*                                                                         *)
(* The server actor is the instance SA: an ask of a client is SA's Ask,    *)
(* conjoined with the step of the task that makes it.                      *)
(*                                                                         *)
(* Operators that only PROJECT.json's mutants name (FreshFramer, ...) are   *)
(* slips the code could have made.                                         *)
(*                                                                         *)
(* Frames are whole packets.  A frame is in `wire` once the peer sent it,  *)
(* in `buf` once Framed has moved it, with others, to its read buffer.     *)
(* What is sent is in `out` once the framer has it: what becomes of the    *)
(* bytes on a failing socket, whose error send ignores, is MCSocket's.     *)
(***************************************************************************)
EXTENDS Naturals, Sequences, SequencesExt

CONSTANTS
  Conn,        (* connections the listener may accept                      *)
  Token,       (* per connection, the verify token rand::random() gives it *)
  WrongToken,  (* a token no connection was given                          *)
  Capacity,    (* capacity of the server actor's channel                   *)
  Version,     (* configuration versions the callback may post             *)
  Script,      (* packet sequences a peer may send, each up to any point   *)
  Orderly,     (* connections whose peers await LoginSuccess before they   *)
               (* acknowledge it                                           *)
  MayNotWrite, (* BOOLEAN: a packet may fail to serialise                  *)
  Timers,      (* BOOLEAN: reads may fail for want of a frame              *)
  MayShutdown  (* BOOLEAN: someone may send Shutdown to the server actor   *)

ASSUME TokenAssumption ==
  /\ Token \in [Conn -> Nat \ {0}]
  /\ WrongToken \in Nat \ {0} /\ \A c \in Conn : Token[c] # WrongToken
ASSUME CapacityAssumption == Capacity \in Nat \ {0}
ASSUME VersionAssumption == Version \subseteq Nat
ASSUME EnvironmentAssumption ==
  /\ Orderly \subseteq Conn
  /\ MayNotWrite \in BOOLEAN /\ Timers \in BOOLEAN /\ MayShutdown \in BOOLEAN

VARIABLES
  mailbox, rx, listing, listener, reply, answer, posted, askedAt,  (* SA's *)
  stage,      (* the await the task of a connection is suspended at        *)
  encrypted,  (* is the connection's MCSocket in its Encrypted variant?    *)
  script,     (* packets the peer has yet to send                          *)
  wire,       (* packets sent by the peer, not yet read from the socket    *)
  buf,        (* packets in the read buffer of Framed                      *)
  resp,       (* the EncryptionResponse being handled                      *)
  out,        (* packets sent to the peer, each with its cipher state      *)
  unwritten,  (* history: packets that failed to serialise                 *)
  cut         (* history: stages begun with the loss of a read buffer that *)
              (* held frames                                               *)

serverVars == <<mailbox, rx, listing, listener, reply, answer, posted, askedAt>>
peerVars == <<script, wire, buf, cut>>
sentVars == <<out, unwritten>>
connVars == <<stage, encrypted, peerVars, resp, sentVars>>
vars == <<serverVars, connVars>>

(***************************************************************************)
(* Requests.  A connection asks each of these at most once.                *)
(***************************************************************************)
Question == {"status", "der", "token", "secret"}
Request == Conn \X Question
Kind == [r \in Request |-> CASE r[2] = "status" -> "GetStatus"
                             [] r[2] = "der"    -> "CertificatePublicDer"
                             [] OTHER           -> "Decrypt"]

(***************************************************************************)
(* EncryptionResponse packets, by what their two fields decrypt to; 0 is a *)
(* field that does not decrypt.  Of the shared secret only the length      *)
(* matters: the code takes its first KeyLen bytes.                         *)
(***************************************************************************)
KeyLen == 16
EncryptionResponse ==
  {"EncGood", "EncLong", "EncShort", "EncNoSecret", "EncNoToken", "EncWrong"}
TokenIn(c, p) ==
  CASE p = "EncNoToken" -> 0 [] p = "EncWrong" -> WrongToken [] OTHER -> Token[c]
SecretIn(p) ==
  CASE p = "EncLong" -> KeyLen + 1 [] p = "EncShort" -> KeyLen - 1
    [] p = "EncNoSecret" -> 0      [] OTHER -> KeyLen
Payload == {Token[c] : c \in Conn}
             \cup {0, WrongToken, KeyLen - 1, KeyLen, KeyLen + 1}

SA == INSTANCE ServerActor

(***************************************************************************)
(* What `read::<P>` accepts at each read: the packet's id is P's and its   *)
(* payload parses as P.  `read_empty` looks at the id alone, and 0 is also *)
(* the id of a handshake and of LoginStart.                                *)
(***************************************************************************)
Handshake == {"HandshakeStatus", "HandshakeLogin", "HandshakeOther"}
Accepted ==
  [handshake  |-> Handshake,
   status     |-> {"StatusRequest", "LoginStart"} \cup Handshake,
   ping       |-> {"Ping"},
   login      |-> {"LoginStart"},
   encryption |-> EncryptionResponse,
   ack        |-> {"LoginAcknowledged"}]
ReadStage == DOMAIN Accepted
AskStage == {"askStatus", "askDer", "askToken", "askSecret"}
AwaitStage == {"statusReply", "awaitDer", "awaitToken", "awaitSecret"}
EndStage == {"closed", "panicked"}
Packet == UNION {Accepted[s] : s \in ReadStage} \cup {"Junk"}
ClientPacket == {"StatusResponse", "PingResponse", "EncryptionRequest", "LoginSuccess"}

ASSUME ScriptAssumption == Script \subseteq Seq(Packet)

Init ==
  /\ SA!Init
  /\ stage = [c \in Conn |-> "idle"]
  /\ encrypted = [c \in Conn |-> FALSE]
  /\ script = [c \in Conn |-> <<>>]
  /\ wire = [c \in Conn |-> <<>>]
  /\ buf = [c \in Conn |-> <<>>]
  /\ resp = [c \in Conn |-> "none"]
  /\ out = [c \in Conn |-> <<>>]
  /\ unwritten = [c \in Conn |-> {}]
  /\ cut = [c \in Conn |-> {}]

-----------------------------------------------------------------------------
(* The outside: main.rs, the listener, the peers. *)

StartServer ==
  /\ ~listener /\ SA!StartMsg \notin SA!Queued
  /\ SA!SendControl(SA!StartMsg)
  /\ UNCHANGED connVars

ShutdownServer ==
  /\ MayShutdown /\ SA!ShutdownMsg \notin SA!Queued
  /\ SA!SendControl(SA!ShutdownMsg)
  /\ UNCHANGED connVars

UpdateConfig(v) == SA!PostUpdate(v) /\ UNCHANGED connVars

ServerStep == SA!Run /\ UNCHANGED connVars

(* run_listener accepts: HandshakeHandler::spawn.  Neither a Shutdown nor  *)
(* the end of the server actor stops the listener.                         *)
Accept(c) ==
  /\ listener
  /\ stage[c] = "idle"
  /\ stage' = [stage EXCEPT ![c] = "handshake"]
  /\ \E s \in Script : script' = [script EXCEPT ![c] = s]
  /\ UNCHANGED <<serverVars, encrypted, wire, buf, cut, resp, sentVars>>

Sent(c, p) == \E i \in DOMAIN out[c] : out[c][i].packet = p

(* A peer needs the proxy's key and token to make an EncryptionResponse,   *)
(* and encrypts what it sends after that.  Whatever else it knows before   *)
(* it is answered it may send ahead; only an orderly one waits for         *)
(* LoginSuccess, as the protocol has it, before it acknowledges it.        *)
PeerSend(c) ==
  /\ script[c] # <<>>
  /\ Head(script[c]) \in EncryptionResponse => Sent(c, "EncryptionRequest")
  /\ c \in Orderly /\ Head(script[c]) = "LoginAcknowledged" => Sent(c, "LoginSuccess")
  /\ script' = [script EXCEPT ![c] = Tail(@)]
  /\ wire' = [wire EXCEPT ![c] = Append(@, Head(script[c]))]
  /\ UNCHANGED <<serverVars, stage, encrypted, buf, cut, resp, sentVars>>

-----------------------------------------------------------------------------
(* What every task does between two awaits. *)

Go(c, s) == stage' = [stage EXCEPT ![c] = s]

(* `send`, whose result is `written`: a packet that does not serialise is  *)
(* not sent.                                                               *)
Send(c, p, cipher, written) ==
  \/ /\ written
     /\ out' = [out EXCEPT ![c] = Append(@, [packet |-> p, encrypted |-> cipher])]
     /\ UNCHANGED unwritten
  \/ /\ MayNotWrite /\ ~written
     /\ unwritten' = [unwritten EXCEPT ![c] = @ \cup {p}]
     /\ UNCHANGED out

(* The task ends, and its socket and buffers with it ... *)
Drop(c, s) ==
  /\ Go(c, s)
  /\ script' = [script EXCEPT ![c] = <<>>]
  /\ wire' = [wire EXCEPT ![c] = <<>>]
  /\ buf' = [buf EXCEPT ![c] = <<>>]
  /\ resp' = [resp EXCEPT ![c] = "none"]
  /\ UNCHANGED cut

(* ... and the oneshot receivers it holds.  Those of a login handler that  *)
(* gives up go with its frame, one await before the task does: nobody can  *)
(* tell, since the actor ignores whether its answer was taken.             *)
Finish(c, s) == Drop(c, s) /\ SA!DropReceivers({c} \X Question)

(* Framed yields a frame of its read buffer; only when that has none does  *)
(* it read the socket, and then as much as happens to be there.            *)
Buffers(c) ==
  IF buf[c] # <<>> THEN {[buf |-> buf[c], wire |-> wire[c]]}
  ELSE {[buf |-> SubSeq(wire[c], 1, k), wire |-> SubSeq(wire[c], k + 1, Len(wire[c]))] :
          k \in 1..Len(wire[c])}

(* What the next read finds of the frames behind the one just read: all of *)
(* them for an actor that is handed the framer itself; none of them once   *)
(* Framed::into_parts was called and its read_buf ignored, as login.rs     *)
(* does.                                                                   *)
FreshFramer(rest) == <<>>
SameFramer(rest) == rest
IntoParts(rest) == <<>>
CutAt(c, s, rest) == cut' = [cut EXCEPT ![c] = IF rest = <<>> THEN @ ELSE @ \cup {s}]

(* A frame of P is read at stage `at`. *)
Ready(c, P) == {b \in Buffers(c) : Head(b.buf) \in P}
Take(c, b, rest) ==
  /\ buf' = [buf EXCEPT ![c] = rest]
  /\ wire' = [wire EXCEPT ![c] = b.wire]
  /\ UNCHANGED script
Read(c, at, P) ==
  /\ stage[c] = at
  /\ \E b \in Ready(c, P) : Take(c, b, SameFramer(Tail(b.buf)))
  /\ UNCHANGED cut

(* The read yields None: the 5 s timer fired (it is polled first, so even  *)
(* when a frame is ready), the stream failed or ended, or the next frame   *)
(* is not the packet expected.                                             *)
ReadFails(c) ==
  /\ stage[c] \in ReadStage
  /\ \/ Timers
     \/ \E b \in Buffers(c) : Head(b.buf) \notin Accepted[stage[c]]
  /\ Go(c, "shutdown")
  /\ UNCHANGED <<serverVars, encrypted, peerVars, resp, sentVars>>

(* `ask(..).await`, suspended while the channel is full. *)
AskServer(c, q, d) ==
  SA!Ask(<<c, q>>, d) /\ UNCHANGED <<encrypted, peerVars, sentVars>>
AskFails(c, q) ==
  /\ SA!Refuse(<<c, q>>)
  /\ Go(c, "shutdown")
  /\ UNCHANGED <<encrypted, peerVars, resp, sentVars>>

(* `self.shutdown().await`, the last thing an actor does. *)
Shutdown(c) ==
  /\ stage[c] = "shutdown"
  /\ Finish(c, "closed")
  /\ UNCHANGED <<encrypted, sentVars>>

Answered(c, q) == reply[<<c, q>>] = "answered"
Closed(c, q) == reply[<<c, q>>] = "closed"

-----------------------------------------------------------------------------
(* HandshakeActor (handshake.rs) *)

ReadHandshake(c) ==
  /\ \/ Read(c, "handshake", {"HandshakeStatus"}) /\ Go(c, "askStatus")
     \/ Read(c, "handshake", {"HandshakeOther"}) /\ Go(c, "shutdown")
     \/ /\ stage[c] = "handshake"
        /\ \E b \in Ready(c, {"HandshakeLogin"}) :
             Take(c, b, IntoParts(Tail(b.buf))) /\ CutAt(c, "login", Tail(b.buf))
        /\ Go(c, "login")
  /\ UNCHANGED <<serverVars, encrypted, resp, sentVars>>

(* StatusActor (status.rs).  The status is asked for when the handshake    *)
(* ends; the answer is awaited only once the peer has requested it.  When  *)
(* the server actor is gone no StatusActor is spawned: that is the end.    *)

AskStatus(c) ==
  /\ stage[c] = "askStatus"
  /\ \/ AskServer(c, "status", 0) /\ Go(c, "status") /\ UNCHANGED resp
     \/ /\ SA!Refuse(<<c, "status">>)
        /\ Drop(c, "closed")
        /\ UNCHANGED <<encrypted, sentVars>>

ReadStatusRequest(c) ==
  /\ Read(c, "status", Accepted["status"])
  /\ Go(c, "statusReply")
  /\ UNCHANGED <<serverVars, encrypted, resp, sentVars>>

(* `run` ignores the result: without a status, because it was not answered *)
(* or was not written, the ping is still served.                           *)
StatusReply(c) ==
  /\ stage[c] = "statusReply"
  /\ \/ /\ Answered(c, "status")
        /\ \E written \in BOOLEAN : Send(c, "StatusResponse", encrypted[c], written)
     \/ Closed(c, "status") /\ UNCHANGED sentVars
  /\ Go(c, "ping")
  /\ UNCHANGED <<serverVars, encrypted, peerVars, resp>>

ReadPing(c) ==
  /\ Read(c, "ping", {"Ping"})
  /\ \E written \in BOOLEAN : Send(c, "PingResponse", encrypted[c], written)
  /\ Go(c, "shutdown")
  /\ UNCHANGED <<serverVars, encrypted, resp>>

-----------------------------------------------------------------------------
(* LoginActor (login.rs) and ConfigurationActor (configuration.rs) *)

ReadLoginStart(c) ==
  /\ Read(c, "login", {"LoginStart"})
  /\ Go(c, "askDer")
  /\ UNCHANGED <<serverVars, encrypted, resp, sentVars>>

AskDer(c) ==
  /\ stage[c] = "askDer"
  /\ \/ AskServer(c, "der", 0) /\ Go(c, "awaitDer") /\ UNCHANGED resp
     \/ AskFails(c, "der")

DerReply(c) ==
  /\ stage[c] = "awaitDer"
  /\ \/ /\ Answered(c, "der")
        /\ \E written \in BOOLEAN :
             /\ Send(c, "EncryptionRequest", encrypted[c], written)
             /\ Go(c, IF written THEN "encryption" ELSE "shutdown")
     \/ Closed(c, "der") /\ Go(c, "shutdown") /\ UNCHANGED sentVars
  /\ UNCHANGED <<serverVars, encrypted, peerVars, resp>>

ReadEncryptionResponse(c) ==
  /\ \E p \in EncryptionResponse :
       Read(c, "encryption", {p}) /\ resp' = [resp EXCEPT ![c] = p]
  /\ Go(c, "askToken")
  /\ UNCHANGED <<serverVars, encrypted, sentVars>>

(* Both fields are sent to be decrypted before either answer is awaited.   *)
AskToken(c) ==
  /\ stage[c] = "askToken"
  /\ \/ AskServer(c, "token", TokenIn(c, resp[c])) /\ Go(c, "askSecret") /\ UNCHANGED resp
     \/ AskFails(c, "token")

AskSecret(c) ==
  /\ stage[c] = "askSecret"
  /\ \/ /\ AskServer(c, "secret", SecretIn(resp[c]))
        /\ Go(c, "awaitToken")
        /\ resp' = [resp EXCEPT ![c] = "none"]
     \/ AskFails(c, "secret")

TokenMatches(c) == answer[<<c, "token">>] = Token[c]

TokenReply(c) ==
  /\ stage[c] = "awaitToken"
  /\ \/ Answered(c, "token") /\ TokenMatches(c) /\ Go(c, "awaitSecret")
     \/ Answered(c, "token") /\ ~TokenMatches(c) /\ Go(c, "shutdown")
     \/ Closed(c, "token") /\ Go(c, "shutdown")
  /\ UNCHANGED <<serverVars, encrypted, peerVars, resp, sentVars>>

(* `&shared_secret[..16]` of a shorter secret panics, which ends the task. *)
LongerThanKey(c) == answer[<<c, "secret">>] > KeyLen
LongEnough(c) == answer[<<c, "secret">>] >= KeyLen

(* The MCSocket turns Encrypted, in a new framer; LoginSuccess is sent,    *)
(* and awaited to be acknowledged whether it was written or not.  Neither  *)
(* error of `encrypt` can occur: the key has its length and the socket was *)
(* clear.                                                                  *)
SecretReply(c) ==
  /\ stage[c] = "awaitSecret"
  /\ Answered(c, "secret") /\ LongEnough(c)
  /\ encrypted' = [encrypted EXCEPT ![c] = TRUE]
  /\ \E written \in BOOLEAN : Send(c, "LoginSuccess", encrypted'[c], written)
  /\ buf' = [buf EXCEPT ![c] = IntoParts(@)]
  /\ CutAt(c, "ack", buf[c])
  /\ Go(c, "ack")
  /\ UNCHANGED <<serverVars, script, wire, resp>>

SecretFails(c) ==
  /\ stage[c] = "awaitSecret"
  /\ \/ Answered(c, "secret") /\ ~LongEnough(c) /\ Finish(c, "panicked")
     \/ Closed(c, "secret") /\ Go(c, "shutdown") /\ UNCHANGED <<serverVars, peerVars, resp>>
  /\ UNCHANGED <<encrypted, sentVars>>

(* ConfigurationActor takes over, and does nothing yet but shut down.      *)
ReadAck(c) ==
  /\ Read(c, "ack", {"LoginAcknowledged"})
  /\ Go(c, "configuration")
  /\ UNCHANGED <<serverVars, encrypted, resp, sentVars>>

Configure(c) ==
  /\ stage[c] = "configuration"
  /\ Go(c, "shutdown")
  /\ UNCHANGED <<serverVars, encrypted, peerVars, resp, sentVars>>

Task(c) ==
  \/ ReadHandshake(c) \/ ReadFails(c) \/ Shutdown(c)
  \/ AskStatus(c) \/ ReadStatusRequest(c) \/ StatusReply(c) \/ ReadPing(c)
  \/ ReadLoginStart(c) \/ AskDer(c) \/ DerReply(c) \/ ReadEncryptionResponse(c)
  \/ AskToken(c) \/ AskSecret(c) \/ TokenReply(c) \/ SecretReply(c) \/ SecretFails(c)
  \/ ReadAck(c) \/ Configure(c)

Outside ==
  \/ StartServer \/ ShutdownServer
  \/ \E v \in Version : UpdateConfig(v)
  \/ \E c \in Conn : Accept(c) \/ PeerSend(c)

Next == ServerStep \/ Outside \/ \E c \in Conn : Task(c)

SafeSpec == Init /\ [][Next]_vars

(* tokio polls every task that can go on, the timer included; asks are     *)
(* finitely many, so a full channel drains for good and weak fairness is   *)
(* enough for the one that waits for room.                                 *)
Fairness ==
  /\ WF_vars(ServerStep)
  /\ \A c \in Conn : WF_vars(Task(c))

Spec == SafeSpec /\ Fairness

(* As Spec, for peers that do send all of their packets.                   *)
DiligentSpec == Spec /\ \A c \in Conn : WF_vars(PeerSend(c))

-----------------------------------------------------------------------------
(* What the connections guarantee. *)

(* The two dialogues.                                                      *)
Clear(p) == [packet |-> p, encrypted |-> FALSE]
StatusDialogue == <<Clear("StatusResponse"), Clear("PingResponse")>>
LoginDialogue ==
  <<Clear("EncryptionRequest"), [packet |-> "LoginSuccess", encrypted |-> TRUE]>>

(* Types of the connections and of the server actor.                       *)
TypeOK ==
  /\ SA!TypeOK
  /\ stage \in [Conn -> ReadStage \cup AskStage \cup AwaitStage \cup EndStage
                         \cup {"idle", "configuration", "shutdown"}]
  /\ encrypted \in [Conn -> BOOLEAN]
  /\ script \in [Conn -> Seq(Packet)]
  /\ wire \in [Conn -> Seq(Packet)]
  /\ buf \in [Conn -> Seq(Packet)]
  /\ resp \in [Conn -> EncryptionResponse \cup {"none"}]
  /\ \A c \in Conn : \A i \in DOMAIN out[c] : out[c][i].encrypted \in BOOLEAN
  /\ unwritten \in [Conn -> SUBSET ClientPacket]
  /\ cut \in [Conn -> SUBSET {"login", "ack"}]

(* What is sent to a peer is a prefix of a whole dialogue.  StatusActor::run *)
(* serves the ping whatever became of the status, so a status that does    *)
(* not serialise is followed by a pong alone; that is the only way to it:  *)
(* a server actor that shuts down between the question and its answer must *)
(* not make it so.  And nothing but LoginSuccess is ever sent encrypted,   *)
(* nor LoginSuccess in the clear.                                          *)
StatusHeard(c) ==
  IF "StatusResponse" \in unwritten[c] THEN <<Clear("PingResponse")>> ELSE StatusDialogue
DialoguesAreWhole ==
  \A c \in Conn :
    IsPrefix(out[c], StatusHeard(c)) \/ IsPrefix(out[c], LoginDialogue)

(* A connection turns encrypted only with its own verify token proved and  *)
(* with a secret of KeyLen bytes or more in hand, although the two answers *)
(* come through one queue shared with every other connection and two       *)
(* Decrypt requests of a connection are outstanding at once.               *)
EncryptedOnlyAfterProof ==
  \A c \in Conn : encrypted[c] =>
    /\ Answered(c, "token") /\ answer[<<c, "token">>] = Token[c]
    /\ Answered(c, "secret") /\ answer[<<c, "secret">>] \in {KeyLen, KeyLen + 1}

(* No task is left awaiting a receiver that can never resolve: what an     *)
(* un-timed await waits for is answered, closed, or in the queue.          *)
Awaited(c) ==
  CASE stage[c] = "statusReply" -> "status" [] stage[c] = "awaitDer" -> "der"
    [] stage[c] = "awaitToken" -> "token"   [] stage[c] = "awaitSecret" -> "secret"
AwaitsResolve ==
  \A c \in Conn : stage[c] \in AwaitStage =>
    \/ Answered(c, Awaited(c)) \/ Closed(c, Awaited(c))
    \/ \E m \in SA!Queued : SA!IsAsk(m) /\ m.reply_to = <<c, Awaited(c)>>

(* Every accepted connection comes to an end, whatever its peer sends or   *)
(* fails to send, with the server actor shutting down or not.              *)
EveryConnectionEnds ==
  \A c \in Conn : stage[c] = "handshake" ~> stage[c] \in EndStage

(* A peer that sends a good status sequence gets its two packets, however  *)
(* much of it it sends ahead, if they can be written.                      *)
GoodStatus == <<"HandshakeStatus", "StatusRequest", "Ping">>
StatusIsServed ==
  \A c \in Conn : stage[c] = "handshake" /\ script[c] = GoodStatus ~>
                     out[c] = StatusDialogue

(* A good login reaches the configuration state, whatever the others do    *)
(* meanwhile, for a peer that sends ahead all it can before it is answered *)
(* (only the acknowledgement waits): unless its LoginStart, come with the  *)
(* handshake, was lost with the framer it was read through (login.rs:26).  *)
(* The second change of framer, at encryption (login.rs:138), never costs  *)
(* such a peer anything.                                                   *)
GoodLogin == <<"HandshakeLogin", "LoginStart", "EncGood", "LoginAcknowledged">>
LoginIsServed ==
  \A c \in Orderly : stage[c] = "handshake" /\ script[c] = GoodLogin ~>
                     stage[c] = "configuration" \/ cut[c] = {"login"}
=============================================================================
