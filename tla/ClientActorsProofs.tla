------------------------- MODULE ClientActorsProofs -------------------------
(***************************************************************************)
(* Proofs about the connections, for every set of connections, every       *)
(* script of their peers, every capacity and every set of updates.         *)
(*                                                                         *)
(* They stand on those about the server actor (SAP): the connections use   *)
(* it as ServerActor allows (ActorHolds), so that its invariant holds      *)
(* here, and an invariant about each connection is added to it.            *)
(***************************************************************************)
EXTENDS ClientActors, SequenceTheorems, TLAPS

SAP == INSTANCE ServerActorProofs

(* What the server actor assumes of its constants. *)
LEMMA ActorAssumptions ==
  /\ SAP!KindAssumption /\ SAP!CapacityAssumption
  /\ SAP!VersionAssumption /\ SAP!PayloadAssumption
  BY TokenAssumption, CapacityAssumption, VersionAssumption
     DEF Kind, Request, Question, Payload, SAP!AskKind, KeyLen

(***************************************************************************)
(* The server actor in the composition.                                    *)
(***************************************************************************)

(* SA and SAP are instances of one module. *)
LEMMA SameActor ==
  /\ SA!Run <=> SAP!Run
  /\ SA!Init <=> SAP!Init
  /\ \A v \in Version : SA!PostUpdate(v) <=> SAP!PostUpdate(v)
  /\ \A r \in Request : SA!Refuse(r) <=> SAP!Refuse(r)
  /\ \A r \in Request, d \in Payload : SA!Ask(r, d) <=> SAP!Ask(r, d)
  /\ \A R \in SUBSET Request : SA!DropReceivers(R) <=> SAP!DropReceivers(R)
  /\ SA!SendControl(SA!StartMsg) <=> SAP!SendControl(SAP!StartMsg)
  /\ SA!SendControl(SA!ShutdownMsg) <=> SAP!SendControl(SAP!ShutdownMsg)
  <1>1. SA!HandleGetStatus <=> SAP!HandleGetStatus
    BY DEF SA!HandleGetStatus, SAP!HandleGetStatus, SA!Receive, SAP!Receive,
           SA!Deliver, SAP!Deliver, SA!Resolve, SAP!Resolve
  <1>2. SA!HandleCertificatePublicDer <=> SAP!HandleCertificatePublicDer
    BY DEF SA!HandleCertificatePublicDer, SAP!HandleCertificatePublicDer,
           SA!Receive, SAP!Receive, SA!Deliver, SAP!Deliver, SA!Resolve,
           SAP!Resolve, SA!PublicDer, SAP!PublicDer
  <1>3. SA!HandleDecrypt <=> SAP!HandleDecrypt
    BY DEF SA!HandleDecrypt, SAP!HandleDecrypt, SA!Receive, SAP!Receive,
           SA!Deliver, SAP!Deliver, SA!Resolve, SAP!Resolve, SA!Decryptable,
           SAP!Decryptable
  <1>4. /\ SA!HandleUpdateConfig <=> SAP!HandleUpdateConfig
        /\ SA!HandleStartListener <=> SAP!HandleStartListener
        /\ SA!HandleShutdown <=> SAP!HandleShutdown
    BY DEF SA!HandleUpdateConfig, SAP!HandleUpdateConfig,
           SA!HandleStartListener, SAP!HandleStartListener, SA!HandleShutdown,
           SAP!HandleShutdown, SA!Receive, SAP!Receive, SA!TrackedTasks,
           SAP!TrackedTasks
  <1>5. SA!Stop <=> SAP!Stop
    BY DEF SA!Stop, SAP!Stop, SA!StopWhen, SAP!StopWhen, SA!Queued, SAP!Queued,
           SA!IsAsk, SAP!IsAsk, SA!AskKind, SAP!AskKind
  <1>6. SA!Run <=> SAP!Run
    BY <1>1, <1>2, <1>3, <1>4, <1>5 DEF SA!Run, SAP!Run
  <1>7. /\ SA!Init <=> SAP!Init
        /\ \A v \in Version : SA!PostUpdate(v) <=> SAP!PostUpdate(v)
    BY DEF SA!Init, SAP!Init, SA!PostUpdate, SAP!PostUpdate, SA!TrySendUpdate,
           SAP!TrySendUpdate, SA!Enqueue, SAP!Enqueue, SA!HasRoom, SAP!HasRoom,
           SA!UpdateMsg, SAP!UpdateMsg
  <1>8. /\ \A r \in Request : SA!Refuse(r) <=> SAP!Refuse(r)
        /\ \A r \in Request, d \in Payload : SA!Ask(r, d) <=> SAP!Ask(r, d)
        /\ \A R \in SUBSET Request : SA!DropReceivers(R) <=> SAP!DropReceivers(R)
    BY DEF SA!Refuse, SAP!Refuse, SA!Ask, SAP!Ask, SA!DropReceivers,
           SAP!DropReceivers, SA!Enqueue, SAP!Enqueue, SA!HasRoom, SAP!HasRoom,
           SA!AskMsg, SAP!AskMsg
  <1>9. /\ SA!SendControl(SA!StartMsg) <=> SAP!SendControl(SAP!StartMsg)
        /\ SA!SendControl(SA!ShutdownMsg) <=> SAP!SendControl(SAP!ShutdownMsg)
    BY DEF SA!SendControl, SAP!SendControl, SA!Enqueue, SAP!Enqueue,
           SA!HasRoom, SAP!HasRoom, SA!StartMsg, SAP!StartMsg, SA!ShutdownMsg,
           SAP!ShutdownMsg
  <1> QED  BY <1>6, <1>7, <1>8, <1>9

(* A task asks with payloads that are payloads. *)
LEMMA PayloadsSent ==
  /\ 0 \in Payload
  /\ \A c \in Conn, p \in EncryptionResponse \cup {"none"} :
       TokenIn(c, p) \in Payload /\ SecretIn(p) \in Payload
  BY DEF Payload, TokenIn, SecretIn

(* A connection and a question make a request, of the kind it asks. *)
LEMMA RequestsAsked ==
  \A c \in Conn, q \in Question :
    /\ <<c, q>> \in Request
    /\ Kind[<<c, q>>] = CASE q = "status" -> "GetStatus" [] q = "der" -> "CertificatePublicDer"
                          [] OTHER -> "Decrypt"
  BY DEF Request, Kind

(* What a step of the composition is to the server actor: one of its own,  *)
(* or none.  A secret is asked to be decrypted only if it is one.          *)
Secret == {0, KeyLen - 1, KeyLen, KeyLen + 1}
Asking(r, d) == SAP!Ask(r, d) /\ (r[2] = "secret" => d \in Secret)

ActorStep ==
  \/ SAP!Run
  \/ \E r \in Request, d \in Payload : Asking(r, d)
  \/ \E r \in Request : SAP!Refuse(r)
  \/ \E R \in SUBSET Request : SAP!DropReceivers(R)
  \/ \E v \in Version : SAP!PostUpdate(v)
  \/ SAP!SendControl(SAP!StartMsg) \/ SAP!SendControl(SAP!ShutdownMsg)
  \/ UNCHANGED serverVars

(* An ask of a task is an ask. *)
LEMMA AskServerObeys ==
  ASSUME NEW c \in Conn, NEW q \in Question, NEW d \in Payload, AskServer(c, q, d),
         q = "secret" => d \in Secret
  PROVE  ActorStep
  BY SameActor, RequestsAsked DEF AskServer, ActorStep, Asking

(* A refused one is refused by the actor. *)
LEMMA RefuseObeys ==
  ASSUME NEW c \in Conn, NEW q \in Question, SA!Refuse(<<c, q>>)
  PROVE  ActorStep
  BY SameActor, RequestsAsked DEF ActorStep

(* A task that ends drops receivers of its own. *)
LEMMA FinishObeys ==
  ASSUME NEW c \in Conn, NEW s, Finish(c, s)
  PROVE  ActorStep
  <1>1. {c} \X Question \in SUBSET Request
    BY DEF Request
  <1> QED  BY <1>1, SameActor DEF Finish, ActorStep

(* Every step of a task is one of these. *)
LEMMA TaskObeys ==
  ASSUME resp \in [Conn -> EncryptionResponse \cup {"none"}], NEW c \in Conn, Task(c)
  PROVE  ActorStep
  <1>1. {"status", "der", "token", "secret"} \subseteq Question /\ 0 \in Payload
        /\ TokenIn(c, resp[c]) \in Payload /\ SecretIn(resp[c]) \in Payload
        /\ SecretIn(resp[c]) \in Secret
    BY PayloadsSent DEF Question, SecretIn, Secret
  <1>2. CASE AskStatus(c)
    BY <1>1, <1>2, AskServerObeys, RefuseObeys DEF AskStatus
  <1>3. CASE AskDer(c)
    BY <1>1, <1>3, AskServerObeys, RefuseObeys DEF AskDer, AskFails
  <1>4. CASE AskToken(c)
    BY <1>1, <1>4, AskServerObeys, RefuseObeys DEF AskToken, AskFails
  <1>5. CASE AskSecret(c)
    BY <1>1, <1>5, AskServerObeys, RefuseObeys DEF AskSecret, AskFails
  <1>6. CASE Shutdown(c) \/ SecretFails(c)
    BY <1>6, FinishObeys DEF Shutdown, SecretFails, ActorStep
  <1>7. CASE UNCHANGED serverVars
    BY <1>7 DEF ActorStep
  <1> QED
    BY <1>2, <1>3, <1>4, <1>5, <1>6, <1>7
       DEF Task, ReadHandshake, ReadFails, ReadStatusRequest, StatusReply, ReadPing,
           ReadLoginStart, DerReply, ReadEncryptionResponse, TokenReply, SecretReply, ReadAck,
           Configure

(* Every step of the composition is one of these. *)
LEMMA StepObeys ==
  ASSUME resp \in [Conn -> EncryptionResponse \cup {"none"}], [Next]_vars
  PROVE  ActorStep
  <1>1. ASSUME NEW c \in Conn, Task(c) PROVE ActorStep
    BY <1>1, TaskObeys
  <1>2. CASE ServerStep
    BY <1>2, SameActor DEF ServerStep, ActorStep
  <1>3. ASSUME NEW v \in Version, UpdateConfig(v) PROVE ActorStep
    BY <1>3, SameActor DEF UpdateConfig, ActorStep
  <1>4. CASE StartServer \/ ShutdownServer
    BY <1>4, SameActor DEF StartServer, ShutdownServer, ActorStep
  <1>5. CASE UNCHANGED serverVars
    BY <1>5 DEF ActorStep
  <1>6. ASSUME NEW c \in Conn, Accept(c) \/ PeerSend(c) PROVE UNCHANGED serverVars
    BY <1>6 DEF Accept, PeerSend
  <1>7. UNCHANGED vars => UNCHANGED serverVars
    BY DEF vars, serverVars
  <1> QED  BY <1>1, <1>2, <1>3, <1>4, <1>5, <1>6, <1>7 DEF Next, Outside

(* They are steps that ServerActor allows. *)
LEMMA ActorStepIsNext == ActorStep => [SAP!Next]_(SAP!vars)
  BY DEF ActorStep, Asking, SAP!Next, SAP!Callers, SAP!vars, serverVars

(***************************************************************************)
(* Types of the connections.                                               *)
(***************************************************************************)

Stages ==
  {"idle", "handshake", "askStatus", "status", "statusReply", "ping",
   "login", "askDer", "awaitDer", "encryption", "askToken", "askSecret", "awaitToken",
   "awaitSecret", "ack", "configuration", "shutdown", "closed", "panicked"}

ConnTypes ==
  /\ stage \in [Conn -> Stages]
  /\ encrypted \in [Conn -> BOOLEAN]
  /\ script \in [Conn -> Seq(Packet)]
  /\ wire \in [Conn -> Seq(Packet)]
  /\ buf \in [Conn -> Seq(Packet)]
  /\ resp \in [Conn -> EncryptionResponse \cup {"none"}]
  /\ unwritten \in [Conn -> SUBSET ClientPacket]
  /\ cut \in [Conn -> SUBSET {"login", "ack"}]

(* The stages, one by one. *)
LEMMA StagesNamed ==
  /\ ReadStage = {"handshake", "status", "ping", "login", "encryption", "ack"}
  /\ Stages = ReadStage \cup AskStage \cup AwaitStage \cup EndStage
                \cup {"idle", "configuration", "shutdown"}
  BY DEF ReadStage, Accepted, Stages, AskStage, AwaitStage, EndStage

(* What a read finds in the buffer and leaves in the socket. *)
LEMMA BuffersTyped ==
  ASSUME ConnTypes, NEW c \in Conn, NEW b \in Buffers(c)
  PROVE  b.buf \in Seq(Packet) /\ b.wire \in Seq(Packet) /\ Tail(b.buf) \in Seq(Packet)
  <1>1. buf[c] \in Seq(Packet) /\ wire[c] \in Seq(Packet)
    BY DEF ConnTypes
  <1>2. CASE buf[c] # <<>>
    BY <1>1, <1>2, HeadTailProperties DEF Buffers
  <1>3. CASE buf[c] = <<>>
    <2>1. PICK k \in 1..Len(wire[c]) :
            b = [buf |-> SubSeq(wire[c], 1, k), wire |-> SubSeq(wire[c], k + 1, Len(wire[c]))]
      BY <1>3 DEF Buffers
    <2>2. b.buf \in Seq(Packet) /\ b.wire \in Seq(Packet) /\ Len(b.buf) = k /\ k \in Nat \ {0}
      BY <1>1, <2>1, SubSeqProperties, LenProperties
    <2> QED  BY <2>2, HeadTailProperties, EmptySeq
  <1> QED  BY <1>2, <1>3

(* A read keeps the types, whatever it leaves in the buffer ... *)
LEMMA TakeTypes ==
  ASSUME ConnTypes, NEW c \in Conn, NEW b \in Buffers(c), NEW rest \in Seq(Packet), Take(c, b, rest)
  PROVE  buf' \in [Conn -> Seq(Packet)] /\ wire' \in [Conn -> Seq(Packet)] /\ script' = script
  BY BuffersTyped DEF ConnTypes, Take

(* ... in the framer it came through ... *)
LEMMA ReadTypes ==
  ASSUME ConnTypes, NEW c \in Conn, NEW at, NEW P, Read(c, at, P)
  PROVE  buf' \in [Conn -> Seq(Packet)] /\ wire' \in [Conn -> Seq(Packet)] /\ script' = script
  BY TakeTypes, BuffersTyped DEF Read, Ready, SameFramer

(* ... and in a new one. *)
LEMMA FramerTypes ==
  ASSUME ConnTypes, NEW c \in Conn, NEW b \in Buffers(c), Take(c, b, IntoParts(Tail(b.buf)))
  PROVE  buf' \in [Conn -> Seq(Packet)] /\ wire' \in [Conn -> Seq(Packet)] /\ script' = script
  BY TakeTypes, EmptySeq DEF IntoParts

(* A send adds to out, or to what was not written. *)
LEMMA SendTypes ==
  ASSUME ConnTypes, NEW c \in Conn, NEW p \in ClientPacket, NEW e, NEW w, Send(c, p, e, w)
  PROVE  unwritten' \in [Conn -> SUBSET ClientPacket]
  <1>1. unwritten \in [Conn -> SUBSET ClientPacket]
    BY DEF ConnTypes
  <1>2. unwritten[c] \cup {p} \in SUBSET ClientPacket
    BY <1>1
  <1> QED  BY <1>1, <1>2 DEF Send

(* A change of framer keeps the type of cut. *)
LEMMA CutTypes ==
  ASSUME ConnTypes, NEW c \in Conn, NEW s \in {"login", "ack"}, NEW rest, CutAt(c, s, rest)
  PROVE  cut' \in [Conn -> SUBSET {"login", "ack"}]
  BY DEF ConnTypes, CutAt

(* The end of a task keeps the types. *)
LEMMA DropTypes ==
  ASSUME ConnTypes, NEW c \in Conn, NEW s \in Stages, Drop(c, s), encrypted' = encrypted,
         unwritten' = unwritten
  PROVE  ConnTypes'
  BY EmptySeq DEF ConnTypes, Drop, Go

(* Every step of a task keeps the types. *)
LEMMA TaskTypes ==
  ASSUME ConnTypes, NEW c \in Conn, Task(c)
  PROVE  ConnTypes'
  <1>1. {"status", "statusReply", "ping", "login", "askStatus", "askDer", "awaitDer", "encryption",
         "askToken", "askSecret", "awaitToken", "awaitSecret", "ack", "configuration", "shutdown",
         "closed", "panicked"} \subseteq Stages
    BY DEF Stages
  <1>2. CASE ReadHandshake(c)
    <2>1. /\ buf' \in [Conn -> Seq(Packet)] /\ wire' \in [Conn -> Seq(Packet)] /\ script' = script
          /\ cut' \in [Conn -> SUBSET {"login", "ack"}]
      <3>1. ASSUME NEW P, Read(c, "handshake", P) PROVE cut' = cut
        BY <3>1 DEF Read
      <3> QED  BY <1>2, <3>1, ReadTypes, FramerTypes, CutTypes DEF ConnTypes, ReadHandshake, Ready
    <2>2. stage' \in [Conn -> Stages]
      BY <1>1, <1>2 DEF ConnTypes, ReadHandshake, Go
    <2> QED  BY <1>2, <2>1, <2>2 DEF ConnTypes, ReadHandshake, sentVars
  <1>3. CASE ReadStatusRequest(c) \/ ReadLoginStart(c) \/ ReadAck(c)
    BY <1>1, <1>3, ReadTypes
       DEF ConnTypes, ReadStatusRequest, ReadLoginStart, ReadAck, Read, Go, sentVars
  <1>4. CASE ReadPing(c)
    BY <1>1, <1>4, ReadTypes, SendTypes DEF ConnTypes, ReadPing, Read, Go, ClientPacket
  <1>5. CASE ReadEncryptionResponse(c)
    BY <1>1, <1>5, ReadTypes DEF ConnTypes, ReadEncryptionResponse, Read, Go, sentVars
  <1>6. CASE ReadFails(c) \/ TokenReply(c) \/ Configure(c)
    BY <1>1, <1>6 DEF ConnTypes, ReadFails, TokenReply, Configure, Go, peerVars, sentVars
  <1>7. CASE StatusReply(c) \/ DerReply(c)
    <2>1. unwritten' \in [Conn -> SUBSET ClientPacket]
      BY <1>7, SendTypes DEF ConnTypes, StatusReply, DerReply, sentVars, ClientPacket
    <2>2. stage' \in [Conn -> Stages]
      BY <1>1, <1>7 DEF ConnTypes, StatusReply, DerReply, Go
    <2> QED  BY <1>7, <2>1, <2>2 DEF ConnTypes, StatusReply, DerReply, peerVars
  <1>8. CASE AskStatus(c)
    BY <1>1, <1>8, DropTypes DEF ConnTypes, AskStatus, AskServer, Go, peerVars, sentVars
  <1>9. CASE AskDer(c) \/ AskToken(c) \/ AskSecret(c)
    <2>1. UNCHANGED <<encrypted, script, wire, buf, cut, unwritten>>
      BY <1>9 DEF AskDer, AskToken, AskSecret, AskFails, AskServer, peerVars, sentVars
    <2>2. stage' \in [Conn -> Stages]
      BY <1>1, <1>9 DEF ConnTypes, AskDer, AskToken, AskSecret, AskFails, Go
    <2>3. resp' = resp \/ resp' = [resp EXCEPT ![c] = "none"]
      BY <1>9 DEF AskDer, AskToken, AskSecret, AskFails
    <2> QED  BY <2>1, <2>2, <2>3 DEF ConnTypes
  <1>10. CASE SecretReply(c)
    BY <1>1, <1>10, EmptySeq, SendTypes, CutTypes DEF ConnTypes, SecretReply, IntoParts, Go, ClientPacket
  <1>11. CASE Shutdown(c) \/ SecretFails(c)
    BY <1>1, <1>11, DropTypes DEF ConnTypes, Shutdown, SecretFails, Finish, Go, peerVars, sentVars
  <1> QED
    BY <1>2, <1>3, <1>4, <1>5, <1>6, <1>7, <1>8, <1>9, <1>10, <1>11 DEF Task

(* So does every step. *)
LEMMA TypesStep == ConnTypes /\ [Next]_vars => ConnTypes'
  <1> SUFFICES ASSUME ConnTypes, [Next]_vars PROVE ConnTypes'
    OBVIOUS
  <1>1. ASSUME NEW c \in Conn, Accept(c) PROVE ConnTypes'
    BY <1>1, ScriptAssumption DEF ConnTypes, Accept, Stages, sentVars
  <1>2. ASSUME NEW c \in Conn, PeerSend(c) PROVE ConnTypes'
    <2>1. script[c] \in Seq(Packet) /\ script[c] # <<>> /\ wire[c] \in Seq(Packet)
      BY <1>2 DEF ConnTypes, PeerSend
    <2>2. Head(script[c]) \in Packet /\ Tail(script[c]) \in Seq(Packet)
      BY <2>1, HeadTailProperties
    <2>3. Append(wire[c], Head(script[c])) \in Seq(Packet)
      BY <2>1, <2>2, AppendProperties
    <2> QED  BY <1>2, <2>2, <2>3 DEF ConnTypes, PeerSend, sentVars
  <1>3. CASE UNCHANGED connVars
    BY <1>3 DEF ConnTypes, connVars, peerVars, sentVars
  <1> QED
    BY <1>1, <1>2, <1>3, TaskTypes
       DEF Next, Outside, ServerStep, StartServer, ShutdownServer, UpdateConfig, vars

(* The types hold at first ... *)
LEMMA TypesInit == Init => ConnTypes
  BY EmptySeq DEF Init, ConnTypes, Stages

(* ... and always. *)
LEMMA TypesHold == SafeSpec => []ConnTypes
  BY TypesInit, TypesStep, PTL DEF SafeSpec

(* The composition behaves as ServerActor does. *)
LEMMA ActorHolds == SafeSpec => SAP!SafeSpec
  <1>1. Init => SAP!Init
    BY SameActor DEF Init
  <1>2. ConnTypes /\ [Next]_vars => [SAP!Next]_(SAP!vars)
    BY StepObeys, ActorStepIsNext DEF ConnTypes
  <1> QED  BY <1>1, <1>2, TypesHold, PTL DEF SafeSpec, SAP!SafeSpec

(* What a connection hears of its questions is what `ask` promises, also   *)
(* when its task drops the receiver on the way: no timer or error of a     *)
(* connection costs another one its answer, or the freshness of it.        *)
THEOREM AsksKeepContract == SafeSpec => SA!Contract!SafeSpec
  <1>1. SAP!Contract!Init => SA!Contract!Init
    BY DEF SAP!Contract!Init, SA!Contract!Init
  <1>2. SAP!Contract!Next => SA!Contract!Next
    BY DEF SAP!Contract!Next, SA!Contract!Next, SAP!Contract!Issue, SA!Contract!Issue,
           SAP!Contract!Refuse, SA!Contract!Refuse, SAP!Contract!Abandon, SA!Contract!Abandon,
           SAP!Contract!Answer, SA!Contract!Answer, SAP!Contract!Fresh, SA!Contract!Fresh,
           SAP!Contract!Close, SA!Contract!Close, SAP!Contract!Post, SA!Contract!Post,
           SAP!Answers, SA!Answers, SAP!PublicDer, SA!PublicDer
  <1>3. [SAP!Contract!Next]_(SAP!Contract!vars) => [SA!Contract!Next]_(SA!Contract!vars)
    BY <1>2 DEF SAP!Contract!vars, SA!Contract!vars
  <1>4. SAP!SafeSpec => SAP!Contract!SafeSpec
    BY ActorAssumptions, SAP!AskContractIsKept
  <1> QED
    BY <1>1, <1>3, <1>4, ActorHolds, PTL DEF SA!Contract!SafeSpec, SAP!Contract!SafeSpec

(* What is proved of the server actor, here. *)
LEMMA ActorInvariant == SafeSpec => []SAP!IndInv
  BY ActorHolds, ActorAssumptions, SAP!Invariance, PTL

(***************************************************************************)
(* What a step does to the questions of a connection.                      *)
(***************************************************************************)

InFlight(c, q) == reply[<<c, q>>] \in {"waiting", "answered", "closed"}

(* An outcome is final, whatever anyone does. *)
LEMMA OutcomesStay ==
  ASSUME SAP!TypeOK, ActorStep, NEW r \in Request, reply[r] \in {"answered", "closed"}
  PROVE  reply'[r] = reply[r] /\ answer'[r] = answer[r]
  <1>1. CASE SAP!Run
    BY <1>1, ActorAssumptions, SAP!RunTouchesWaiting
  <1>2. ASSUME NEW p \in Request, NEW d \in Payload, Asking(p, d)
        PROVE  reply'[r] = reply[r] /\ answer'[r] = answer[r]
    BY <1>2 DEF Asking, SAP!Ask, SAP!TypeOK
  <1>3. ASSUME NEW p \in Request, SAP!Refuse(p)
        PROVE  reply'[r] = reply[r] /\ answer'[r] = answer[r]
    BY <1>3 DEF SAP!Refuse, SAP!TypeOK
  <1>4. ASSUME NEW R \in SUBSET Request, SAP!DropReceivers(R)
        PROVE  reply'[r] = reply[r] /\ answer'[r] = answer[r]
    BY <1>4 DEF SAP!DropReceivers, SAP!TypeOK
  <1> QED
    BY <1>1, <1>2, <1>3, <1>4
       DEF ActorStep, SAP!PostUpdate, SAP!TrySendUpdate, SAP!SendControl, serverVars

(* Asking one question leaves the others as they are. *)
LEMMA AskAlone ==
  ASSUME SAP!TypeOK, NEW c \in Conn, NEW q \in Question, NEW d \in Payload, AskServer(c, q, d)
  PROVE  /\ reply'[<<c, q>>] = "waiting"
         /\ \A r \in Request \ {<<c, q>>} : reply'[r] = reply[r]
         /\ encrypted' = encrypted /\ UNCHANGED sentVars
  <1>1. SAP!Ask(<<c, q>>, d)
    BY SameActor, RequestsAsked DEF AskServer
  <1> QED  BY <1>1, RequestsAsked DEF AskServer, SAP!Ask, SAP!TypeOK

(* So does failing to ask it. *)
LEMMA RefuseAlone ==
  ASSUME SAP!TypeOK, NEW c \in Conn, NEW q \in Question, SA!Refuse(<<c, q>>)
  PROVE  \A r \in Request \ {<<c, q>>} : reply'[r] = reply[r]
  <1>1. SAP!Refuse(<<c, q>>)
    BY SameActor, RequestsAsked
  <1> QED  BY <1>1, RequestsAsked DEF SAP!Refuse, SAP!TypeOK

(* A task that ends drops its own receivers alone. *)
LEMMA FinishAlone ==
  ASSUME SAP!TypeOK, NEW c \in Conn, NEW s, Finish(c, s)
  PROVE  /\ \A d \in Conn \ {c}, q \in Question : reply'[<<d, q>>] = reply[<<d, q>>]
         /\ stage' = [stage EXCEPT ![c] = s]
  <1>1. {c} \X Question \in SUBSET Request
    BY DEF Request
  <1>2. SAP!DropReceivers({c} \X Question)
    BY <1>1, SameActor DEF Finish
  <1>3. ASSUME NEW d \in Conn \ {c}, NEW q \in Question
        PROVE  reply'[<<d, q>>] = reply[<<d, q>>]
    <2>1. <<d, q>> \in Request /\ <<d, q>> \notin {c} \X Question
      BY RequestsAsked
    <2> QED  BY <1>2, <2>1 DEF SAP!DropReceivers
  <1> QED  BY <1>3 DEF Finish, Drop, Go

(***************************************************************************)
(* What a connection has said, asked and proved at each of its awaits.     *)
(***************************************************************************)

StatusSent == <<Clear("StatusResponse")>>
Pong == <<Clear("PingResponse")>>
Challenge == <<Clear("EncryptionRequest")>>
Heard == {<<>>, StatusSent, StatusDialogue, Pong, Challenge, LoginDialogue}

StatusUnwritten(c) == "StatusResponse" \in unwritten[c]

(* What was sent is all that could be written of a dialogue.               *)
Whole(c) ==
  \/ out[c] \in {<<>>, Challenge, LoginDialogue}
  \/ out[c] \in {StatusSent, StatusDialogue} /\ ~StatusUnwritten(c)
  \/ out[c] = Pong /\ StatusUnwritten(c)

Said(c) ==
  /\ Whole(c)
  /\ stage[c] \in {"idle", "handshake", "askStatus", "status", "statusReply",
                   "login", "askDer", "awaitDer"} => out[c] = <<>> /\ ~StatusUnwritten(c)
  /\ stage[c] = "ping" => out[c] = IF StatusUnwritten(c) THEN <<>> ELSE StatusSent
  /\ stage[c] \in {"encryption", "askToken", "askSecret", "awaitToken", "awaitSecret"}
       => out[c] = Challenge

Held(c) ==
  /\ stage[c] \in {"status", "statusReply"} => InFlight(c, "status")
  /\ stage[c] = "awaitDer" => InFlight(c, "der")
  /\ stage[c] \in {"askSecret", "awaitToken"} => InFlight(c, "token")
  /\ stage[c] \in {"awaitToken", "awaitSecret"} => InFlight(c, "secret")

TokenProved(c) == Answered(c, "token") /\ answer[<<c, "token">>] = Token[c]
SecretInHand(c) == Answered(c, "secret") /\ LongEnough(c)
Proved(c) ==
  /\ stage[c] = "awaitSecret" => TokenProved(c)
  /\ encrypted[c] = TRUE =>
       /\ TokenProved(c) /\ SecretInHand(c)
       /\ stage[c] \in {"ack", "configuration", "shutdown", "closed"}

ConnInv ==
  /\ out \in [Conn -> Heard]
  /\ \A c \in Conn : Said(c) /\ Held(c) /\ Proved(c)

(* A task's step leaves every other connection as it is. *)
LEMMA OthersUntouched ==
  ASSUME SAP!TypeOK, ConnTypes, ConnInv, NEW c \in Conn, NEW d \in Conn \ {c}, Task(c)
  PROVE  /\ stage'[d] = stage[d] /\ encrypted'[d] = encrypted[d]
         /\ out'[d] = out[d] /\ unwritten'[d] = unwritten[d]
         /\ \A q \in Question : reply'[<<d, q>>] = reply[<<d, q>>]
  <1> USE DEF ConnTypes
  <1>1. \A p, q \in Question : <<d, q>> \in Request \ {<<c, p>>}
    BY RequestsAsked
  <1>2. {"status", "der", "token", "secret"} \subseteq Question /\ 0 \in Payload
        /\ TokenIn(c, resp[c]) \in Payload /\ SecretIn(resp[c]) \in Payload
    BY PayloadsSent DEF Question
  <1>3. out \in [Conn -> Heard]
    BY DEF ConnInv
  <1>4. CASE AskStatus(c)
    BY <1>1, <1>2, <1>4, AskAlone, RefuseAlone DEF AskStatus, Drop, Go, sentVars
  <1>5. CASE AskDer(c)
    BY <1>1, <1>2, <1>5, AskAlone, RefuseAlone DEF AskDer, AskFails, Go, sentVars
  <1>6. CASE AskToken(c)
    BY <1>1, <1>2, <1>6, AskAlone, RefuseAlone DEF AskToken, AskFails, Go, sentVars
  <1>7. CASE AskSecret(c)
    BY <1>1, <1>2, <1>7, AskAlone, RefuseAlone DEF AskSecret, AskFails, Go, sentVars
  <1>8. CASE Shutdown(c) \/ SecretFails(c)
    BY <1>8, FinishAlone DEF Shutdown, SecretFails, Go, serverVars, sentVars
  <1>9. CASE ReadHandshake(c) \/ ReadStatusRequest(c) \/ ReadPing(c) \/ ReadLoginStart(c)
               \/ ReadEncryptionResponse(c) \/ ReadAck(c)
    BY <1>3, <1>9 DEF ReadHandshake, ReadStatusRequest, ReadPing, ReadLoginStart,
         ReadEncryptionResponse, ReadAck, Go, Send, serverVars, sentVars
  <1>10. CASE ReadFails(c) \/ StatusReply(c) \/ DerReply(c) \/ TokenReply(c) \/ SecretReply(c)
                \/ Configure(c)
    BY <1>3, <1>10 DEF ReadFails, StatusReply, DerReply, TokenReply, SecretReply, Configure,
         Go, Send, serverVars, sentVars
  <1> QED  BY <1>4, <1>5, <1>6, <1>7, <1>8, <1>9, <1>10 DEF Task

(* A sequence of one grows to a sequence of two. *)
LEMMA AppendToOne ==
  ASSUME NEW S, NEW x \in S, NEW y \in S
  PROVE  Append(<<x>>, y) = <<x, y>>
  <1> DEFINE s == Append(<<x>>, y)
             t == <<x, y>>
  <1>1. <<x>> \in Seq(S) /\ Len(<<x>>) = 1
    OBVIOUS
  <1>2. s \in Seq(S) /\ Len(s) = 2 /\ s[1] = x /\ s[2] = y
    BY <1>1, AppendProperties
  <1>3. t \in Seq(S) /\ Len(t) = 2 /\ t[1] = x /\ t[2] = y
    OBVIOUS
  <1> HIDE DEF s, t
  <1>4. s = t
    <2>1. \A i \in 1..2 : s[i] = t[i]
      BY <1>2, <1>3
    <2> QED  BY <1>2, <1>3, <2>1, SeqEqual
  <1> QED  BY <1>4 DEF s, t

(* What is sent, behind what was. *)
LEMMA DialogueGrows ==
  /\ Append(<<>>, Clear("StatusResponse")) = StatusSent
  /\ Append(StatusSent, Clear("PingResponse")) = StatusDialogue
  /\ Append(<<>>, Clear("PingResponse")) = Pong
  /\ Append(<<>>, Clear("EncryptionRequest")) = Challenge
  /\ Append(Challenge, [packet |-> "LoginSuccess", encrypted |-> TRUE]) = LoginDialogue
  <1>1. \A p : Append(<<>>, Clear(p)) = <<Clear(p)>>
    OBVIOUS
  <1>2. \A p, q : Append(<<p>>, q) = <<p, q>>
    <2> SUFFICES ASSUME NEW p, NEW q PROVE Append(<<p>>, q) = <<p, q>>
      OBVIOUS
    <2> QED  BY AppendToOne, p \in {p, q}, q \in {p, q}
  <1> QED  BY <1>1, <1>2 DEF StatusSent, StatusDialogue, Pong, Challenge, LoginDialogue

(* The three sends in the clear, each at its place of a dialogue, written  *)
(* or not.                                                                 *)
LEMMA SendsInPlace ==
  ASSUME ConnTypes, ConnInv, NEW c \in Conn, NEW w \in BOOLEAN,
         NEW p \in {"StatusResponse", "PingResponse", "EncryptionRequest"},
         Send(c, p, encrypted[c], w),
         stage[c] = CASE p = "StatusResponse" -> "statusReply" [] p = "PingResponse" -> "ping"
                      [] OTHER -> "awaitDer"
  PROVE  /\ out' \in [Conn -> Heard] /\ Whole(c)'
         /\ p = "StatusResponse" => out'[c] = IF StatusUnwritten(c)' THEN <<>> ELSE StatusSent
         /\ p = "EncryptionRequest" /\ w => out'[c] = Challenge
  <1>1. encrypted[c] = FALSE /\ out \in [Conn -> Heard] /\ Said(c)
    BY DEF ConnInv, Proved, ConnTypes
  <1>2. [packet |-> p, encrypted |-> encrypted[c]] = Clear(p)
    BY <1>1 DEF Clear
  <1>3. unwritten \in [Conn -> SUBSET ClientPacket]
    BY DEF ConnTypes
  <1>4. CASE w
    <2>1. out' = [out EXCEPT ![c] = Append(out[c], Clear(p))] /\ unwritten' = unwritten
      BY <1>2, <1>4 DEF Send
    <2>2. CASE p = "StatusResponse"
      <3>1. out[c] = <<>> /\ ~StatusUnwritten(c)
        BY <1>1, <2>2 DEF Said
      <3> QED  BY <1>1, <2>1, <2>2, <3>1, DialogueGrows DEF Heard, Whole, StatusUnwritten
    <2>3. CASE p = "PingResponse"
      <3>1. out[c] = IF StatusUnwritten(c) THEN <<>> ELSE StatusSent
        BY <1>1, <2>3 DEF Said
      <3> QED  BY <1>1, <2>1, <2>3, <3>1, DialogueGrows DEF Heard, Whole, StatusUnwritten
    <2>4. CASE p = "EncryptionRequest"
      <3>1. out[c] = <<>>
        BY <1>1, <2>4 DEF Said
      <3> QED  BY <1>1, <2>1, <2>4, <3>1, DialogueGrows DEF Heard, Whole
    <2> QED  BY <2>2, <2>3, <2>4
  <1>5. CASE ~w
    <2>1. out' = out /\ unwritten' = [unwritten EXCEPT ![c] = @ \cup {p}]
      BY <1>5 DEF Send
    <2>2. unwritten'[c] = unwritten[c] \cup {p}
      BY <1>3, <2>1
    <2>3. CASE p = "StatusResponse"
      BY <1>1, <2>1, <2>2, <2>3 DEF Said, Whole, StatusUnwritten
    <2>4. CASE p # "StatusResponse"
      BY <1>1, <1>5, <2>1, <2>2, <2>4 DEF Said, Whole, StatusUnwritten
    <2> QED  BY <2>3, <2>4
  <1> QED  BY <1>4, <1>5

(* Once it has the secret, LoginSuccess is all that is left to send. *)
LEMMA SuccessInPlace ==
  ASSUME ConnTypes, ConnInv, NEW c \in Conn, SecretReply(c)
  PROVE  out' \in [Conn -> Heard] /\ Whole(c)' /\ encrypted'[c] = TRUE
  <1>1. encrypted'[c] = TRUE
    BY DEF SecretReply, ConnTypes
  <1>2. out[c] = Challenge /\ out \in [Conn -> Heard]
    BY DEF SecretReply, ConnInv, Said
  <1>3. PICK w \in BOOLEAN : Send(c, "LoginSuccess", encrypted'[c], w)
    BY DEF SecretReply
  <1>4. CASE w
    <2>1. out' = [out EXCEPT ![c] = Append(out[c], [packet |-> "LoginSuccess", encrypted |-> TRUE])]
      BY <1>1, <1>3, <1>4 DEF Send
    <2> QED  BY <1>1, <1>2, <2>1, DialogueGrows DEF Heard, Whole
  <1>5. CASE ~w
    BY <1>1, <1>2, <1>3, <1>5 DEF Send, Whole
  <1> QED  BY <1>4, <1>5

(* A task's step keeps what it has said. *)
LEMMA SaidStep ==
  ASSUME SAP!ShutdownAbandonsNothing, ConnTypes, ConnInv, NEW c \in Conn, Task(c)
  PROVE  out' \in [Conn -> Heard] /\ Said(c)'
  <1> USE DEF ConnTypes
  <1>1. out \in [Conn -> Heard] /\ Said(c)
    BY DEF ConnInv
  <1>2. ASSUME out' = out, unwritten' = unwritten PROVE Whole(c)'
    BY <1>1, <1>2 DEF Said, Whole, StatusUnwritten
  <1>3. CASE ReadHandshake(c) \/ ReadStatusRequest(c) \/ ReadLoginStart(c)
               \/ ReadEncryptionResponse(c) \/ ReadAck(c)
    BY <1>1, <1>2, <1>3 DEF ReadHandshake, ReadStatusRequest, ReadLoginStart,
         ReadEncryptionResponse, ReadAck, Read, Go, Said, StatusUnwritten, sentVars
  <1>4. CASE AskStatus(c) \/ AskDer(c) \/ AskToken(c) \/ AskSecret(c)
    BY <1>1, <1>2, <1>4
       DEF AskStatus, AskDer, AskToken, AskSecret, AskServer, AskFails, Drop, Go, Said,
           StatusUnwritten, sentVars
  <1>5. CASE ReadFails(c) \/ TokenReply(c) \/ Configure(c) \/ Shutdown(c) \/ SecretFails(c)
    BY <1>1, <1>2, <1>5
       DEF ReadFails, TokenReply, Configure, Shutdown, SecretFails, Finish, Drop, Go, Said,
           StatusUnwritten, sentVars
  <1>6. CASE StatusReply(c)
    <2>1. ~Closed(c, "status")
      BY RequestsAsked DEF Closed, SAP!ShutdownAbandonsNothing, Question
    <2>2. PICK w \in BOOLEAN : Send(c, "StatusResponse", encrypted[c], w)
      BY <1>6, <2>1 DEF StatusReply
    <2>3. stage[c] = "statusReply" /\ stage'[c] = "ping"
      BY <1>6 DEF StatusReply, Go
    <2> QED  BY <2>2, <2>3, SendsInPlace DEF Said
  <1>7. CASE ReadPing(c)
    <2>1. stage[c] = "ping" /\ stage'[c] = "shutdown"
      BY <1>7 DEF ReadPing, Read, Go
    <2>2. PICK w \in BOOLEAN : Send(c, "PingResponse", encrypted[c], w)
      BY <1>7 DEF ReadPing
    <2> QED  BY <2>1, <2>2, SendsInPlace DEF Said
  <1>8. CASE DerReply(c)
    <2>1. stage[c] = "awaitDer"
      BY <1>8 DEF DerReply
    <2>2. CASE Closed(c, "der") /\ Go(c, "shutdown") /\ UNCHANGED sentVars
      BY <1>1, <1>2, <2>2 DEF Go, Said, sentVars
    <2>3. ASSUME NEW w \in BOOLEAN, Send(c, "EncryptionRequest", encrypted[c], w),
                 Go(c, IF w THEN "encryption" ELSE "shutdown")
          PROVE  out' \in [Conn -> Heard] /\ Said(c)'
      BY <2>1, <2>3, SendsInPlace DEF Said, Go
    <2> QED  BY <1>8, <2>2, <2>3 DEF DerReply
  <1>9. CASE SecretReply(c)
    <2>1. stage'[c] = "ack"
      BY <1>9 DEF SecretReply, Go
    <2> QED  BY <1>9, <2>1, SuccessInPlace DEF Said
  <1> QED  BY <1>3, <1>4, <1>5, <1>6, <1>7, <1>8, <1>9 DEF Task

(* A task's step keeps what it holds. *)
LEMMA HeldStep ==
  ASSUME SAP!TypeOK, ConnTypes, ConnInv, NEW c \in Conn, Task(c)
  PROVE  Held(c)'
  <1> USE DEF ConnTypes
  <1>1. /\ <<c, "status">> \in Request /\ <<c, "der">> \in Request
        /\ <<c, "token">> \in Request /\ <<c, "secret">> \in Request
        /\ {"status", "der", "token", "secret"} \subseteq Question /\ 0 \in Payload
        /\ TokenIn(c, resp[c]) \in Payload /\ SecretIn(resp[c]) \in Payload
    BY RequestsAsked, PayloadsSent DEF Question
  <1>2. Held(c)
    BY DEF ConnInv
  <1>3. CASE AskStatus(c)
    BY <1>1, <1>3, AskAlone DEF AskStatus, Drop, Go, Held, InFlight
  <1>4. CASE AskDer(c)
    BY <1>1, <1>4, AskAlone DEF AskDer, AskFails, Go, Held, InFlight
  <1>5. CASE AskToken(c)
    BY <1>1, <1>5, AskAlone DEF AskToken, AskFails, Go, Held, InFlight
  <1>6. CASE AskSecret(c)
    <2>1. CASE AskFails(c, "secret")
      BY <2>1 DEF AskFails, Go, Held
    <2>2. CASE AskServer(c, "secret", SecretIn(resp[c])) /\ Go(c, "awaitToken")
      <3>1. reply'[<<c, "secret">>] = "waiting" /\ reply'[<<c, "token">>] = reply[<<c, "token">>]
        BY <1>1, <2>2, AskAlone
      <3>2. stage'[c] = "awaitToken" /\ stage[c] = "askSecret"
        BY <1>6, <2>2 DEF AskSecret, Go
      <3> QED  BY <1>2, <3>1, <3>2 DEF Held, InFlight
    <2> QED  BY <1>6, <2>1, <2>2 DEF AskSecret
  <1>7. CASE Shutdown(c) \/ SecretFails(c)
    BY <1>7, FinishAlone DEF Shutdown, SecretFails, Go, Held
  <1>8. CASE ReadHandshake(c) \/ ReadStatusRequest(c) \/ ReadPing(c) \/ ReadLoginStart(c)
               \/ ReadEncryptionResponse(c) \/ ReadAck(c)
    BY <1>2, <1>8 DEF ReadHandshake, ReadStatusRequest, ReadPing, ReadLoginStart,
         ReadEncryptionResponse, ReadAck, Read, Go, Held, InFlight, serverVars
  <1>9. CASE ReadFails(c) \/ StatusReply(c) \/ DerReply(c) \/ TokenReply(c) \/ SecretReply(c)
                \/ Configure(c)
    BY <1>2, <1>9 DEF ReadFails, StatusReply, DerReply, TokenReply, SecretReply, Configure,
         Go, Held, InFlight, serverVars
  <1> QED  BY <1>3, <1>4, <1>5, <1>6, <1>7, <1>8, <1>9 DEF Task

(***************************************************************************)
(* The secrets: what is asked to be decrypted, and what is answered.       *)
(***************************************************************************)

SecretsAsked == \A i \in SAP!Asks : mailbox[i].reply_to[2] = "secret" => mailbox[i].data \in Secret
SecretsAnswered ==
  \A r \in Request : r[2] = "secret" /\ reply[r] = "answered" => answer[r] \in Secret
SecretInv == SecretsAsked /\ SecretsAnswered

(* An ask queues a secret where it says it does. *)
LEMMA SecretAsk ==
  ASSUME SAP!TypeOK, SecretInv, NEW p \in Request, NEW d \in Payload, Asking(p, d)
  PROVE  SecretInv'
  <1> DEFINE m == SAP!AskMsg(p, d)
  <1>1. m \in SAP!Message /\ m.reply_to = p /\ m.data = d
    BY ActorAssumptions, SAP!MessagesSent DEF SAP!AskMsg
  <1> HIDE DEF m
  <1>2. mailbox' = Append(mailbox, m) /\ reply' = [reply EXCEPT ![p] = "waiting"] /\ answer' = answer
    BY DEF Asking, SAP!Ask, SAP!Enqueue, m
  <1>3. SecretsAsked'
    <2> SUFFICES ASSUME NEW i \in SAP!Asks', mailbox'[i].reply_to[2] = "secret"
                 PROVE  mailbox'[i].data \in Secret
      BY DEF SecretsAsked
    <2>1. (i \in SAP!Asks /\ mailbox'[i] = mailbox[i]) \/ mailbox'[i] = m
      BY <1>1, <1>2, ActorAssumptions, SAP!SendExtends
    <2> QED  BY <1>1, <2>1 DEF SecretInv, SecretsAsked, Asking
  <1>4. SecretsAnswered'
    BY <1>2 DEF SecretInv, SecretsAnswered, SAP!TypeOK
  <1> QED  BY <1>3, <1>4 DEF SecretInv

(* A message that asks nothing is queued. *)
LEMMA SecretControl ==
  ASSUME SAP!TypeOK, SecretInv, SAP!ControlSent
  PROVE  SecretInv'
  <1>1. PICK m \in SAP!Message : ~SAP!IsAsk(m) /\ mailbox' = Append(mailbox, m)
    BY DEF SAP!ControlSent
  <1>2. \A i \in SAP!Asks' : i \in SAP!Asks /\ mailbox'[i] = mailbox[i]
    BY <1>1, ActorAssumptions, SAP!SendExtends
  <1>3. reply' = reply /\ answer' = answer
    BY DEF SAP!ControlSent
  <1> QED  BY <1>2, <1>3 DEF SecretInv, SecretsAsked, SecretsAnswered

(* The actor answers a secret with what it was asked to decrypt. *)
LEMMA SecretRun ==
  ASSUME SAP!TypeOK, SAP!AsksAreTyped, SecretInv, SAP!Run
  PROVE  SecretInv'
  <1>1. ASSUME mailbox # <<>>, mailbox' = Tail(mailbox) PROVE SecretsAsked'
    BY ZenonT(30), <1>1, ActorAssumptions, SAP!ReceiveShifts DEF SecretInv, SecretsAsked
  <1>2. CASE SAP!HandleGetStatus \/ SAP!HandleCertificatePublicDer \/ SAP!HandleDecrypt
    <2> DEFINE p == Head(mailbox).reply_to
    <2>1. SAP!AskHandled
      BY <1>2, ActorAssumptions, SAP!AskHandlers
    <2>2. 1 \in SAP!Asks /\ Head(mailbox) = mailbox[1]
      BY <2>1, ActorAssumptions, SAP!ReceiveShifts DEF SAP!AskHandled, SAP!Asks
    <2>3. p \in Request /\ Head(mailbox).kind = Kind[p]
      BY <2>2, ActorAssumptions, SAP!VersionsAreNumbers DEF SAP!AsksAreTyped
    <2>4. ASSUME NEW r \in Request, r[2] = "secret", reply'[r] = "answered"
          PROVE  answer'[r] \in Secret
      <3>1. CASE reply[r] = "answered"
        <4>1. answer'[r] = answer[r]
          BY <1>2, <3>1, ActorAssumptions, SAP!RunTouchesWaiting DEF SAP!Run
        <4> QED  BY <2>4, <3>1, <4>1 DEF SecretInv, SecretsAnswered
      <3>2. CASE reply[r] # "answered"
        <4>1. r = p /\ reply[p] = "waiting"
          BY <2>1, <2>3, <2>4, <3>2 DEF SAP!AskHandled
        <4>2. Kind[r] = "Decrypt"
          BY <2>4 DEF Kind
        <4>3. SAP!HandleDecrypt
          BY <1>2, <2>3, <4>1, <4>2 DEF SAP!HandleGetStatus, SAP!HandleCertificatePublicDer, SAP!Receive
        <4>4. answer'[r] = Head(mailbox).data
          BY <2>4, <4>1, <4>3 DEF SAP!HandleDecrypt, SAP!Deliver, SAP!Resolve, SAP!TypeOK
        <4> QED  BY <2>2, <2>4, <4>1, <4>4 DEF SecretInv, SecretsAsked
      <3> QED  BY <3>1, <3>2
    <2> QED  BY <1>1, <2>1, <2>4 DEF SAP!AskHandled, SecretInv, SecretsAnswered
  <1>3. CASE SAP!HandleUpdateConfig \/ SAP!HandleStartListener \/ SAP!HandleShutdown
    <2>1. SAP!ControlHandled
      BY <1>3, ActorAssumptions, SAP!ControlHandlers
    <2> QED  BY <1>1, <2>1 DEF SAP!ControlHandled, SecretInv, SecretsAnswered
  <1>4. CASE SAP!Stop
    <2>1. SAP!Asks' = {}
      BY <1>4 DEF SAP!Stop, SAP!Asks
    <2>2. \A r \in Request : reply'[r] = "answered" => reply[r] = "answered"
      BY <1>4 DEF SAP!Stop
    <2> QED  BY <1>4, <2>1, <2>2 DEF SAP!Stop, SecretInv, SecretsAsked, SecretsAnswered
  <1> QED  BY <1>2, <1>3, <1>4 DEF SAP!Run

(* Whatever the step is to the actor, secrets stay secrets. *)
LEMMA SecretStep ==
  ASSUME SAP!TypeOK, SAP!AsksAreTyped, SecretInv, ActorStep
  PROVE  SecretInv'
  <1>1. CASE (\E v \in Version : SAP!PostUpdate(v)) \/ SAP!SendControl(SAP!StartMsg)
               \/ SAP!SendControl(SAP!ShutdownMsg)
    <2>1. SAP!ControlSent
      BY <1>1, ActorAssumptions, SAP!ControlSenders
    <2> QED  BY <2>1, SecretControl
  <1>2. ASSUME UNCHANGED <<mailbox, answer>>,
               \A r \in Request : reply'[r] = "answered" => reply[r] = "answered"
        PROVE  SecretInv'
    BY <1>2 DEF SecretInv, SecretsAsked, SecretsAnswered, SAP!Asks
  <1>3. ASSUME NEW p \in Request, SAP!Refuse(p) PROVE SecretInv'
    BY <1>2, <1>3 DEF SAP!Refuse, SAP!TypeOK
  <1>4. ASSUME NEW R \in SUBSET Request, SAP!DropReceivers(R) PROVE SecretInv'
    BY <1>2, <1>4 DEF SAP!DropReceivers
  <1>5. CASE UNCHANGED serverVars
    BY <1>2, <1>5 DEF serverVars
  <1> QED  BY <1>1, <1>3, <1>4, <1>5, SecretAsk, SecretRun DEF ActorStep

(***************************************************************************)
(* The invariant of the connections.                                       *)
(***************************************************************************)

(* What is proved stays proved: outcomes are final. *)
LEMMA ProofsStay ==
  ASSUME SAP!TypeOK, ActorStep, NEW c \in Conn
  PROVE  /\ TokenProved(c) => TokenProved(c)'
         /\ SecretInHand(c) => SecretInHand(c)'
  <1>1. <<c, "token">> \in Request /\ <<c, "secret">> \in Request
    BY RequestsAsked DEF Question
  <1> QED
    BY <1>1, OutcomesStay DEF TokenProved, SecretInHand, Answered, LongEnough

(* A task's step keeps what it has proved. *)
LEMMA ProvedStep ==
  ASSUME SAP!TypeOK, ConnTypes, ConnInv, NEW c \in Conn, Task(c)
  PROVE  Proved(c)'
  <1> USE DEF ConnTypes
  <1>1. Proved(c) /\ ActorStep
    BY TaskObeys DEF ConnInv
  <1>2. /\ TokenProved(c) => TokenProved(c)'
        /\ SecretInHand(c) => SecretInHand(c)'
    BY <1>1, ProofsStay
  <1>3. CASE TokenReply(c)
    <2>1. stage'[c] \in {"awaitSecret", "shutdown"} /\ encrypted' = encrypted
          /\ stage[c] = "awaitToken"
      BY <1>3 DEF TokenReply, Go
    <2>2. stage'[c] = "awaitSecret" => TokenProved(c)
      BY <1>3 DEF TokenReply, Go, TokenMatches, TokenProved
    <2> QED  BY <1>1, <1>2, <2>1, <2>2 DEF Proved
  <1>4. CASE SecretReply(c)
    <2>1. stage[c] = "awaitSecret" /\ stage'[c] = "ack" /\ SecretInHand(c)
      BY <1>4 DEF SecretReply, Go, SecretInHand
    <2> QED  BY <1>1, <1>2, <2>1 DEF Proved
  <1>5. ASSUME encrypted' = encrypted, stage'[c] # "awaitSecret",
               stage[c] \in {"ack", "configuration", "shutdown", "closed"}
                 => stage'[c] \in {"ack", "configuration", "shutdown", "closed"}
        PROVE  Proved(c)'
    BY <1>1, <1>2, <1>5 DEF Proved
  <1>6. CASE ReadHandshake(c) \/ ReadStatusRequest(c) \/ ReadPing(c) \/ ReadLoginStart(c)
               \/ ReadEncryptionResponse(c) \/ ReadAck(c)
    BY <1>5, <1>6 DEF ReadHandshake, ReadStatusRequest, ReadPing, ReadLoginStart,
         ReadEncryptionResponse, ReadAck, Read, Go
  <1>7. CASE AskStatus(c) \/ AskDer(c) \/ AskToken(c) \/ AskSecret(c)
    BY <1>5, <1>7 DEF AskStatus, AskDer, AskToken, AskSecret, AskServer, AskFails, Drop, Go
  <1>8. CASE ReadFails(c) \/ Configure(c) \/ Shutdown(c) \/ SecretFails(c)
               \/ StatusReply(c) \/ DerReply(c)
    BY <1>5, <1>8 DEF ReadFails, Configure, Shutdown, SecretFails, StatusReply, DerReply,
         Finish, Drop, Go
  <1> QED  BY <1>3, <1>4, <1>6, <1>7, <1>8 DEF Task

(* A task's step keeps the invariant of every connection. *)
LEMMA TaskStep ==
  ASSUME SAP!TypeOK, SAP!ShutdownAbandonsNothing, ConnTypes, ConnInv, NEW c \in Conn, Task(c)
  PROVE  ConnInv'
  <1>1. out' \in [Conn -> Heard] /\ Said(c)' /\ Held(c)' /\ Proved(c)'
    BY SaidStep, HeldStep, ProvedStep
  <1>2. ASSUME NEW d \in Conn \ {c} PROVE Said(d)' /\ Held(d)' /\ Proved(d)'
    <2>1. /\ stage'[d] = stage[d] /\ encrypted'[d] = encrypted[d]
          /\ out'[d] = out[d] /\ unwritten'[d] = unwritten[d]
          /\ \A q \in Question : reply'[<<d, q>>] = reply[<<d, q>>]
      BY OthersUntouched
    <2>2. Said(d) /\ Held(d) /\ Proved(d)
      BY DEF ConnInv
    <2>3. Said(d)'
      BY <2>1, <2>2 DEF Said, Whole, StatusUnwritten
    <2>4. Held(d)'
      BY <2>1, <2>2 DEF Held, InFlight, Question
    <2>5. /\ TokenProved(d) => TokenProved(d)'
          /\ SecretInHand(d) => SecretInHand(d)'
      BY TaskObeys, ProofsStay DEF ConnTypes
    <2>6. Proved(d)'
      BY <2>1, <2>2, <2>5 DEF Proved
    <2> QED  BY <2>3, <2>4, <2>6
  <1> QED  BY <1>1, <1>2 DEF ConnInv

(* The server actor, the updates and the control messages.                 *)
LEMMA ActorKeepsConn ==
  ASSUME SAP!TypeOK, ConnInv, UNCHANGED <<stage, encrypted, sentVars>>,
         \/ SAP!Run \/ \E v \in Version : SAP!PostUpdate(v)
         \/ SAP!SendControl(SAP!StartMsg) \/ SAP!SendControl(SAP!ShutdownMsg)
         \/ UNCHANGED serverVars
  PROVE  ConnInv'
  <1>1. ActorStep
    BY DEF ActorStep
  <1>2. ASSUME NEW c \in Conn, NEW q \in Question, InFlight(c, q) PROVE InFlight(c, q)'
    <2>1. CASE SAP!Run
      BY <1>2, <2>1, ActorAssumptions, RequestsAsked, SAP!RunTouchesWaiting DEF InFlight
    <2>2. CASE UNCHANGED reply
      BY <1>2, <2>2 DEF InFlight
    <2> QED  BY <2>1, <2>2 DEF SAP!PostUpdate, SAP!TrySendUpdate, SAP!SendControl, serverVars
  <1>3. ASSUME NEW c \in Conn PROVE Said(c)' /\ Held(c)' /\ Proved(c)'
    <2>1. Said(c) /\ Held(c) /\ Proved(c)
      BY DEF ConnInv
    <2>2. Said(c)'
      BY <2>1 DEF Said, Whole, StatusUnwritten, sentVars
    <2>3. Held(c)'
      BY <1>2, <2>1 DEF Held, Question
    <2>4. /\ TokenProved(c) => TokenProved(c)'
          /\ SecretInHand(c) => SecretInHand(c)'
      BY <1>1, ProofsStay
    <2>5. Proved(c)'
      BY <2>1, <2>4 DEF Proved
    <2> QED  BY <2>2, <2>3, <2>5
  <1> QED  BY <1>3 DEF ConnInv, sentVars

(* Every step keeps it. *)
LEMMA ConnStep ==
  SAP!IndInv /\ ConnTypes /\ ConnInv /\ [Next]_vars => ConnInv'
  <1> SUFFICES ASSUME SAP!IndInv, ConnTypes, ConnInv, [Next]_vars PROVE ConnInv'
    OBVIOUS
  <1>1. SAP!TypeOK /\ SAP!ShutdownAbandonsNothing
    BY DEF SAP!IndInv
  <1>2. ASSUME NEW c \in Conn, Task(c) PROVE ConnInv'
    BY <1>1, <1>2, TaskStep
  <1>3. CASE ServerStep \/ StartServer \/ ShutdownServer \/ UNCHANGED vars
    BY <1>1, <1>3, SameActor, ActorKeepsConn
       DEF ServerStep, StartServer, ShutdownServer, connVars, vars
  <1>4. ASSUME NEW v \in Version, UpdateConfig(v) PROVE ConnInv'
    BY <1>1, <1>4, SameActor, ActorKeepsConn DEF UpdateConfig, connVars
  <1>5. ASSUME NEW c \in Conn, PeerSend(c) PROVE ConnInv'
    BY <1>1, <1>5, ActorKeepsConn DEF PeerSend
  <1>6. ASSUME NEW c \in Conn, Accept(c) PROVE ConnInv'
    <2>1. /\ stage[c] = "idle" /\ stage' = [stage EXCEPT ![c] = "handshake"]
          /\ UNCHANGED <<serverVars, encrypted, sentVars>>
      BY <1>6 DEF Accept
    <2>2. ASSUME NEW d \in Conn PROVE Said(d)' /\ Held(d)' /\ Proved(d)'
      <3>1. Said(d) /\ Held(d) /\ Proved(d)
        BY DEF ConnInv
      <3>2. \/ stage'[d] = stage[d]
            \/ (stage[d] = "idle" /\ stage'[d] = "handshake")
        BY <2>1 DEF ConnTypes
      <3>3. Said(d)'
        BY <2>1, <3>1, <3>2 DEF Said, Whole, StatusUnwritten, sentVars
      <3>4. Held(d)'
        BY <2>1, <3>1, <3>2 DEF Held, InFlight, serverVars
      <3>5. Proved(d)'
        BY <2>1, <3>1, <3>2
           DEF Proved, TokenProved, SecretInHand, Answered, LongEnough, serverVars
      <3> QED  BY <3>3, <3>4, <3>5
    <2> QED  BY <2>1, <2>2 DEF ConnInv, sentVars
  <1> QED  BY <1>2, <1>3, <1>4, <1>5, <1>6 DEF Next, Outside

(* It holds at first ... *)
LEMMA ConnInit == Init => ConnInv /\ SecretInv
  <1> SUFFICES ASSUME Init PROVE ConnInv /\ SecretInv
    OBVIOUS
  <1>1. SAP!Init
    BY SameActor DEF Init
  <1>2. ConnInv
    BY DEF Init, ConnInv, Heard, Said, Whole, StatusUnwritten, Held, Proved
  <1>3. SecretInv
    BY <1>1 DEF SAP!Init, SecretInv, SecretsAsked, SecretsAnswered, SAP!Asks
  <1> QED  BY <1>2, <1>3

(* ... and always. *)
LEMMA ConnHolds == SafeSpec => [](ConnInv /\ SecretInv)
  <1>1. SAP!IndInv /\ ConnTypes /\ SecretInv /\ [Next]_vars => SecretInv'
    BY StepObeys, SecretStep DEF SAP!IndInv, ConnTypes
  <1> QED  BY <1>1, ConnInit, ConnStep, TypesHold, ActorInvariant, PTL DEF SafeSpec

(***************************************************************************)
(* What the runs check, for every instance.                                *)
(***************************************************************************)

(* What a peer hears is packets, each in clear or encrypted. *)
LEMMA HeardTyped ==
  \A h \in Heard : \A i \in DOMAIN h : h[i].encrypted \in BOOLEAN
  <1>1. \A p : Clear(p).encrypted = FALSE
    BY DEF Clear
  <1>2. \A x : \A i \in DOMAIN <<x>> : <<x>>[i] = x
    OBVIOUS
  <1>3. \A x, y : \A i \in DOMAIN <<x, y>> : <<x, y>>[i] \in {x, y}
    OBVIOUS
  <1>4. \A i \in DOMAIN <<>> : FALSE
    OBVIOUS
  <1>5. \A h \in {StatusSent, Pong, Challenge} : \A i \in DOMAIN h : h[i].encrypted \in BOOLEAN
    BY <1>1, <1>2 DEF StatusSent, Pong, Challenge
  <1>6. ASSUME NEW x, NEW y, x.encrypted \in BOOLEAN, y.encrypted \in BOOLEAN
        PROVE  \A i \in DOMAIN <<x, y>> : <<x, y>>[i].encrypted \in BOOLEAN
    <2>1. \A z \in {x, y} : z.encrypted \in BOOLEAN
      BY <1>6
    <2> QED  BY <1>3, <2>1
  <1>7. /\ \A i \in DOMAIN StatusDialogue : StatusDialogue[i].encrypted \in BOOLEAN
        /\ \A i \in DOMAIN LoginDialogue : LoginDialogue[i].encrypted \in BOOLEAN
    <2> DEFINE status == Clear("StatusResponse")
               pong == Clear("PingResponse")
               challenge == Clear("EncryptionRequest")
               success == [packet |-> "LoginSuccess", encrypted |-> TRUE]
    <2>1. \A x \in {status, pong, challenge, success} : x.encrypted \in BOOLEAN
      <3>1. status.encrypted = FALSE /\ pong.encrypted = FALSE /\ challenge.encrypted = FALSE
        BY <1>1
      <3>2. success.encrypted = TRUE
        OBVIOUS
      <3> HIDE DEF status, pong, challenge, success
      <3> QED  BY <3>1, <3>2
    <2>2. StatusDialogue = <<status, pong>> /\ LoginDialogue = <<challenge, success>>
      BY DEF StatusDialogue, LoginDialogue
    <2> HIDE DEF status, pong, challenge, success
    <2>3. \A i \in DOMAIN <<status, pong>> : <<status, pong>>[i].encrypted \in BOOLEAN
      BY <1>6, <2>1
    <2>4. \A i \in DOMAIN <<challenge, success>> :
            <<challenge, success>>[i].encrypted \in BOOLEAN
      BY <1>6, <2>1
    <2> QED  BY <2>2, <2>3, <2>4
  <1> QED  BY <1>4, <1>5, <1>7 DEF Heard

(* The prefixes of a dialogue of two packets, and of one. *)
LEMMA PairPrefixes ==
  ASSUME NEW x, NEW y
  PROVE  /\ IsPrefix(<<x>>, <<x>>)
         /\ IsPrefix(<<>>, <<x, y>>) /\ IsPrefix(<<x>>, <<x, y>>) /\ IsPrefix(<<x, y>>, <<x, y>>)
  <1> DEFINE S == {x, y}
  <1>1. <<>> \in Seq(S) /\ <<x>> \in Seq(S) /\ <<x, y>> \in Seq(S)
    OBVIOUS
  <1>2. Len(<<>>) = 0 /\ Len(<<x>>) = 1 /\ Len(<<x, y>>) = 2
    OBVIOUS
  <1>3. <<x, y>>[1] = x /\ <<x>>[1] = x
    OBVIOUS
  <1> HIDE DEF S
  <1>4. SubSeq(<<>>, 1, 0) = <<>> /\ SubSeq(<<x, y>>, 1, 0) = <<>>
    BY <1>1, SubSeqEmpty
  <1>5. SubSeq(<<x>>, 1, 1) = <<x>> /\ SubSeq(<<x, y>>, 1, 2) = <<x, y>>
    BY <1>1, <1>2, SubSeqFull
  <1>6. SubSeq(<<x, y>>, 1, 1) = <<x>>
    <2> DEFINE t == SubSeq(<<x, y>>, 1, 1)
    <2>1. t \in Seq(S) /\ Len(t) = 1 /\ t[1] = <<x, y>>[1]
      BY <1>1, <1>2, SubSeqProperties
    <2> HIDE DEF t
    <2>2. \A i \in 1..1 : t[i] = <<x>>[i]
      BY <1>3, <2>1
    <2>3. t = <<x>>
      BY <1>1, <1>2, <2>1, <2>2, SeqEqual
    <2> QED  BY <2>3 DEF t
  <1> QED  BY <1>2, <1>4, <1>5, <1>6 DEF IsPrefix

(* The state of the connections keeps its types, with that of the actor.   *)
THEOREM TypeCorrect == SafeSpec => []TypeOK
  <1>1. SAP!IndInv /\ ConnTypes /\ ConnInv => TypeOK
    <2> SUFFICES ASSUME SAP!IndInv, ConnTypes, ConnInv PROVE TypeOK
      OBVIOUS
    <2>1. SA!TypeOK
      BY DEF SAP!IndInv, SAP!TypeOK, SA!TypeOK, SAP!Message, SA!Message, SAP!AskKind, SA!AskKind,
             SAP!ShutdownMsg, SA!ShutdownMsg, SAP!StartMsg, SA!StartMsg, SAP!Answers, SA!Answers,
             SAP!PublicDer, SA!PublicDer
    <2>2. \A c \in Conn : \A i \in DOMAIN out[c] : out[c][i].encrypted \in BOOLEAN
      BY HeardTyped DEF ConnInv
    <2>3. stage \in [Conn -> ReadStage \cup AskStage \cup AwaitStage \cup EndStage
                               \cup {"idle", "configuration", "shutdown"}]
      BY StagesNamed DEF ConnTypes
    <2> QED  BY <2>1, <2>2, <2>3 DEF TypeOK, ConnTypes
  <1> QED  BY <1>1, TypesHold, ActorInvariant, ConnHolds, PTL

(* What is sent to a peer is a prefix of a whole dialogue, less a status   *)
(* that did not serialise.                                                 *)
THEOREM WholeDialogues == SafeSpec => []DialoguesAreWhole
  <1>1. /\ \A h \in {<<>>, Challenge, LoginDialogue} : IsPrefix(h, LoginDialogue)
        /\ \A h \in {StatusSent, StatusDialogue} : IsPrefix(h, StatusDialogue)
        /\ IsPrefix(Pong, Pong)
    BY PairPrefixes DEF StatusSent, StatusDialogue, Pong, Challenge, LoginDialogue
  <1>2. ConnInv => DialoguesAreWhole
    BY <1>1 DEF ConnInv, Said, Whole, StatusUnwritten, DialoguesAreWhole, StatusHeard, Pong
  <1> QED  BY <1>2, ConnHolds, PTL

(* Encryption begins with the connection's own token proved, and a secret  *)
(* that is long enough, for any number of connections in the one queue.    *)
THEOREM ProofBeforeEncryption == SafeSpec => []EncryptedOnlyAfterProof
  <1>1. ConnTypes /\ ConnInv /\ SecretInv => EncryptedOnlyAfterProof
    <2> SUFFICES ASSUME ConnTypes, ConnInv, SecretInv, NEW c \in Conn, encrypted[c]
                 PROVE  /\ Answered(c, "token") /\ answer[<<c, "token">>] = Token[c]
                        /\ Answered(c, "secret") /\ answer[<<c, "secret">>] \in {KeyLen, KeyLen + 1}
      BY DEF EncryptedOnlyAfterProof
    <2>1. encrypted[c] = TRUE
      BY DEF ConnTypes
    <2>2. TokenProved(c) /\ SecretInHand(c)
      BY <2>1 DEF ConnInv, Proved
    <2>3. answer[<<c, "secret">>] \in Secret /\ answer[<<c, "secret">>] >= KeyLen
      BY <2>2, RequestsAsked DEF SecretInHand, LongEnough, Answered, SecretInv, SecretsAnswered, Question
    <2>4. answer[<<c, "secret">>] \in {KeyLen, KeyLen + 1}
      BY <2>3 DEF Secret, KeyLen
    <2> QED  BY <2>2, <2>4 DEF TokenProved, SecretInHand
  <1> QED  BY <1>1, TypesHold, ConnHolds, PTL

(* What a task awaits without a timer is answered, closed or in the queue. *)
THEOREM AwaitsAreSafe == SafeSpec => []AwaitsResolve
  <1>1. SAP!IndInv /\ ConnInv => AwaitsResolve
    <2> SUFFICES ASSUME SAP!IndInv, ConnInv, NEW c \in Conn, stage[c] \in AwaitStage,
                        ~Answered(c, Awaited(c)), ~Closed(c, Awaited(c))
                 PROVE  \E m \in SA!Queued : SA!IsAsk(m) /\ m.reply_to = <<c, Awaited(c)>>
      BY DEF AwaitsResolve
    <2>1. InFlight(c, Awaited(c)) /\ Awaited(c) \in Question
      BY DEF ConnInv, Held, Awaited, AwaitStage, Question
    <2>2. reply[<<c, Awaited(c)>>] = "waiting"
      BY <2>1 DEF InFlight, Answered, Closed
    <2>3. PICK i \in SAP!Asks : mailbox[i].reply_to = <<c, Awaited(c)>>
      BY <2>1, <2>2, RequestsAsked DEF SAP!IndInv, SAP!WaitingIsQueued
    <2> QED  BY <2>3 DEF SAP!Asks, SAP!IsAsk, SAP!AskKind, SA!Queued, SA!IsAsk, SA!AskKind
  <1> QED  BY <1>1, ActorInvariant, ConnHolds, PTL
=============================================================================
