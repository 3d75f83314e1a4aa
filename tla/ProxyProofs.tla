---------------------------- MODULE ProxyProofs ----------------------------
(***************************************************************************)
(* Proofs about the process, for any number of updates, any capacity of    *)
(* the channel and any set of connections.                                 *)
(*                                                                         *)
(* As in ClientActorsProofs, the server actor is used as ServerActor       *)
(* allows, except by Spawn, which gives it its first configuration: its    *)
(* invariant is established there anew, since nothing was sent before.     *)
(* What an update may do to the listing rests on the order of the versions *)
(* all the way from the row to the listing (OrderInv).                     *)
(***************************************************************************)
EXTENDS Proxy, SequenceTheorems, FiniteSetTheorems, TLAPS

SAP == INSTANCE ServerActorProofs WITH
  Request <- Conn, Kind <- [c \in Conn |-> "GetStatus"], Payload <- {0}

(* What the server actor assumes of its constants. *)
LEMMA ActorAssumptions ==
  /\ SAP!KindAssumption /\ SAP!CapacityAssumption
  /\ SAP!VersionAssumption /\ SAP!PayloadAssumption
  BY CapacityAssumption, BoundAssumption
     DEF Version, SAP!KindAssumption, SAP!CapacityAssumption, SAP!VersionAssumption,
         SAP!PayloadAssumption, SAP!AskKind

(* SA and SAP are instances of one module. *)
LEMMA SameActor ==
  /\ SA!Run <=> SAP!Run
  /\ SA!Init <=> SAP!Init
  /\ \A v \in Version : SA!TrySendUpdate(v) <=> SAP!TrySendUpdate(v)
  /\ \A c \in Conn : SA!Ask(c, 0) <=> SAP!Ask(c, 0)
  /\ SA!SendControl(SA!StartMsg) <=> SAP!SendControl(SAP!StartMsg)
  /\ SA!TypeOK <=> SAP!TypeOK
  <1>1. SA!HandleGetStatus <=> SAP!HandleGetStatus
    BY DEF SA!HandleGetStatus, SAP!HandleGetStatus, SA!Receive, SAP!Receive,
           SA!Deliver, SAP!Deliver, SA!Resolve, SAP!Resolve
  <1>2. SA!HandleCertificatePublicDer <=> SAP!HandleCertificatePublicDer
    BY DEF SA!HandleCertificatePublicDer, SAP!HandleCertificatePublicDer,
           SA!Receive, SAP!Receive, SA!Deliver, SAP!Deliver, SA!Resolve,
           SAP!Resolve, SA!PublicDer, SAP!PublicDer
  <1>3. SA!HandleDecrypt <=> SAP!HandleDecrypt
    BY DEF SA!HandleDecrypt, SAP!HandleDecrypt, SA!Receive, SAP!Receive,
           SA!Deliver, SAP!Deliver, SA!Resolve, SAP!Resolve, SA!Decryptable,
           SAP!Decryptable
  <1>4. /\ SA!HandleUpdateConfig <=> SAP!HandleUpdateConfig
        /\ SA!HandleStartListener <=> SAP!HandleStartListener
        /\ SA!HandleShutdown <=> SAP!HandleShutdown
    BY DEF SA!HandleUpdateConfig, SAP!HandleUpdateConfig,
           SA!HandleStartListener, SAP!HandleStartListener, SA!HandleShutdown,
           SAP!HandleShutdown, SA!Receive, SAP!Receive, SA!TrackedTasks,
           SAP!TrackedTasks
  <1>5. SA!Stop <=> SAP!Stop
    BY DEF SA!Stop, SAP!Stop, SA!StopWhen, SAP!StopWhen, SA!Queued, SAP!Queued,
           SA!IsAsk, SAP!IsAsk, SA!AskKind, SAP!AskKind
  <1>6. SA!Run <=> SAP!Run
    BY <1>1, <1>2, <1>3, <1>4, <1>5 DEF SA!Run, SAP!Run
  <1>7. /\ SA!Init <=> SAP!Init
        /\ \A v \in Version : SA!TrySendUpdate(v) <=> SAP!TrySendUpdate(v)
    BY DEF SA!Init, SAP!Init, SA!TrySendUpdate, SAP!TrySendUpdate, SA!Enqueue,
           SAP!Enqueue, SA!HasRoom, SAP!HasRoom, SA!UpdateMsg, SAP!UpdateMsg
  <1>8. /\ \A c \in Conn : SA!Ask(c, 0) <=> SAP!Ask(c, 0)
        /\ SA!SendControl(SA!StartMsg) <=> SAP!SendControl(SAP!StartMsg)
    BY DEF SA!Ask, SAP!Ask, SA!SendControl, SAP!SendControl, SA!Enqueue,
           SAP!Enqueue, SA!HasRoom, SAP!HasRoom, SA!AskMsg, SAP!AskMsg,
           SA!StartMsg, SAP!StartMsg
  <1>9. SA!TypeOK <=> SAP!TypeOK
    BY DEF SA!TypeOK, SAP!TypeOK, SA!Message, SAP!Message, SA!AskKind, SAP!AskKind,
           SA!ShutdownMsg, SAP!ShutdownMsg, SA!StartMsg, SAP!StartMsg, SA!Answers,
           SAP!Answers, SA!PublicDer, SAP!PublicDer
  <1> QED  BY <1>6, <1>7, <1>8, <1>9

(***************************************************************************)
(* The server actor's own steps.                                           *)
(***************************************************************************)

(* They keep its invariant and never take the listing back; and without a  *)
(* post, the newest configuration posted stays.                            *)
LEMMA ActorStep ==
  ASSUME SAP!IndInv, SAP!Next \/ UNCHANGED serverVars
  PROVE  SAP!IndInv' /\ listing' \in Nat /\ listing' >= listing
  <1>1. UNCHANGED serverVars => UNCHANGED SAP!vars
    BY DEF serverVars, SAP!vars
  <1>2. [SAP!Next]_(SAP!vars)
    BY <1>1
  <1>3. SAP!TypeOK /\ SAP!RequestInv /\ SAP!FreshInv
    BY DEF SAP!IndInv, SAP!RequestInv, SAP!FreshInv
  <1>4. SAP!TypeOK' /\ SAP!RequestInv' /\ SAP!FreshInv'
    BY <1>2, <1>3, ActorAssumptions, SAP!TypeStep, SAP!RequestStep, SAP!FreshStep
  <1>5. SAP!IndInv'
    BY <1>4 DEF SAP!IndInv, SAP!RequestInv, SAP!FreshInv
  <1>6. listing \in Nat /\ listing' \in Nat
    BY <1>3, <1>4, BoundAssumption DEF SAP!TypeOK, Version
  <1>7. CASE SAP!HandleUpdateConfig
    <2>1. listing' > listing
      BY <1>3, <1>7, ActorAssumptions, SAP!UpdateKeepsOrder DEF SAP!FreshInv
    <2> QED  BY <1>5, <1>6, <2>1
  <1>8. CASE ~SAP!HandleUpdateConfig
    <2>1. listing' = listing
      BY <1>8 DEF serverVars, SAP!Next, SAP!Run, SAP!Callers, SAP!Ask, SAP!Refuse,
           SAP!DropReceivers, SAP!PostUpdate, SAP!TrySendUpdate, SAP!SendControl,
           SAP!HandleGetStatus, SAP!HandleCertificatePublicDer, SAP!HandleDecrypt,
           SAP!HandleStartListener, SAP!HandleShutdown, SAP!Stop
    <2> QED  BY <1>5, <1>6, <2>1
  <1> QED  BY <1>7, <1>8

(* Run posts nothing. *)
LEMMA RunPostsNothing == SAP!Run => posted' = posted
  BY DEF SAP!Run, SAP!HandleGetStatus, SAP!HandleCertificatePublicDer, SAP!HandleDecrypt,
         SAP!HandleUpdateConfig, SAP!HandleStartListener, SAP!HandleShutdown, SAP!Stop

(***************************************************************************)
(* The invariant.                                                          *)
(***************************************************************************)

Stages ==
  {"connecting", "connected", "polling", "spawning", "starting", "started", "serving",
   "joining", "exited", "panicked"}

ProcessTypes ==
  /\ row \in Version /\ stream \in Seq(Version)
  /\ cached \in Version \cup {None} /\ config \in Version \cup {None}
  /\ callback \in {"none", "requested", "registered"} /\ seen \in Version
  /\ thread \in {"none", "running", "leaving", "done", "failed"}
  /\ subscribed \in BOOLEAN /\ lost \in BOOLEAN
  /\ stage \in Stages
  /\ accepting \in {"none", "binding", "accepting", "dead"}

(* Main can be without a running database thread only when that was lost,  *)
(* or when main itself told it to leave.                                   *)
ThreadInv ==
  /\ stage \in {"connected", "polling", "spawning", "starting", "started", "serving"}
       => thread = "running" \/ lost = TRUE
  /\ thread = "leaving" => stage = "joining"
  /\ thread = "failed" => lost = TRUE

(* There is an actor, and someone to talk to it, only after Spawn, and     *)
(* not if that panicked.                                                   *)
SpawnsActor == Spawn /\ stage' = "starting"
Unbuilt == stage = "panicked" /\ mailbox = <<>>
Spawned == config # None /\ stage # "spawning"
StartInv ==
  /\ stage \in {"spawning", "starting", "started", "serving", "joining", "exited"} => config # None
  /\ stage \in {"connecting", "connected", "polling"} => config = None
  /\ stage \in {"starting", "started"} => callback = "none"
  /\ ~Spawned =>
       /\ mailbox = <<>> /\ \A c \in Conn : reply[c] = "unasked"
       /\ listing = 0 /\ posted = 0
       /\ accepting = "none" /\ callback = "none"

(* Versions ascend from what main started from to the row of the database. *)
OrderInv ==
  /\ subscribed = FALSE => stream = <<>> /\ cached = None
  /\ stage \in {"connecting", "connected"} => subscribed = FALSE
  /\ \A i \in 1..Len(stream) : stream[i] <= row
  /\ \A i, j \in 1..Len(stream) : i < j => stream[i] < stream[j]
  /\ cached # None => cached <= row /\ \A i \in 1..Len(stream) : cached < stream[i]
  /\ config # None => cached # None /\ config <= cached
  /\ Spawned => Unbuilt \/ (config <= listing /\ posted <= cached)

Inv == SAP!IndInv /\ ProcessTypes /\ ThreadInv /\ StartInv /\ OrderInv

(***************************************************************************)
(* What a step is to the server actor.                                     *)
(***************************************************************************)

(* The stream loses its head in order. *)
LEMMA StreamShifts ==
  ASSUME ProcessTypes, OrderInv, stream # <<>>, stream' = Tail(stream)
  PROVE  /\ Head(stream) \in Version /\ Head(stream) <= row
         /\ cached # None => cached < Head(stream)
         /\ stream' \in Seq(Version)
         /\ \A i \in 1..Len(stream') : stream'[i] <= row /\ Head(stream) < stream'[i]
         /\ \A i, j \in 1..Len(stream') : i < j => stream'[i] < stream'[j]
  <1>1. stream \in Seq(Version) /\ Len(stream) \in Nat
    BY LenProperties DEF ProcessTypes
  <1>2. Head(stream) = stream[1] /\ Len(stream) >= 1 /\ Head(stream) \in Version
    BY <1>1, HeadTailProperties, EmptySeq
  <1>3. /\ stream' \in Seq(Version) /\ Len(stream') = Len(stream) - 1
        /\ \A i \in 1..Len(stream') : stream'[i] = stream[i + 1]
    BY <1>1, HeadTailProperties
  <1>4. \A i \in 1..Len(stream') : i + 1 \in 1..Len(stream) /\ 1 < i + 1
    BY <1>1, <1>2, <1>3
  <1>5. 1 \in 1..Len(stream)
    BY <1>1, <1>2
  <1>6. \A i \in 1..Len(stream') : stream'[i] <= row /\ Head(stream) < stream'[i]
    BY <1>2, <1>3, <1>4, <1>5 DEF OrderInv
  <1>7. ASSUME NEW i \in 1..Len(stream'), NEW j \in 1..Len(stream'), i < j
        PROVE  stream'[i] < stream'[j]
    <2>1. i + 1 < j + 1
      BY <1>7
    <2> QED  BY <1>3, <1>4, <2>1 DEF OrderInv
  <1> QED  BY <1>2, <1>3, <1>5, <1>6, <1>7 DEF OrderInv

(* The newest version goes to the end of the stream, in order. *)
LEMMA StreamGrows ==
  ASSUME ProcessTypes, OrderInv, NEW v \in Version, stream' = Append(stream, v), row' \in Version,
         row <= row', v = row',
         \A i \in 1..Len(stream) : stream[i] < v,
         cached # None => cached < v
  PROVE  /\ stream' \in Seq(Version)
         /\ \A i \in 1..Len(stream') : stream'[i] <= row' /\ (cached # None => cached < stream'[i])
         /\ \A i, j \in 1..Len(stream') : i < j => stream'[i] < stream'[j]
  <1>1. stream \in Seq(Version) /\ Len(stream) \in Nat
    BY LenProperties DEF ProcessTypes
  <1>2. /\ stream' \in Seq(Version) /\ Len(stream') = Len(stream) + 1
        /\ \A i \in 1..Len(stream) : stream'[i] = stream[i]
        /\ stream'[Len(stream) + 1] = v
    BY <1>1, AppendProperties
  <1>3. \A i \in 1..Len(stream) : stream[i] \in Version
    BY <1>1, ElementOfSeq
  <1>4. v <= row' /\ \A i \in 1..Len(stream) : stream[i] <= row'
    BY <1>3, BoundAssumption DEF Version
  <1>5. \A i \in 1..Len(stream') : i \in 1..Len(stream) \/ i = Len(stream) + 1
    BY <1>1, <1>2
  <1>6. \A i \in 1..Len(stream') : stream'[i] <= row' /\ (cached # None => cached < stream'[i])
    BY <1>2, <1>4, <1>5 DEF OrderInv
  <1>7. ASSUME NEW i \in 1..Len(stream'), NEW j \in 1..Len(stream'), i < j
        PROVE  stream'[i] < stream'[j]
    <2>1. i \in 1..Len(stream)
      BY <1>1, <1>2, <1>7
    <2> QED  BY <1>2, <1>5, <1>7, <2>1 DEF OrderInv
  <1> QED  BY <1>2, <1>6, <1>7

(* A transaction that the callback is given is newer than what was posted. *)
LEMMA UpdateObeys ==
  ASSUME Inv, ApplyTransaction
  PROVE  /\ SAP!Next \/ UNCHANGED serverVars
         /\ posted' = posted \/ (callback = "registered" /\ posted' = Head(stream))
  <1>1. stream # <<>> /\ stream' = Tail(stream)
    BY DEF ApplyTransaction
  <1>2. Head(stream) \in Version /\ (cached # None => cached < Head(stream))
    BY <1>1, StreamShifts DEF Inv
  <1>3. CASE callback = "registered" /\ cached # None /\ SA!TrySendUpdate(Head(stream))
    <2>1. posted <= cached /\ cached \in Version
      BY <1>3 DEF Inv, StartInv, OrderInv, ProcessTypes, Unbuilt, ApplyTransaction, Running, Ended
    <2>2. posted \in Nat /\ cached \in Nat /\ Head(stream) \in Nat
      BY <1>2, <2>1, BoundAssumption DEF Inv, SAP!IndInv, SAP!TypeOK, Version
    <2>3. Head(stream) > posted
      BY <1>2, <1>3, <2>1, <2>2
    <2>4. SAP!PostUpdate(Head(stream))
      BY <1>2, <1>3, <2>3, SameActor DEF SAP!PostUpdate
    <2>5. posted' = Head(stream)
      BY <2>4 DEF SAP!PostUpdate, SAP!TrySendUpdate
    <2> QED  BY <1>2, <1>3, <2>4, <2>5 DEF SAP!Next, SAP!Callers
  <1>4. CASE UNCHANGED serverVars
    BY <1>4 DEF serverVars
  <1> QED  BY <1>3, <1>4 DEF ApplyTransaction, OnUpdate, TrySend

(* Nothing follows a panic.                                                *)
LEMMA PanicIsTheEnd == ASSUME stage = "panicked", [Next]_vars PROVE UNCHANGED vars
  BY DEF Next, Database, Main, Outside, ApplyTransaction, ApplyRequest, LeaveThread, Connect,
         Subscribe, Poll, Spawn, Start, Register, Disconnect, Join, ServerStep, Bind, UpdateMotd,
         LoseConnection, ListenerFails, Signal, AskStatus, Running, Ended

(* Every step is the actor's, or nothing to it, or the Spawn of it.        *)
LEMMA StepObeys ==
  ASSUME Inv, [Next]_vars, ~SpawnsActor, ~ApplyTransaction
  PROVE  (SAP!Next \/ UNCHANGED serverVars) /\ posted' = posted
  <1>1. CASE UNCHANGED serverVars
    BY <1>1 DEF serverVars
  <1>2. CASE ServerStep
    BY <1>2, SameActor, RunPostsNothing DEF ServerStep, SAP!Next
  <1>3. CASE Start
    BY <1>3, SameActor DEF Start, SAP!Next, SAP!Callers, SAP!SendControl
  <1>4. ASSUME NEW c \in Conn, AskStatus(c)
        PROVE  SAP!Next /\ posted' = posted
    <2>1. SAP!Ask(c, 0)
      BY <1>4, SameActor DEF AskStatus
    <2> QED  BY <2>1 DEF SAP!Next, SAP!Callers, SAP!Ask
  <1>5. UNCHANGED vars => UNCHANGED serverVars
    BY DEF vars, serverVars
  <1>6. Spawn => UNCHANGED serverVars
    BY DEF Spawn, SpawnsActor, serverVars
  <1> QED
    BY <1>1, <1>2, <1>3, <1>4, <1>5, <1>6
       DEF Next, Database, Main, Outside, ApplyRequest, LeaveThread, Connect, Subscribe, Poll,
           Register, Disconnect, Join, Bind, UpdateMotd, LoseConnection, ListenerFails, Signal

(* The actor's invariant holds of its first configuration: its channel is  *)
(* empty and nobody has asked.                                             *)
LEMMA SpawnObeys ==
  ASSUME Inv, SpawnsActor
  PROVE  SAP!IndInv' /\ listing' = config /\ posted' = config /\ config \in Version
  <1>1. /\ mailbox = <<>> /\ \A c \in Conn : reply[c] = "unasked"
        /\ config \in Version
    BY DEF Inv, SpawnsActor, Spawn, StartInv, Spawned, ProcessTypes
  <1>2. /\ mailbox' = <<>> /\ \A c \in Conn : reply'[c] = "unasked"
        /\ listing' = config /\ posted' = config
    BY <1>1 DEF SpawnsActor, Spawn
  <1>3. SAP!TypeOK'
    BY <1>1 DEF SpawnsActor, Spawn, Inv, SAP!IndInv, SAP!TypeOK
  <1>4. SAP!Asks' = {} /\ SAP!Updates' = {}
    BY <1>2 DEF SAP!Asks, SAP!Updates
  <1>5. SAP!WaitingIsQueued' /\ SAP!AsksAreTyped' /\ SAP!StatusAsksArePromised'
    BY <1>2, <1>4 DEF SAP!WaitingIsQueued, SAP!AsksAreTyped, SAP!StatusAsksArePromised
  <1>6. SAP!StatusIsAsOfAsk' /\ SAP!ShutdownAbandonsNothing'
    BY <1>2 DEF SAP!StatusIsAsOfAsk, SAP!ShutdownAbandonsNothing
  <1>7. SAP!UpdatesAscend'
    BY <1>2, <1>4 DEF SAP!UpdatesAscend
  <1> QED  BY <1>1, <1>2, <1>3, <1>5, <1>6, <1>7 DEF SAP!IndInv

(***************************************************************************)
(* Every step keeps the invariant.                                         *)
(***************************************************************************)

(* The actor's invariant, first Spawn's and then its own. *)
LEMMA ActorInvStep == Inv /\ [Next]_vars => SAP!IndInv'
  BY ActorStep, UpdateObeys, StepObeys, SpawnObeys DEF Inv

(* Types. *)
LEMMA TypesStep == Inv /\ [Next]_vars => ProcessTypes'
  <1> SUFFICES ASSUME Inv, [Next]_vars PROVE ProcessTypes'
    OBVIOUS
  <1>1. ProcessTypes
    BY DEF Inv
  <1>2. CASE ApplyTransaction
    <2>1. stream # <<>> /\ stream' = Tail(stream)
      BY <1>2 DEF ApplyTransaction
    <2>2. Head(stream) \in Version /\ stream' \in Seq(Version)
      BY <2>1, StreamShifts DEF Inv
    <2> QED  BY <1>1, <1>2, <2>2 DEF ApplyTransaction, OnUpdate, ProcessTypes, mainVars
  <1>3. CASE UpdateMotd
    <2>1. row' \in Version
      BY <1>1, <1>3, BoundAssumption DEF UpdateMotd, ProcessTypes, Version
    <2>2. stream' \in Seq(Version)
      BY <1>1, <1>3, <2>1, AppendProperties DEF UpdateMotd, ProcessTypes
    <2> QED  BY <1>1, <1>3, <2>1, <2>2 DEF UpdateMotd, ProcessTypes, mainVars
  <1>4. CASE Subscribe
    <2>1. stream' \in Seq(Version)
      BY <1>1, <1>4, AppendProperties DEF Subscribe, ProcessTypes
    <2> QED  BY <1>1, <1>4, <2>1 DEF Subscribe, ProcessTypes, Stages
  <1>5. CASE Connect \/ Poll \/ Spawn \/ Start \/ Register \/ Disconnect \/ Join
    BY ZenonT(30), <1>1, <1>5 DEF Connect, Poll, Spawn, Start, Register, Disconnect, Join, ProcessTypes,
         Stages, databaseVars
  <1>6. CASE ApplyRequest \/ LeaveThread \/ LoseConnection
    BY <1>1, <1>6 DEF ApplyRequest, LeaveThread, LoseConnection, ProcessTypes, mainVars
  <1>7. CASE ServerStep \/ Bind \/ ListenerFails \/ Signal \/ \E c \in Conn : AskStatus(c)
    BY <1>1, <1>7 DEF ServerStep, Bind, ListenerFails, Signal, AskStatus, ProcessTypes,
         databaseVars, mainVars
  <1>8. CASE UNCHANGED vars
    BY <1>1, <1>8 DEF vars, databaseVars, mainVars, ProcessTypes
  <1> QED
    BY <1>2, <1>3, <1>4, <1>5, <1>6, <1>7, <1>8 DEF Next, Database, Main, Outside

(* Only main or a loss ends the thread. *)
LEMMA ThreadStep == Inv /\ [Next]_vars => ThreadInv'
  <1> SUFFICES ASSUME Inv, [Next]_vars PROVE ThreadInv'
    OBVIOUS
  <1>1. ThreadInv /\ lost \in BOOLEAN
    BY DEF Inv, ProcessTypes
  <1>2. CASE ApplyTransaction \/ ApplyRequest \/ LeaveThread \/ UpdateMotd \/ LoseConnection
    BY <1>1, <1>2 DEF ApplyTransaction, OnUpdate, ApplyRequest, LeaveThread, UpdateMotd,
         LoseConnection, ThreadInv, mainVars
  <1>3. CASE Connect \/ Subscribe
    BY <1>1, <1>3 DEF Connect, Subscribe, ThreadInv
  <1>4. CASE Poll \/ Spawn \/ Start \/ Register \/ Disconnect \/ Join
    BY <1>1, <1>4 DEF Poll, Spawn, Start, Register, Disconnect, Join, ThreadInv, databaseVars
  <1>5. CASE ServerStep \/ Bind \/ ListenerFails \/ Signal \/ \E c \in Conn : AskStatus(c)
    BY <1>1, <1>5 DEF ServerStep, Bind, ListenerFails, Signal, AskStatus, ThreadInv,
         databaseVars, mainVars
  <1>6. CASE UNCHANGED vars
    BY <1>1, <1>6 DEF vars, databaseVars, mainVars, ThreadInv
  <1> QED
    BY <1>2, <1>3, <1>4, <1>5, <1>6 DEF Next, Database, Main, Outside

(* Nothing reaches the actor before Spawn. *)
LEMMA StartStep == Inv /\ [Next]_vars => StartInv'
  <1> SUFFICES ASSUME Inv, [Next]_vars PROVE StartInv'
    OBVIOUS
  <1>1. StartInv /\ config \in Version \cup {None} /\ stage \in Stages
    BY DEF Inv, ProcessTypes
  <1>2. CASE ApplyTransaction
    <2>1. Spawned \/ UNCHANGED serverVars
      BY <1>1, <1>2 DEF ApplyTransaction, StartInv
    <2> QED  BY <1>1, <1>2, <2>1 DEF ApplyTransaction, StartInv, Spawned, serverVars, mainVars
  <1>3. CASE ApplyRequest \/ LeaveThread \/ UpdateMotd \/ LoseConnection
    BY <1>1, <1>3 DEF ApplyRequest, LeaveThread, UpdateMotd, LoseConnection, StartInv, Spawned,
         serverVars, mainVars
  <1>4. CASE Connect \/ Subscribe \/ Register \/ Disconnect \/ Join
    BY <1>1, <1>4 DEF Connect, Subscribe, Register, Disconnect, Join, StartInv, Spawned,
         serverVars, databaseVars
  <1>5. CASE Poll
    BY <1>1, <1>5 DEF Poll, StartInv, Spawned, serverVars, databaseVars
  <1>6. CASE Spawn \/ Start
    BY <1>1, <1>6 DEF Spawn, Start, StartInv, Spawned, databaseVars
  <1>7. CASE ServerStep
    BY <1>1, <1>7 DEF ServerStep, StartInv, Spawned, Running, Ended, Stages, databaseVars, mainVars
  <1>8. CASE Bind \/ ListenerFails \/ Signal \/ \E c \in Conn : AskStatus(c)
    BY <1>1, <1>8 DEF Bind, ListenerFails, Signal, AskStatus, StartInv, Spawned, serverVars,
         databaseVars, mainVars
  <1>9. CASE UNCHANGED vars
    BY <1>1, <1>9 DEF vars, serverVars, databaseVars, mainVars, StartInv, Spawned
  <1> QED
    BY <1>2, <1>3, <1>4, <1>5, <1>6, <1>7, <1>8, <1>9 DEF Next, Database, Main, Outside

(* The versions that order relates are numbers. *)
LEMMA VersionsAreNumbers ==
  ASSUME Inv
  PROVE  /\ row \in Nat /\ listing \in Nat /\ posted \in Nat
         /\ cached \in Nat /\ config \in Nat
         /\ \A v \in Version : v \in Nat /\ v # None
  BY BoundAssumption DEF Inv, ProcessTypes, SAP!IndInv, SAP!TypeOK, Version, None

(* A step that leaves row, stream, cache and config alone keeps the order. *)
LEMMA QuietStep ==
  ASSUME Inv, [Next]_vars, ~SpawnsActor, ~ApplyTransaction, stage # "panicked",
         UNCHANGED <<row, stream, subscribed, cached, config>>,
         stage' \in {"connecting", "connected"} => stage \in {"connecting", "connected"},
         stage = "spawning" => stage' = "spawning"
  PROVE  OrderInv'
  <1>1. posted' = posted /\ listing' \in Nat /\ listing' >= listing
    BY StepObeys, ActorStep DEF Inv
  <1>2. Spawned' => config <= listing'
    <2>1. Spawned' => Spawned
      BY DEF Spawned, None
    <2>2. Spawned => config <= listing
      BY DEF Inv, OrderInv, Unbuilt
    <2> QED  BY <1>1, <2>1, <2>2, VersionsAreNumbers
  <1>3. Spawned' => posted' <= cached
    BY <1>1 DEF Inv, OrderInv, Spawned, Unbuilt
  <1>4. /\ subscribed' = FALSE => stream' = <<>> /\ cached' = None
        /\ stage' \in {"connecting", "connected"} => subscribed' = FALSE
    BY DEF Inv, OrderInv
  <1>5. /\ \A i \in 1..Len(stream') : stream'[i] <= row'
        /\ \A i, j \in 1..Len(stream') : i < j => stream'[i] < stream'[j]
        /\ cached' # None => cached' <= row' /\ \A i \in 1..Len(stream') : cached' < stream'[i]
        /\ config' # None => cached' # None /\ config' <= cached'
    BY DEF Inv, OrderInv
  <1> QED  BY <1>2, <1>3, <1>4, <1>5 DEF OrderInv, None

(* Versions ascend from what main started from to the row.                 *)
LEMMA OrderStep == Inv /\ [Next]_vars => OrderInv'
  <1> SUFFICES ASSUME Inv, [Next]_vars PROVE OrderInv'
    OBVIOUS
  <1>1. OrderInv /\ ProcessTypes /\ StartInv
    BY DEF Inv
  <1>2. CASE ApplyTransaction
    <2>1. stream # <<>> /\ stream' = Tail(stream) /\ cached' = Head(stream)
          /\ UNCHANGED <<row, subscribed, config, stage>> /\ ~Unbuilt
      BY <1>2 DEF ApplyTransaction, mainVars, Unbuilt, Running, Ended
    <2>2. /\ Head(stream) \in Version /\ Head(stream) <= row
          /\ cached # None => cached < Head(stream)
          /\ \A i \in 1..Len(stream') : stream'[i] <= row /\ Head(stream) < stream'[i]
          /\ \A i, j \in 1..Len(stream') : i < j => stream'[i] < stream'[j]
      BY <1>1, <2>1, StreamShifts
    <2>3. subscribed = TRUE /\ cached' # None /\ cached' \in Nat
      BY <1>1, <2>1, <2>2, VersionsAreNumbers DEF OrderInv, ProcessTypes
    <2>4. config # None => config <= cached'
      BY <1>1, <2>1, <2>2, VersionsAreNumbers DEF OrderInv
    <2>5. Spawned => config <= listing'
      <3>1. listing' \in Nat /\ listing' >= listing
        BY <1>2, UpdateObeys, ActorStep DEF Inv
      <3> QED  BY <1>1, <2>1, <3>1, VersionsAreNumbers DEF OrderInv
    <2>6. Spawned => posted' <= cached'
      <3>1. CASE posted' = posted
        BY <1>1, <2>1, <2>2, <3>1, VersionsAreNumbers DEF OrderInv, Spawned
      <3>2. CASE posted' = Head(stream)
        BY <2>1, <2>3, <3>2
      <3> QED  BY <1>2, <3>1, <3>2, UpdateObeys
    <2>7. stage' \notin {"connecting", "connected"}
      BY <1>1, <2>1, <2>3 DEF OrderInv
    <2> QED  BY <2>1, <2>2, <2>3, <2>4, <2>5, <2>6, <2>7 DEF OrderInv, Spawned, None
  <1>3. CASE UpdateMotd
    <2>1. /\ row' = row + 1 /\ row' \in Version /\ row' \in Nat
          /\ UNCHANGED <<subscribed, cached, config, stage, listing, posted, mailbox>>
          /\ stream' = IF subscribed THEN Append(stream, row') ELSE stream
      BY <1>1, <1>3, BoundAssumption, VersionsAreNumbers
         DEF UpdateMotd, ProcessTypes, Version, serverVars, mainVars
    <2>2. \A i \in 1..Len(stream) : stream[i] \in Version /\ stream[i] < row' /\ stream[i] <= row'
      <3>1. \A i \in 1..Len(stream) : stream[i] \in Version
        BY <1>1, ElementOfSeq DEF ProcessTypes
      <3>2. \A i \in 1..Len(stream) : stream[i] \in Nat /\ stream[i] <= row
        BY <1>1, <3>1, VersionsAreNumbers DEF OrderInv
      <3> QED  BY <2>1, <3>1, <3>2, VersionsAreNumbers
    <2>3. cached # None => cached < row' /\ cached <= row'
      BY <1>1, <2>1, VersionsAreNumbers DEF OrderInv
    <2>4. /\ \A i \in 1..Len(stream') : stream'[i] <= row' /\ (cached # None => cached < stream'[i])
          /\ \A i, j \in 1..Len(stream') : i < j => stream'[i] < stream'[j]
      <3>1. CASE subscribed
        <4>1. stream' = Append(stream, row') /\ row <= row'
          BY <2>1, <3>1, VersionsAreNumbers
        <4> QED  BY <1>1, <2>1, <2>2, <2>3, <4>1, StreamGrows
      <3>2. CASE ~subscribed
        BY <1>1, <2>1, <2>2, <3>2 DEF OrderInv
      <3> QED  BY <3>1, <3>2
    <2>5. subscribed' = FALSE => stream' = <<>> /\ cached' = None
      BY <1>1, <2>1 DEF OrderInv
    <2> QED  BY <1>1, <2>1, <2>3, <2>4, <2>5 DEF OrderInv, Spawned, Unbuilt, None
  <1>4. CASE Subscribe
    <2>1. /\ stage = "connected" /\ stage' = "polling" /\ config = None
          /\ UNCHANGED <<row, cached, config>>
          /\ stream = <<>> /\ cached = None /\ subscribed = FALSE
      BY <1>1, <1>4 DEF Subscribe, StartInv, OrderInv
    <2>2. CASE stream' = Append(stream, row) /\ subscribed' = TRUE
      <3>1. row <= row' /\ row' \in Version /\ Len(stream) = 0
        BY <1>1, <2>1, VersionsAreNumbers DEF ProcessTypes
      <3>2. /\ \A i \in 1..Len(stream') : stream'[i] <= row'
            /\ \A i, j \in 1..Len(stream') : i < j => stream'[i] < stream'[j]
        BY <1>1, <2>1, <2>2, <3>1, StreamGrows
      <3> QED  BY <2>1, <2>2, <3>2 DEF OrderInv, Spawned, None
    <2>3. CASE UNCHANGED <<stream, subscribed>>
      BY <1>1, <2>1, <2>3 DEF OrderInv, Spawned, None
    <2> QED  BY <1>4, <2>2, <2>3 DEF Subscribe
  <1>5. CASE Poll
    <2>1. /\ cached # None /\ config' = cached /\ stage' = "spawning"
          /\ UNCHANGED <<row, stream, subscribed, cached>>
      BY <1>5 DEF Poll, databaseVars
    <2>2. config' <= cached'
      BY <2>1, VersionsAreNumbers
    <2> QED  BY <1>1, <2>1, <2>2 DEF OrderInv, Spawned, None
  <1>6. CASE Spawn
    <2>1. /\ UNCHANGED <<mailbox, row, stream, subscribed, cached, config>>
          /\ config # None /\ mailbox = <<>> /\ stage' \in {"starting", "panicked"}
          /\ stage' # "panicked" => listing' = config /\ posted' = config
      BY <1>1, <1>6 DEF Spawn, StartInv, Spawned, databaseVars
    <2>2. Unbuilt' \/ (config <= listing' /\ posted' <= cached)
      BY <1>1, <2>1, VersionsAreNumbers DEF OrderInv, Unbuilt
    <2> QED  BY <1>1, <2>1, <2>2 DEF OrderInv, Spawned, None
  <1>7. CASE Connect \/ Start \/ Register \/ Disconnect \/ Join
    BY <1>7, QuietStep
       DEF Connect, Start, Register, Disconnect, Join, SpawnsActor, Spawn, ApplyTransaction,
           databaseVars, Poll, Subscribe, Running, Ended
  <1>8. CASE ApplyRequest \/ LeaveThread \/ LoseConnection \/ ServerStep \/ Bind
               \/ ListenerFails \/ Signal \/ (\E c \in Conn : AskStatus(c)) \/ UNCHANGED vars
    <2>1. UNCHANGED <<row, stream, subscribed, cached, config, stage>>
      BY <1>8 DEF ApplyRequest, LeaveThread, LoseConnection, ServerStep, Bind, ListenerFails,
           Signal, AskStatus, vars, databaseVars, mainVars
    <2>2. CASE stage = "panicked"
      BY <1>1, <2>1, <2>2, PanicIsTheEnd DEF vars, serverVars, OrderInv, Spawned, Unbuilt, None
    <2> QED  BY <1>2, <1>6, <2>1, <2>2, QuietStep DEF SpawnsActor
  <1> QED
    BY <1>2, <1>3, <1>4, <1>5, <1>6, <1>7, <1>8 DEF Next, Database, Main, Outside

(* The invariant holds at first: there is nothing yet.                     *)
LEMMA InvInit == Init => Inv
  <1> SUFFICES ASSUME Init PROVE Inv
    OBVIOUS
  <1>1. SAP!IndInv
    <2>1. SAP!TypeOK /\ SAP!RequestInv /\ SAP!FreshInv
      BY SameActor, ActorAssumptions, SAP!TypeInit, SAP!RequestInit, SAP!FreshInit DEF Init
    <2> QED  BY <2>1 DEF SAP!IndInv, SAP!RequestInv, SAP!FreshInv
  <1>2. ProcessTypes
    <2>1. stream \in Seq(Version) /\ 0 \in Version
      BY EmptySeq, BoundAssumption DEF Init, Version
    <2> QED  BY <2>1 DEF Init, ProcessTypes, Stages
  <1>3. ThreadInv
    BY DEF Init, ThreadInv
  <1>4. StartInv
    BY SameActor DEF Init, StartInv, Spawned, SAP!Init
  <1>5. OrderInv
    BY DEF Init, OrderInv, Spawned
  <1> QED  BY <1>1, <1>2, <1>3, <1>4, <1>5 DEF Inv

(* ... and always. *)
LEMMA InvHolds == SafeSpec => []Inv
  <1>1. Inv /\ [Next]_vars => Inv'
    BY ActorInvStep, TypesStep, ThreadStep, StartStep, OrderStep DEF Inv
  <1> QED  BY <1>1, InvInit, PTL DEF SafeSpec

(***************************************************************************)
(* What the runs check, for every instance.                                *)
(***************************************************************************)

(* The state of the process keeps its types, the actor's included.         *)
THEOREM TypeCorrect == SafeSpec => []TypeOK
  <1>1. Inv => TypeOK
    BY SameActor DEF Inv, SAP!IndInv, ProcessTypes, Stages, TypeOK
  <1> QED  BY <1>1, InvHolds, PTL

(* What the callback posts is newer than what main started from, and than  *)
(* what is listed, however many updates there are and however they meet    *)
(* main's polling of the cache.                                            *)
THEOREM OnlyNewerIsPosted == SafeSpec => []NothingOlderIsPosted
  <1>1. Inv => NothingOlderIsPosted
    <2> SUFFICES ASSUME Inv, NEW m \in SA!Queued, m.kind = "UpdateConfig"
                 PROVE  m.config > config /\ m.config > listing
      BY DEF NothingOlderIsPosted
    <2>1. PICK i \in 1..Len(mailbox) : m = mailbox[i]
      BY DEF SA!Queued
    <2>2. i \in SAP!Updates
      BY <2>1 DEF SAP!Updates
    <2>3. listing < m.config /\ m.config \in Nat
      BY <2>1, <2>2, ActorAssumptions, SAP!VersionsAreNumbers, BoundAssumption
         DEF Inv, SAP!IndInv, SAP!UpdatesAscend, Version
    <2>4. mailbox # <<>>
      BY <2>1
    <2>5. config <= listing
      BY <2>4 DEF Inv, StartInv, OrderInv, Unbuilt
    <2> QED  BY <2>3, <2>5, VersionsAreNumbers
  <1> QED  BY <1>1, InvHolds, PTL

(* Neither the callback, by way of the thread that main joins, nor the     *)
(* listener makes main panic, for any number of updates and connections:   *)
(* a panic after Spawn is the loss of the database, in Disconnect, or a    *)
(* panic of the thread that the loss caused, in Join.                      *)
THEOREM NoPanicUnlessLost == SafeSpec => PanicsOnlyWhenLost
  <1>1. ASSUME Inv, [Next]_vars, stage' = "panicked", stage # "panicked"
        PROVE  lost' \/ stage \in {"connecting", "spawning"}
    <2>1. Connect \/ Spawn \/ Disconnect \/ Join
      BY <1>1 DEF Next, Database, Main, Outside, ApplyTransaction, ApplyRequest, LeaveThread,
           Subscribe, Poll, Start, Register, ServerStep, Bind, UpdateMotd, LoseConnection,
           ListenerFails, Signal, AskStatus, vars, mainVars
    <2>2. CASE Connect \/ Spawn
      BY <2>2 DEF Connect, Spawn
    <2>3. CASE Disconnect
      BY <1>1, <2>3 DEF Disconnect, Inv, ThreadInv
    <2>4. CASE Join
      BY <1>1, <2>4 DEF Join, databaseVars, Inv, ThreadInv
    <2> QED  BY <2>1, <2>2, <2>3, <2>4
  <1> QED  BY <1>1, InvHolds, PTL DEF SafeSpec, PanicsOnlyWhenLost

(***************************************************************************)
(* The refinement: the process, with its polled first configuration, its   *)
(* updates from another thread and its faults, keeps the contract of ask.  *)
(***************************************************************************)

(* To the contract, Spawn posts the first configuration; a step of the     *)
(* actor, or of its callers, is what it is without the process.            *)
LEMMA ContractStep == Inv /\ [Next]_vars => [SAP!Contract!Next]_(SAP!Contract!vars)
  <1> SUFFICES ASSUME Inv, [Next]_vars
               PROVE  SAP!Contract!Next \/ UNCHANGED SAP!Contract!vars
    OBVIOUS
  <1>1. CASE SpawnsActor
    <2>1. /\ UNCHANGED <<reply, answer, askedAt>>
          /\ posted = 0 /\ posted' = config /\ config \in Version /\ config \in Nat
      BY <1>1, SpawnObeys, VersionsAreNumbers DEF SpawnsActor, Spawn, Inv, StartInv, Spawned
    <2>2. CASE config = 0
      BY <2>1, <2>2 DEF SAP!Contract!vars
    <2>3. CASE config # 0
      <3>1. SAP!Contract!Post(config)
        BY <2>1, <2>3 DEF SAP!Contract!Post
      <3> QED  BY <2>1, <3>1 DEF SAP!Contract!Next
    <2> QED  BY <2>2, <2>3
  <1>2. CASE ~SpawnsActor
    <2>1. SAP!Next \/ UNCHANGED serverVars
      BY <1>2, StepObeys, UpdateObeys
    <2>2. [SAP!Next]_(SAP!vars)
      BY <2>1 DEF serverVars, SAP!vars
    <2> QED  BY <2>2, ActorAssumptions, SAP!ContractStep DEF Inv
  <1> QED  BY <1>1, <1>2

(* SA's contract and SAP's are one. *)
LEMMA SameContract ==
  /\ SAP!Contract!Init => SA!Contract!Init
  /\ [SAP!Contract!Next]_(SAP!Contract!vars) => [SA!Contract!Next]_(SA!Contract!vars)
  <1>1. SAP!Contract!Init => SA!Contract!Init
    BY DEF SAP!Contract!Init, SA!Contract!Init
  <1>2. SAP!Contract!Next => SA!Contract!Next
    BY DEF SAP!Contract!Next, SA!Contract!Next, SAP!Contract!Issue, SA!Contract!Issue,
           SAP!Contract!Refuse, SA!Contract!Refuse, SAP!Contract!Abandon, SA!Contract!Abandon,
           SAP!Contract!Answer, SA!Contract!Answer, SAP!Contract!Fresh, SA!Contract!Fresh,
           SAP!Contract!Close, SA!Contract!Close, SAP!Contract!Post, SA!Contract!Post,
           SAP!Answers, SA!Answers, SAP!PublicDer, SA!PublicDer
  <1> QED  BY <1>1, <1>2 DEF SAP!Contract!vars, SA!Contract!vars

(* Every status answer of the process is as fresh as its question, for any *)
(* number of updates and connections, with every fault and at any stage.   *)
THEOREM AskContractIsKept == SafeSpec => KeepsAskContract
  <1>1. Init => SAP!Contract!Init
    BY SameActor, ActorAssumptions, SAP!ContractInit DEF Init
  <1> QED
    BY <1>1, ContractStep, SameContract, InvHolds, PTL
       DEF SafeSpec, KeepsAskContract, SA!Contract!SafeSpec

(* The listing never goes back, not at Spawn either.                       *)
THEOREM ListingMonotonic == SafeSpec => SA!ListingNeverGoesBack
  <1>1. Inv /\ [Next]_vars => [listing' >= listing]_listing
    <2> SUFFICES ASSUME Inv, [Next]_vars PROVE listing' >= listing
      OBVIOUS
    <2>1. CASE SpawnsActor
      BY <2>1, SpawnObeys, VersionsAreNumbers DEF SpawnsActor, Spawn, Inv, StartInv, Spawned
    <2>2. CASE ~SpawnsActor
      <3>1. SAP!Next \/ UNCHANGED serverVars
        BY <2>2, StepObeys, UpdateObeys
      <3> QED  BY <3>1, ActorStep DEF Inv
    <2> QED  BY <2>1, <2>2
  <1> QED  BY <1>1, InvHolds, PTL DEF SafeSpec, SA!ListingNeverGoesBack

(***************************************************************************)
(* What fills the channel.  A full one loses an update (main.rs:96); here  *)
(* what it is full of is work that the actor has yet to do, and no more.   *)
(***************************************************************************)

(* The channel stays open, nobody sends Shutdown, main starts the listener *)
(* once, and a status task never drops its receiver while it waits.        *)
Starts == {i \in 1..Len(mailbox) : mailbox[i].kind = "StartListener"}
ChannelInv ==
  /\ rx = "open"
  /\ \A i \in 1..Len(mailbox) : mailbox[i].kind # "Shutdown"
  /\ \A i, j \in Starts : i = j
  /\ listener \in BOOLEAN /\ (listener = TRUE => Starts = {})
  /\ stage \in {"connecting", "connected", "polling", "spawning", "starting"}
       => Starts = {} /\ listener = FALSE
  /\ \A c \in Conn : reply[c] # "dropped"

(* A message goes to the end of the queue; only main's is a start.         *)
LEMMA ChannelSend ==
  ASSUME SAP!TypeOK, ChannelInv, NEW m \in SAP!Message, mailbox' = Append(mailbox, m),
         m.kind # "Shutdown", m.kind = "StartListener" => Starts = {}
  PROVE  /\ \A i \in 1..Len(mailbox') : mailbox'[i].kind # "Shutdown"
         /\ \A i, j \in Starts' : i = j
         /\ m.kind # "StartListener" /\ Starts = {} => Starts' = {}
  <1>1. /\ Len(mailbox) \in Nat /\ Len(mailbox') = Len(mailbox) + 1
        /\ \A i \in 1..Len(mailbox) : mailbox'[i] = mailbox[i]
        /\ mailbox'[Len(mailbox')] = m
    BY ActorAssumptions, SAP!SendKeepsQueue DEF SAP!TypeOK
  <1>2. \A i \in 1..Len(mailbox') : i \in 1..Len(mailbox) \/ i = Len(mailbox')
    BY <1>1
  <1>3. \A i \in 1..Len(mailbox') : mailbox'[i].kind # "Shutdown"
    BY <1>1, <1>2 DEF ChannelInv
  <1>4. \A i \in Starts' : \/ i \in Starts
                           \/ i = Len(mailbox') /\ m.kind = "StartListener"
    BY <1>1, <1>2 DEF Starts
  <1> QED  BY <1>3, <1>4 DEF ChannelInv

(* A message is taken from the front of it.                                *)
LEMMA ChannelReceive ==
  ASSUME SAP!TypeOK, ChannelInv, mailbox # <<>>, mailbox' = Tail(mailbox)
  PROVE  /\ \A i \in 1..Len(mailbox') : mailbox'[i].kind # "Shutdown"
         /\ \A i, j \in Starts' : i = j
         /\ Starts = {} \/ 1 \in Starts => Starts' = {}
  <1>1. /\ Len(mailbox) \in Nat \ {0} /\ Len(mailbox') = Len(mailbox) - 1
        /\ \A i \in 1..Len(mailbox') : mailbox'[i] = mailbox[i + 1]
    BY ActorAssumptions, SAP!ReceiveMovesQueue DEF SAP!TypeOK
  <1>2. \A i \in 1..Len(mailbox') : i \in Nat /\ i + 1 \in 1..Len(mailbox)
    BY <1>1
  <1>3. \A i \in Starts' : i \in Nat /\ i + 1 \in Starts
    BY <1>1, <1>2 DEF Starts
  <1>4. \A i, j \in Starts' : i = j
    <2> SUFFICES ASSUME NEW i \in Starts', NEW j \in Starts' PROVE i = j
      OBVIOUS
    <2>1. i \in Nat /\ j \in Nat /\ i + 1 = j + 1
      BY <1>3 DEF ChannelInv
    <2> QED  BY <2>1
  <1>5. 1 \in Starts => Starts' = {}
    <2> SUFFICES ASSUME 1 \in Starts, NEW i \in Starts' PROVE FALSE
      OBVIOUS
    <2>1. i \in Nat /\ i + 1 = 1
      BY <1>3 DEF ChannelInv
    <2>2. i \in 1..Len(mailbox')
      BY DEF Starts
    <2> QED  BY <1>1, <2>1, <2>2
  <1> QED  BY <1>1, <1>2, <1>3, <1>4, <1>5 DEF ChannelInv

(* The run loop takes a message, and without a Shutdown it does not end.   *)
(* The one that starts the listener is the only one.                       *)
LEMMA ChannelRun ==
  ASSUME SAP!TypeOK, ChannelInv, SAP!Run
  PROVE  /\ mailbox # <<>> /\ mailbox' = Tail(mailbox) /\ rx' = rx
         /\ \A c \in Conn : reply'[c] # "dropped"
         /\ listener' = listener \/ (1 \in Starts /\ listener' = TRUE)
  <1>1. ~SAP!Stop
    BY DEF ChannelInv, SAP!Stop, SAP!StopWhen
  <1>2. ASSUME NEW k, SAP!Receive(k)
        PROVE  /\ mailbox # <<>> /\ mailbox' = Tail(mailbox)
               /\ 1 \in 1..Len(mailbox) /\ mailbox[1].kind = k
    <2>1. mailbox # <<>> /\ mailbox' = Tail(mailbox) /\ Head(mailbox).kind = k
      BY <1>2 DEF SAP!Receive
    <2>2. Head(mailbox) = mailbox[1] /\ 1 \in 1..Len(mailbox)
      BY <2>1, ActorAssumptions, SAP!ReceiveShifts
    <2> QED  BY <2>1, <2>2
  <1>3. ~SAP!HandleShutdown
    BY <1>2 DEF SAP!HandleShutdown, ChannelInv
  <1>4. ASSUME NEW c \in Conn, NEW r, NEW outcome \in {"answered", "closed"},
               SAP!Resolve(r, outcome)
        PROVE  reply'[c] # "dropped"
    BY <1>4 DEF SAP!Resolve, SAP!TypeOK, ChannelInv
  <1>5. CASE SAP!HandleGetStatus \/ SAP!HandleCertificatePublicDer \/ SAP!HandleDecrypt
    <2>1. /\ rx' = rx /\ listener' = listener /\ \E k : SAP!Receive(k)
          /\ \E r : SAP!Resolve(r, "answered") \/ SAP!Resolve(r, "closed")
      BY <1>5 DEF SAP!HandleGetStatus, SAP!HandleCertificatePublicDer, SAP!HandleDecrypt,
           SAP!Deliver
    <2> QED  BY <1>2, <1>4, <2>1
  <1>6. CASE SAP!HandleUpdateConfig
    BY <1>2, <1>6 DEF SAP!HandleUpdateConfig, ChannelInv
  <1>7. CASE SAP!HandleStartListener
    BY <1>2, <1>7 DEF SAP!HandleStartListener, ChannelInv, Starts
  <1> QED  BY <1>1, <1>3, <1>5, <1>6, <1>7 DEF SAP!Run

(* Every step keeps the channel so.                                        *)
LEMMA ChannelStep == Inv /\ ChannelInv /\ [Next]_vars => ChannelInv'
  <1> SUFFICES ASSUME Inv, ChannelInv, [Next]_vars PROVE ChannelInv'
    OBVIOUS
  <1>1. SAP!TypeOK /\ stage \in Stages /\ StartInv /\ ProcessTypes /\ OrderInv
    BY DEF Inv, SAP!IndInv, ProcessTypes
  <1>2. CASE ApplyTransaction
    <2>1. UNCHANGED <<stage, reply, listener>> /\ Head(stream) \in Version /\ stream # <<>>
      BY <1>1, <1>2, StreamShifts
         DEF ApplyTransaction, OnUpdate, TrySend, SA!TrySendUpdate, serverVars, mainVars
    <2>2. CASE SA!TrySendUpdate(Head(stream))
      <3> DEFINE m == SAP!UpdateMsg(Head(stream))
      <3>1. SAP!TrySendUpdate(Head(stream))
        BY <2>1, <2>2, SameActor
      <3>2. m \in SAP!Message /\ m.kind = "UpdateConfig"
        BY <2>1, ActorAssumptions, SAP!MessagesSent
      <3>3. mailbox' = Append(mailbox, m) /\ rx' = rx
        BY <3>1 DEF SAP!TrySendUpdate, SAP!Enqueue
      <3> HIDE DEF m
      <3>4. /\ \A i \in 1..Len(mailbox') : mailbox'[i].kind # "Shutdown"
            /\ \A i, j \in Starts' : i = j
            /\ Starts = {} => Starts' = {}
        BY <1>1, <3>2, <3>3, ChannelSend
      <3> QED  BY <2>1, <3>3, <3>4 DEF ChannelInv
    <2>3. CASE UNCHANGED serverVars
      BY <2>1, <2>3 DEF serverVars, ChannelInv, Starts
    <2> QED  BY <1>2, <2>2, <2>3 DEF ApplyTransaction, OnUpdate, TrySend
  <1>3. CASE ServerStep
    <2>1. SAP!Run /\ stage' = stage
      BY <1>3, SameActor DEF ServerStep, mainVars
    <2>2. /\ mailbox # <<>> /\ mailbox' = Tail(mailbox) /\ rx' = rx
          /\ \A c \in Conn : reply'[c] # "dropped"
          /\ listener' = listener \/ (1 \in Starts /\ listener' = TRUE)
      BY <1>1, <2>1, ChannelRun
    <2>3. /\ \A i \in 1..Len(mailbox') : mailbox'[i].kind # "Shutdown"
          /\ \A i, j \in Starts' : i = j
          /\ Starts = {} \/ 1 \in Starts => Starts' = {}
      BY <1>1, <2>2, ChannelReceive
    <2>4. CASE listener' = listener
      BY <2>1, <2>2, <2>3, <2>4 DEF ChannelInv
    <2>5. CASE 1 \in Starts /\ listener' = TRUE
      <3>1. stage \notin {"connecting", "connected", "polling", "spawning", "starting"}
        BY <2>5 DEF ChannelInv
      <3> QED  BY <2>1, <2>2, <2>3, <2>5, <3>1 DEF ChannelInv
    <2> QED  BY <2>2, <2>4, <2>5
  <1>4. CASE Start
    <2> DEFINE m == SAP!StartMsg
    <2>1. /\ stage = "starting" /\ stage' = "started" /\ UNCHANGED <<rx, listener, reply>>
          /\ mailbox' = Append(mailbox, m)
      BY <1>4, SameActor DEF Start, SAP!SendControl, SAP!Enqueue
    <2>2. m \in SAP!Message /\ m.kind = "StartListener"
      BY ActorAssumptions, SAP!MessagesSent DEF SAP!StartMsg
    <2> HIDE DEF m
    <2>3. /\ \A i \in 1..Len(mailbox') : mailbox'[i].kind # "Shutdown"
          /\ \A i, j \in Starts' : i = j
      BY <1>1, <2>1, <2>2, ChannelSend DEF ChannelInv
    <2> QED  BY <2>1, <2>3 DEF ChannelInv
  <1>5. ASSUME NEW c \in Conn, AskStatus(c) PROVE ChannelInv'
    <2> DEFINE m == SAP!AskMsg(c, 0)
    <2>1. /\ UNCHANGED <<stage, rx, listener>>
          /\ mailbox' = Append(mailbox, m) /\ reply' = [reply EXCEPT ![c] = "waiting"]
      BY <1>5, SameActor DEF AskStatus, SAP!Ask, SAP!Enqueue, mainVars
    <2>2. m \in SAP!Message /\ m.kind = "GetStatus"
      BY ActorAssumptions, SAP!MessagesSent
    <2> HIDE DEF m
    <2>3. /\ \A i \in 1..Len(mailbox') : mailbox'[i].kind # "Shutdown"
          /\ \A i, j \in Starts' : i = j
          /\ Starts = {} => Starts' = {}
      BY <1>1, <2>1, <2>2, ChannelSend
    <2>4. \A d \in Conn : reply'[d] # "dropped"
      BY <1>1, <2>1 DEF SAP!TypeOK, ChannelInv
    <2> QED  BY <2>1, <2>3, <2>4 DEF ChannelInv
  <1>6. CASE Connect \/ Subscribe \/ Poll \/ Spawn \/ Register \/ Disconnect \/ Join
    <2>1. UNCHANGED <<mailbox, rx, listener, reply>>
      BY <1>6 DEF Connect, Subscribe, Poll, Spawn, Register, Disconnect, Join, serverVars
    <2>2. stage' \in {"connecting", "connected", "polling", "spawning", "starting"}
            => stage \in {"connecting", "connected", "polling", "spawning"}
      BY <1>6 DEF Connect, Subscribe, Poll, Spawn, Register, Disconnect, Join
    <2> QED  BY <2>1, <2>2 DEF ChannelInv, Starts
  <1>7. CASE ApplyRequest \/ LeaveThread \/ UpdateMotd \/ LoseConnection \/ Bind
               \/ ListenerFails \/ Signal \/ UNCHANGED vars
    BY <1>7 DEF ApplyRequest, LeaveThread, UpdateMotd, LoseConnection, Bind, ListenerFails,
         Signal, vars, ChannelInv, Starts, serverVars, mainVars
  <1> QED
    BY <1>2, <1>3, <1>4, <1>5, <1>6, <1>7 DEF Next, Database, Main, Outside

(* It is so from the beginning.                                            *)
LEMMA ChannelHolds == SafeSpec => []ChannelInv
  <1>1. Init => ChannelInv
    <2> SUFFICES ASSUME Init PROVE ChannelInv
      OBVIOUS
    <2>1. /\ mailbox = <<>> /\ rx = "open" /\ listener = FALSE
          /\ reply = [c \in Conn |-> "unasked"]
      BY SameActor DEF Init, SAP!Init
    <2>2. Len(mailbox) = 0
      BY <2>1
    <2>3. Starts = {}
      BY <2>2 DEF Starts
    <2>4. \A i \in 1..Len(mailbox) : mailbox[i].kind # "Shutdown"
      BY <2>2
    <2>5. \A c \in Conn : reply[c] # "dropped"
      BY <2>1
    <2> QED  BY <2>1, <2>3, <2>4, <2>5 DEF ChannelInv
  <1> QED  BY <1>1, InvHolds, ChannelStep, PTL DEF SafeSpec

(* The channel holds, at any time, no more than the questions that wait,   *)
(* the configurations posted and not yet listed, and the start until it is *)
(* served: Server::spawn's 16 slots fill only with that many connections   *)
(* waiting at once, or updates faster than the actor takes them.           *)
QueueIsBounded == Len(mailbox) <= Backlog

LEMMA QueueBound ==
  ASSUME IsFiniteSet(Conn), Inv, ChannelInv
  PROVE  QueueIsBounded
  <1>1. /\ mailbox \in Seq(SAP!Message) /\ Len(mailbox) \in Nat
        /\ \A i \in 1..Len(mailbox) : mailbox[i] \in SAP!Message
    BY ElementOfSeq DEF Inv, SAP!IndInv, SAP!TypeOK
  <1>2. 1..Len(mailbox) = (SAP!Asks \cup SAP!Updates) \cup Starts
    <2>1. \A m \in SAP!Message : SAP!IsAsk(m) \/ m.kind \in {"UpdateConfig", "StartListener", "Shutdown"}
      BY DEF SAP!Message, SAP!IsAsk, SAP!StartMsg, SAP!ShutdownMsg
    <2> QED  BY <1>1, <2>1 DEF SAP!Asks, SAP!Updates, Starts, ChannelInv
  <1> DEFINE Waiting == {c \in Conn : reply[c] = "waiting"}
             start == IF listener THEN 0 ELSE 1
  <1>3. /\ IsFiniteSet(SAP!Asks) /\ IsFiniteSet(Waiting)
        /\ Cardinality(SAP!Asks) <= Cardinality(Waiting)
    <2> DEFINE f == [i \in SAP!Asks |-> mailbox[i].reply_to]
    <2>1. f \in Injection(SAP!Asks, Waiting)
      <3>1. f \in [SAP!Asks -> Waiting]
        <4>1. \A i \in SAP!Asks : mailbox[i].reply_to \in Conn
          BY <1>1, ActorAssumptions, SAP!MessageFields DEF SAP!Asks
        <4>2. \A i \in SAP!Asks : reply[mailbox[i].reply_to] = "waiting"
          BY <4>1 DEF Inv, SAP!IndInv, SAP!WaitingIsQueued, ChannelInv
        <4> QED  BY <4>1, <4>2
      <3>2. \A i, j \in SAP!Asks : f[i] = f[j] => i = j
        BY DEF Inv, SAP!IndInv, SAP!WaitingIsQueued
      <3> HIDE DEF f, Waiting
      <3> QED  BY <3>1, <3>2 DEF Injection, IsInjective
    <2>2. IsFiniteSet(Waiting)
      <3>1. Waiting \in SUBSET Conn
        OBVIOUS
      <3> HIDE DEF Waiting
      <3> QED  BY <3>1, FS_Subset
    <2> HIDE DEF f, Waiting
    <2> QED  BY <2>1, <2>2, FS_Injection
  <1>4. IsFiniteSet(SAP!Updates) /\ Cardinality(SAP!Updates) <= posted - listing
    <2>1. /\ listing \in Nat /\ posted \in Nat
          /\ \A i \in SAP!Updates : i \in Nat /\ mailbox[i].config \in Nat
          /\ \A i \in SAP!Updates : listing < mailbox[i].config /\ mailbox[i].config <= posted
          /\ \A i, j \in SAP!Updates : i < j => mailbox[i].config < mailbox[j].config
          /\ posted = listing \/ \E i \in SAP!Updates : mailbox[i].config = posted
      BY ActorAssumptions, SAP!VersionsAreNumbers DEF Inv, SAP!IndInv, SAP!UpdatesAscend
    <2> DEFINE f == [i \in SAP!Updates |-> mailbox[i].config]
               Unlisted == listing + 1..posted
    <2>2. f \in Injection(SAP!Updates, Unlisted)
      <3>1. f \in [SAP!Updates -> Unlisted]
        BY <2>1
      <3>2. ASSUME NEW i \in SAP!Updates, NEW j \in SAP!Updates, f[i] = f[j] PROVE i = j
        BY <2>1, <3>2
      <3> HIDE DEF f, Unlisted
      <3> QED  BY <3>1, <3>2 DEF Injection, IsInjective
    <2>3. IsFiniteSet(Unlisted) /\ Cardinality(Unlisted) = posted - listing
      <3>1. listing + 1 \in Int /\ posted \in Int /\ listing <= posted
        BY <2>1
      <3>2. /\ IsFiniteSet(Unlisted)
            /\ Cardinality(Unlisted) = IF listing + 1 > posted THEN 0 ELSE posted - (listing + 1) + 1
        BY <3>1, FS_Interval
      <3> HIDE DEF Unlisted
      <3> QED  BY <2>1, <3>1, <3>2
    <2> HIDE DEF f, Unlisted
    <2> QED  BY <2>2, <2>3, FS_Injection
  <1>5. IsFiniteSet(Starts) /\ Cardinality(Starts) <= start
    <2>1. CASE Starts = {}
      BY <2>1, FS_EmptySet
    <2>2. CASE Starts # {}
      <3>1. PICK i : i \in Starts
        BY <2>2
      <3>2. Starts = {i} /\ start = 1
        BY <2>2, <3>1 DEF ChannelInv
      <3>3. IsFiniteSet(Starts) /\ Cardinality(Starts) = 1
        BY <3>2, FS_Singleton
      <3> HIDE DEF start
      <3> QED  BY <3>2, <3>3
    <2> QED  BY <2>1, <2>2
  <1>6. Cardinality(1..Len(mailbox)) = Len(mailbox)
    <2> DEFINE n == Len(mailbox)
    <2>1. n \in Nat
      BY <1>1
    <2> HIDE DEF n
    <2>2. Cardinality(1..n) = IF 1 > n THEN 0 ELSE n - 1 + 1
      BY <2>1, FS_Interval
    <2>3. Cardinality(1..n) = n
      BY <2>1, <2>2
    <2> QED  BY <2>3 DEF n
  <1>7. Cardinality(1..Len(mailbox)) <= Cardinality(SAP!Asks) + Cardinality(SAP!Updates) + Cardinality(Starts)
    <2> DEFINE B == SAP!Asks \cup SAP!Updates
    <2>1. IsFiniteSet(B) /\ Cardinality(B) = Cardinality(SAP!Asks) + Cardinality(SAP!Updates)
                                             - Cardinality(SAP!Asks \cap SAP!Updates)
      BY <1>3, <1>4, FS_Union
    <2>2. Cardinality(B \cup Starts) = Cardinality(B) + Cardinality(Starts) - Cardinality(B \cap Starts)
      BY <1>5, <2>1, FS_Union
    <2>3. /\ Cardinality(SAP!Asks \cap SAP!Updates) \in Nat /\ Cardinality(B \cap Starts) \in Nat
          /\ Cardinality(SAP!Asks) \in Nat /\ Cardinality(SAP!Updates) \in Nat
          /\ Cardinality(Starts) \in Nat /\ Cardinality(B) \in Nat
      <3>1. IsFiniteSet(SAP!Asks \cap SAP!Updates) /\ IsFiniteSet(B \cap Starts)
        <4>1. SAP!Asks \cap SAP!Updates \in SUBSET SAP!Asks /\ B \cap Starts \in SUBSET Starts
          OBVIOUS
        <4> HIDE DEF B
        <4> QED  BY <1>3, <1>5, <4>1, FS_Subset
      <3> HIDE DEF B
      <3> QED  BY <1>3, <1>4, <1>5, <2>1, <3>1, FS_CardinalityType
    <2>4. 1..Len(mailbox) = B \cup Starts
      BY <1>2
    <2>5. Cardinality(1..Len(mailbox)) = Cardinality(B \cup Starts)
      BY <2>4
    <2> HIDE DEF B
    <2> QED  BY <2>1, <2>2, <2>3, <2>5
  <1>8. /\ Cardinality(SAP!Asks) \in Nat /\ Cardinality(SAP!Updates) \in Nat
        /\ Cardinality(Starts) \in Nat /\ Cardinality(Waiting) \in Nat
        /\ posted - listing \in Int /\ start \in Nat
    <2> HIDE DEF Waiting
    <2> QED  BY <1>3, <1>4, <1>5, FS_CardinalityType, VersionsAreNumbers
  <1>9. Backlog = Cardinality(Waiting) + (posted - listing) + start
    BY DEF Backlog
  <1> HIDE DEF Waiting, start
  <1> QED  BY <1>1, <1>3, <1>4, <1>5, <1>6, <1>7, <1>8, <1>9 DEF QueueIsBounded

(* The queue of the process is so bounded, always.                         *)
THEOREM QueueStaysBounded == ASSUME IsFiniteSet(Conn) PROVE SafeSpec => []QueueIsBounded
  BY QueueBound, InvHolds, ChannelHolds, PTL

(* An update is lost only to an actor that is behind by a whole channel,   *)
(* whatever the capacity and however many connections and updates there    *)
(* are: what SeenUpdateIsShown takes from its environment, and what the    *)
(* finding about main.rs:96 lacks.                                         *)
THEOREM LostOnlyToBacklog ==
  ASSUME IsFiniteSet(Conn) PROVE SafeSpec => UpdateLostOnlyToBacklog
  <1>1. ASSUME Inv, ChannelInv, [Next]_vars, seen' # seen
        PROVE  posted' = seen' \/ Backlog >= Capacity
    <2>1. ApplyTransaction
      BY <1>1 DEF Next, vars, Database, Main, Outside, ApplyRequest, LeaveThread, Connect, Subscribe,
           Poll, Spawn, Start, Register, Disconnect, Join, Bind, UpdateMotd, LoseConnection,
           ListenerFails, Signal, ServerStep, AskStatus, databaseVars
    <2>2. seen' = Head(stream) /\ TrySend(Head(stream))
      BY <1>1, <2>1 DEF ApplyTransaction, OnUpdate
    <2>3. CASE SA!TrySendUpdate(Head(stream))
      BY <2>2, <2>3 DEF SA!TrySendUpdate
    <2>4. CASE ~(rx = "open" /\ SA!HasRoom)
      <3>1. Len(mailbox) >= Capacity /\ Len(mailbox) \in Nat
        BY <1>1, <2>4, CapacityAssumption, LenProperties
           DEF SA!HasRoom, ChannelInv, Inv, SAP!IndInv, SAP!TypeOK
      <3>2. Len(mailbox) <= Backlog
        BY <1>1, QueueBound DEF QueueIsBounded
      <3>3. Backlog \in Int
        <4> DEFINE Waiting == {c \in Conn : reply[c] = "waiting"}
        <4>1. IsFiniteSet(Waiting)
          <5>1. Waiting \in SUBSET Conn
            OBVIOUS
          <5> HIDE DEF Waiting
          <5> QED  BY <5>1, FS_Subset
        <4>2. Cardinality(Waiting) \in Nat
          <5> HIDE DEF Waiting
          <5> QED  BY <4>1, FS_CardinalityType
        <4> HIDE DEF Waiting
        <4>3. Backlog = Cardinality(Waiting) + (posted - listing) + (IF listener THEN 0 ELSE 1)
          BY DEF Backlog, Waiting
        <4> QED  BY <1>1, <4>2, <4>3, VersionsAreNumbers
      <3> QED  BY <3>1, <3>2, <3>3, CapacityAssumption
    <2> QED  BY <2>2, <2>3, <2>4 DEF TrySend
  <1> QED  BY <1>1, InvHolds, ChannelHolds, PTL DEF SafeSpec, UpdateLostOnlyToBacklog
=============================================================================
