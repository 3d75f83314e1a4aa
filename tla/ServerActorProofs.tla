------------------------- MODULE ServerActorProofs -------------------------
(***************************************************************************)
(* Proofs about the server actor, for every set of requests, every         *)
(* capacity and every history of configurations.                           *)
(***************************************************************************)
EXTENDS ServerActor, SequenceTheorems, TLAPS

(***************************************************************************)
(* Messages.                                                               *)
(***************************************************************************)

(* The fields that a message of each kind has. *)
LEMMA MessageFields ==
  ASSUME NEW m \in Message
  PROVE  /\ IsAsk(m) => m.reply_to \in Request /\ m.data \in Payload
         /\ m.kind = "UpdateConfig" => m.config \in Version
         /\ IsAsk(m) => m.kind # "UpdateConfig"
  BY DEF Message, IsAsk, AskKind, ShutdownMsg, StartMsg

(* What `ask`, the callback and the control messages put in the channel is *)
(* a message, of its own kind.                                             *)
LEMMA MessagesSent ==
  /\ \A r \in Request, d \in Payload :
       AskMsg(r, d) \in Message /\ IsAsk(AskMsg(r, d))
         /\ AskMsg(r, d).kind = Kind[r] /\ AskMsg(r, d).reply_to = r
  /\ \A v \in Version :
       UpdateMsg(v) \in Message /\ ~IsAsk(UpdateMsg(v))
         /\ UpdateMsg(v).kind = "UpdateConfig" /\ UpdateMsg(v).config = v
  /\ \A m \in {ShutdownMsg, StartMsg} :
       m \in Message /\ ~IsAsk(m) /\ m.kind # "UpdateConfig"
  BY KindAssumption
     DEF Message, AskMsg, UpdateMsg, ShutdownMsg, StartMsg, IsAsk, AskKind

(***************************************************************************)
(* The channel.                                                            *)
(***************************************************************************)

(* A send leaves the queue as it is and adds one message behind it. *)
LEMMA SendKeepsQueue ==
  ASSUME NEW m \in Message, mailbox \in Seq(Message), mailbox' = Append(mailbox, m)
  PROVE  /\ mailbox' \in Seq(Message)
         /\ Len(mailbox) \in Nat
         /\ Len(mailbox') = Len(mailbox) + 1
         /\ \A i \in 1..Len(mailbox) : mailbox'[i] = mailbox[i]
         /\ mailbox'[Len(mailbox')] = m
         /\ \A i \in 1..Len(mailbox') : mailbox'[i] \in Message
  BY AppendProperties, ElementOfSeq

(* A receive takes the first message and moves the others up. *)
LEMMA ReceiveMovesQueue ==
  ASSUME mailbox \in Seq(Message), mailbox # <<>>, mailbox' = Tail(mailbox)
  PROVE  /\ mailbox' \in Seq(Message)
         /\ Len(mailbox) \in Nat \ {0}
         /\ Len(mailbox') = Len(mailbox) - 1
         /\ \A i \in 1..Len(mailbox') : mailbox'[i] = mailbox[i + 1]
         /\ Head(mailbox) = mailbox[1]
         /\ \A i \in 1..Len(mailbox) : mailbox[i] \in Message
  <1>1. mailbox' \in Seq(Message) /\ Len(mailbox') = Len(mailbox) - 1
    BY HeadTailProperties
  <1>2. Len(mailbox) \in Nat \ {0}
    BY EmptySeq
  <1>3. \A i \in 1..Len(mailbox') : mailbox'[i] = mailbox[i + 1]
    BY HeadTailProperties, <1>1, <1>2
  <1>4. Head(mailbox) = mailbox[1] /\ \A i \in 1..Len(mailbox) : mailbox[i] \in Message
    BY HeadTailProperties, ElementOfSeq
  <1> QED  BY <1>1, <1>2, <1>3, <1>4

(***************************************************************************)
(* Type correctness.                                                       *)
(***************************************************************************)

(* The actor starts with its state typed and its channel empty.            *)
LEMMA TypeInit == Init => TypeOK
  <1> SUFFICES ASSUME Init PROVE TypeOK
    OBVIOUS
  <1>1. mailbox \in Seq(Message) /\ Len(mailbox) <= Capacity
    BY EmptySeq, CapacityAssumption DEF Init
  <1> QED  BY <1>1 DEF Init, TypeOK, Answers

(* Every handler and every send keeps the types and the bound of the channel. *)
LEMMA TypeStep == TypeOK /\ [Next]_vars => TypeOK'
  <1> SUFFICES ASSUME TypeOK, [Next]_vars PROVE TypeOK'
    OBVIOUS
  <1> USE DEF TypeOK
  <1>1. ASSUME NEW r \in Request, NEW d \in Payload, Ask(r, d) PROVE TypeOK'
    <2>1. mailbox' \in Seq(Message) /\ Len(mailbox') <= Capacity
      BY <1>1, SendKeepsQueue, MessagesSent, CapacityAssumption DEF Ask, Enqueue, HasRoom
    <2> QED  BY <1>1, <2>1 DEF Ask, Enqueue
  <1>2. ASSUME NEW r \in Request, Refuse(r) PROVE TypeOK'
    BY <1>2 DEF Refuse
  <1>3. ASSUME NEW R \in SUBSET Request, DropReceivers(R) PROVE TypeOK'
    BY <1>3 DEF DropReceivers
  <1>4. ASSUME NEW v \in Version, PostUpdate(v) PROVE TypeOK'
    <2>1. mailbox' \in Seq(Message) /\ Len(mailbox') <= Capacity
      BY <1>4, SendKeepsQueue, MessagesSent, CapacityAssumption DEF PostUpdate, TrySendUpdate, Enqueue, HasRoom
    <2> QED  BY <1>4, <2>1 DEF PostUpdate, TrySendUpdate, Enqueue
  <1>5. ASSUME NEW m \in {ShutdownMsg, StartMsg}, SendControl(m) PROVE TypeOK'
    <2>1. mailbox' \in Seq(Message) /\ Len(mailbox') <= Capacity
      BY <1>5, SendKeepsQueue, MessagesSent, CapacityAssumption DEF SendControl, Enqueue, HasRoom
    <2> QED  BY <1>5, <2>1 DEF SendControl, Enqueue
  <1>6. ASSUME NEW k, Receive(k)
        PROVE  /\ mailbox' \in Seq(Message) /\ Len(mailbox') <= Capacity
               /\ Head(mailbox) \in Message /\ Head(mailbox).kind = k
    BY <1>6, ReceiveMovesQueue, CapacityAssumption DEF Receive
  <1>7. CASE HandleGetStatus
    <2>1. mailbox' \in Seq(Message) /\ Len(mailbox') <= Capacity
      BY <1>6, <1>7 DEF HandleGetStatus
    <2>2. listing \in Answers
      BY DEF Answers
    <2> QED  BY <1>7, <2>1, <2>2 DEF HandleGetStatus, Deliver, Resolve
  <1>8. CASE HandleCertificatePublicDer
    <2>1. mailbox' \in Seq(Message) /\ Len(mailbox') <= Capacity
      BY <1>6, <1>8 DEF HandleCertificatePublicDer
    <2> QED  BY <1>8, <2>1 DEF HandleCertificatePublicDer, Deliver, Resolve, Answers
  <1>9. CASE HandleDecrypt
    <2>1. /\ mailbox' \in Seq(Message) /\ Len(mailbox') <= Capacity
          /\ Head(mailbox) \in Message /\ Head(mailbox).kind = "Decrypt"
      BY <1>6, <1>9 DEF HandleDecrypt
    <2>2. Head(mailbox).data \in Answers
      BY <2>1, MessageFields DEF IsAsk, AskKind, Answers
    <2> QED  BY <1>9, <2>1, <2>2 DEF HandleDecrypt, Deliver, Resolve
  <1>10. CASE HandleUpdateConfig
    <2>1. /\ mailbox' \in Seq(Message) /\ Len(mailbox') <= Capacity
          /\ Head(mailbox) \in Message /\ Head(mailbox).kind = "UpdateConfig"
      BY <1>6, <1>10 DEF HandleUpdateConfig
    <2> QED  BY <1>10, <2>1, MessageFields DEF HandleUpdateConfig
  <1>11. CASE HandleStartListener
    <2>1. mailbox' \in Seq(Message) /\ Len(mailbox') <= Capacity
      BY <1>6, <1>11 DEF HandleStartListener
    <2> QED  BY <1>11, <2>1 DEF HandleStartListener
  <1>12. CASE HandleShutdown
    <2>1. mailbox' \in Seq(Message) /\ Len(mailbox') <= Capacity
      BY <1>6, <1>12 DEF HandleShutdown
    <2> QED  BY <1>12, <2>1 DEF HandleShutdown
  <1>13. CASE Stop
    <2>1. mailbox' \in Seq(Message) /\ Len(mailbox') <= Capacity
      BY <1>13, EmptySeq, CapacityAssumption DEF Stop
    <2> QED  BY <1>13, <2>1 DEF Stop
  <1>14. CASE UNCHANGED vars
    BY <1>14 DEF vars
  <1> QED
    BY <1>1, <1>2, <1>3, <1>4, <1>5, <1>7, <1>8, <1>9, <1>10, <1>11, <1>12, <1>13, <1>14
       DEF Next, Run, Callers

(* The state of the actor has its types, and the channel never holds more  *)
(* messages than Server::spawn gave it room for.                           *)
THEOREM TypeCorrect == SafeSpec => []TypeOK
  BY TypeInit, TypeStep, PTL DEF SafeSpec

(***************************************************************************)
(* What a step may do to the requests and to the queue.                    *)
(***************************************************************************)

(* Handling an asking message takes it from the queue and resolves its     *)
(* request, no other; only a Decrypt is closed, and GetStatus is answered  *)
(* with the listing of that moment.                                        *)
AskHandled ==
  LET m == Head(mailbox)
      r == m.reply_to
  IN  /\ mailbox # <<>> /\ mailbox' = Tail(mailbox)
      /\ IsAsk(m)
      /\ \A q \in Request \ {r} : reply'[q] = reply[q] /\ answer'[q] = answer[q]
      /\ reply[r] # "waiting" => reply'[r] = reply[r] /\ answer'[r] = answer[r]
      /\ reply[r] = "waiting" =>
           \/ reply'[r] = "answered"
           \/ reply'[r] = "closed" /\ m.kind = "Decrypt" /\ answer'[r] = answer[r]
      /\ m.kind = "GetStatus" /\ reply[r] = "waiting" => answer'[r] = listing
      /\ UNCHANGED <<rx, listing, listener, posted, askedAt>>

(* The three handlers of asking messages do what AskHandled says.          *)
LEMMA AskHandlers ==
  ASSUME TypeOK, HandleGetStatus \/ HandleCertificatePublicDer \/ HandleDecrypt
  PROVE  AskHandled
  <1>1. ASSUME mailbox # <<>>
        PROVE  Head(mailbox) \in Message
    BY <1>1, HeadTailProperties DEF TypeOK
  <1>2. CASE HandleGetStatus
    <2>1. Head(mailbox).reply_to \in Request /\ IsAsk(Head(mailbox))
      BY <1>1, <1>2, MessageFields DEF HandleGetStatus, Receive, IsAsk, AskKind
    <2> QED  BY <1>2, <2>1 DEF TypeOK, HandleGetStatus, Receive, Deliver, Resolve, AskHandled
  <1>3. CASE HandleCertificatePublicDer
    <2>1. Head(mailbox).reply_to \in Request /\ IsAsk(Head(mailbox))
      BY <1>1, <1>3, MessageFields DEF HandleCertificatePublicDer, Receive, IsAsk, AskKind
    <2> QED
      BY <1>3, <2>1 DEF TypeOK, HandleCertificatePublicDer, Receive, Deliver, Resolve, AskHandled
  <1>4. CASE HandleDecrypt
    <2>1. Head(mailbox).reply_to \in Request /\ IsAsk(Head(mailbox))
      BY <1>1, <1>4, MessageFields DEF HandleDecrypt, Receive, IsAsk, AskKind
    <2> QED  BY <1>4, <2>1 DEF TypeOK, HandleDecrypt, Receive, Deliver, Resolve, AskHandled
  <1> QED  BY <1>2, <1>3, <1>4

(* A message that asks nothing is handled without touching any request.    *)
ControlHandled ==
  /\ mailbox # <<>> /\ mailbox' = Tail(mailbox)
  /\ ~IsAsk(Head(mailbox))
  /\ UNCHANGED <<reply, answer, posted, askedAt>>

(* The three other handlers do what ControlHandled says.                   *)
LEMMA ControlHandlers ==
  ASSUME HandleUpdateConfig \/ HandleStartListener \/ HandleShutdown
  PROVE  ControlHandled
  BY DEF HandleUpdateConfig, HandleStartListener, HandleShutdown, Receive,
         ControlHandled, IsAsk, AskKind

(* A step of the actor touches waiting requests alone: it leaves them      *)
(* waiting, answers or closes them.                                        *)
LEMMA RunTouchesWaiting ==
  ASSUME TypeOK, Run, NEW r \in Request
  PROVE  /\ reply[r] # "waiting" => reply'[r] = reply[r] /\ answer'[r] = answer[r]
         /\ reply[r] = "waiting" => reply'[r] \in {"waiting", "answered", "closed"}
  <1>1. CASE HandleGetStatus \/ HandleCertificatePublicDer \/ HandleDecrypt
    BY <1>1, AskHandlers DEF AskHandled
  <1>2. CASE HandleUpdateConfig \/ HandleStartListener \/ HandleShutdown
    BY <1>2, ControlHandlers DEF ControlHandled
  <1>3. CASE Stop
    BY <1>3 DEF Stop
  <1> QED  BY <1>1, <1>2, <1>3 DEF Run

(* A message that asks nothing is queued without touching any request.     *)
ControlSent ==
  /\ \E m \in Message : ~IsAsk(m) /\ mailbox' = Append(mailbox, m)
  /\ UNCHANGED <<listing, reply, answer, askedAt>>

(* The callback and the control senders do what ControlSent says.          *)
LEMMA ControlSenders ==
  ASSUME \/ \E v \in Version : PostUpdate(v)
         \/ \E m \in {ShutdownMsg, StartMsg} : SendControl(m)
  PROVE  ControlSent
  BY MessagesSent DEF PostUpdate, TrySendUpdate, Enqueue, SendControl, ControlSent

(***************************************************************************)
(* Requests and the queue.                                                 *)
(***************************************************************************)

RequestInv == WaitingIsQueued /\ AsksAreTyped /\ ShutdownAbandonsNothing

(* No request is asked when the actor starts.                              *)
LEMMA RequestInit == Init => RequestInv
  BY DEF Init, RequestInv, WaitingIsQueued, AsksAreTyped, ShutdownAbandonsNothing, Asks

(* Every step keeps the waiting requests and the queue matched.            *)
LEMMA RequestStep == TypeOK /\ RequestInv /\ [Next]_vars => RequestInv'
  <1> SUFFICES ASSUME TypeOK, RequestInv, [Next]_vars PROVE RequestInv'
    OBVIOUS
  <1>1. ASSUME NEW r \in Request, NEW d \in Payload, Ask(r, d) PROVE RequestInv'
    <2> DEFINE m == AskMsg(r, d)
    <2>1. m \in Message /\ IsAsk(m) /\ m.kind = Kind[r] /\ m.reply_to = r
      BY MessagesSent
    <2> HIDE DEF m
    <2>2. mailbox' = Append(mailbox, m)
      BY <1>1 DEF Ask, Enqueue, m
    <2>3. /\ Len(mailbox) \in Nat
          /\ Len(mailbox') = Len(mailbox) + 1
          /\ \A i \in 1..Len(mailbox) : mailbox'[i] = mailbox[i]
          /\ mailbox'[Len(mailbox')] = m
      BY <2>1, <2>2, SendKeepsQueue DEF TypeOK
    <2>4. /\ reply[r] = "unasked" /\ reply'[r] = "waiting"
          /\ \A q \in Request \ {r} : reply'[q] = reply[q]
      BY <1>1 DEF Ask, Enqueue, TypeOK
    <2>5. Asks' = Asks \cup {Len(mailbox')}
      BY <2>1, <2>3 DEF Asks, IsAsk
    <2>6. \A i \in Asks : /\ mailbox'[i] = mailbox[i] /\ mailbox[i].reply_to # r
                          /\ mailbox[i].reply_to \in Request
      <3> SUFFICES ASSUME NEW i \in Asks
                   PROVE  /\ mailbox'[i] = mailbox[i] /\ mailbox[i].reply_to # r
                          /\ mailbox[i].reply_to \in Request
        OBVIOUS
      <3>1. i \in 1..Len(mailbox) /\ IsAsk(mailbox[i])
        BY DEF Asks
      <3>2. mailbox[i].reply_to \in Request
        BY <3>1, MessageFields, ElementOfSeq DEF TypeOK
      <3>3. reply[mailbox[i].reply_to] \in {"waiting", "dropped"}
        BY DEF RequestInv, WaitingIsQueued
      <3> QED  BY <2>3, <2>4, <3>1, <3>2, <3>3
    <2>7. WaitingIsQueued'
      BY <2>1, <2>3, <2>4, <2>5, <2>6 DEF RequestInv, WaitingIsQueued
    <2>8. AsksAreTyped'
      BY <2>1, <2>3, <2>5, <2>6 DEF RequestInv, AsksAreTyped
    <2>9. ShutdownAbandonsNothing'
      BY <2>4 DEF RequestInv, ShutdownAbandonsNothing
    <2> QED  BY <2>7, <2>8, <2>9 DEF RequestInv
  <1>2. ASSUME UNCHANGED mailbox,
               \A r \in Request :
                 \/ reply'[r] = reply[r]
                 \/ reply[r] = "unasked" /\ reply'[r] = "refused"
                 \/ reply[r] = "waiting" /\ reply'[r] = "dropped"
        PROVE  RequestInv'
    <2>1. Asks' = Asks
      BY <1>2 DEF Asks
    <2>2. \A i \in Asks : mailbox[i].reply_to \in Request
      BY MessageFields, ElementOfSeq DEF Asks, TypeOK
    <2> QED
      BY <1>2, <2>1, <2>2
         DEF RequestInv, WaitingIsQueued, AsksAreTyped, ShutdownAbandonsNothing
  <1>3. CASE ControlSent
    <2> PICK m \in Message : ~IsAsk(m) /\ mailbox' = Append(mailbox, m)
      BY <1>3 DEF ControlSent
    <2>1. /\ Len(mailbox) \in Nat
          /\ Len(mailbox') = Len(mailbox) + 1
          /\ \A i \in 1..Len(mailbox) : mailbox'[i] = mailbox[i]
          /\ mailbox'[Len(mailbox')] = m
      BY SendKeepsQueue DEF TypeOK
    <2>2. /\ \A i \in Asks : i \in Asks' /\ mailbox'[i] = mailbox[i]
          /\ \A i \in Asks' : i \in Asks /\ mailbox'[i] = mailbox[i]
      BY <2>1 DEF Asks, IsAsk
    <2>3. reply' = reply
      BY <1>3 DEF ControlSent
    <2>4. WaitingIsQueued'
      <3>1. ASSUME NEW r \in Request, reply'[r] = "waiting"
            PROVE  \E i \in Asks' : mailbox'[i].reply_to = r
        <4> PICK i \in Asks : mailbox[i].reply_to = r
          BY <2>3, <3>1 DEF RequestInv, WaitingIsQueued
        <4> QED  BY <2>2
      <3>2. \A i \in Asks' : reply'[mailbox'[i].reply_to] \in {"waiting", "dropped"}
        BY <2>2, <2>3 DEF RequestInv, WaitingIsQueued
      <3>3. ASSUME NEW i \in Asks', NEW j \in Asks',
                   mailbox'[i].reply_to = mailbox'[j].reply_to
            PROVE  i = j
        <4>1. i \in Asks /\ j \in Asks /\ mailbox[i].reply_to = mailbox[j].reply_to
          BY <2>2, <3>3
        <4> QED  BY <4>1 DEF RequestInv, WaitingIsQueued
      <3> QED  BY <3>1, <3>2, <3>3 DEF WaitingIsQueued
    <2> QED
      BY <2>2, <2>3, <2>4 DEF RequestInv, AsksAreTyped, ShutdownAbandonsNothing
  <1>4. CASE AskHandled
    <2> DEFINE r == Head(mailbox).reply_to
    <2>1. /\ Len(mailbox) \in Nat \ {0}
          /\ Len(mailbox') = Len(mailbox) - 1
          /\ \A i \in 1..Len(mailbox') : mailbox'[i] = mailbox[i + 1]
          /\ Head(mailbox) = mailbox[1]
      BY <1>4, ReceiveMovesQueue DEF AskHandled, TypeOK
    <2>2. Asks' = {i \in 1..Len(mailbox') : i + 1 \in Asks}
      BY <2>1 DEF Asks, IsAsk
    <2>3. 1 \in Asks /\ mailbox[1].reply_to = r
      BY <1>4, <2>1 DEF AskHandled, Asks
    <2>4. \A i \in Asks : /\ mailbox[i].reply_to \in Request
                          /\ i # 1 => mailbox[i].reply_to # r
      <3>1. \A i \in Asks : mailbox[i].reply_to \in Request
        BY MessageFields, ElementOfSeq DEF Asks, TypeOK
      <3>2. \A i \in Asks : i # 1 => mailbox[i].reply_to # r
        BY <2>3 DEF RequestInv, WaitingIsQueued
      <3> QED  BY <3>1, <3>2
    <2>5. /\ \A q \in Request \ {r} : reply'[q] = reply[q]
          /\ reply[r] = "waiting" =>
               \/ reply'[r] = "answered"
               \/ reply'[r] = "closed" /\ mailbox[1].kind = "Decrypt"
          /\ reply[r] # "waiting" => reply'[r] = reply[r]
      BY <1>4, <2>1 DEF AskHandled
    <2> HIDE DEF r
    <2>6. WaitingIsQueued'
      <3>1. ASSUME NEW q \in Request, reply'[q] = "waiting"
            PROVE  \E i \in Asks' : mailbox'[i].reply_to = q
        <4>1. q # r /\ reply[q] = "waiting"
          BY <2>5, <3>1
        <4>2. PICK i \in Asks : mailbox[i].reply_to = q
          BY <4>1 DEF RequestInv, WaitingIsQueued
        <4>3. i # 1 /\ i \in 1..Len(mailbox)
          BY <2>3, <4>1, <4>2 DEF Asks
        <4>4. i - 1 \in 1..Len(mailbox') /\ (i - 1) + 1 = i
          BY <2>1, <4>3
        <4> QED  BY <2>1, <2>2, <4>2, <4>4
      <3>2. ASSUME NEW i \in Asks'
            PROVE  /\ i + 1 \in Asks /\ i + 1 # 1
                   /\ mailbox'[i] = mailbox[i + 1]
          BY <2>1, <2>2, <3>2
      <3>3. ASSUME NEW i \in Asks'
            PROVE  reply'[mailbox'[i].reply_to] \in {"waiting", "dropped"}
        BY <2>4, <2>5, <3>2, <3>3 DEF RequestInv, WaitingIsQueued
      <3>4. ASSUME NEW i \in Asks', NEW j \in Asks',
                   mailbox'[i].reply_to = mailbox'[j].reply_to
            PROVE  i = j
        <4>1. i + 1 = j + 1
          BY <3>2, <3>4 DEF RequestInv, WaitingIsQueued
        <4> QED  BY <2>1, <2>2, <4>1
      <3> QED  BY <3>1, <3>3, <3>4 DEF WaitingIsQueued
    <2>7. AsksAreTyped'
      BY <2>1, <2>2 DEF RequestInv, AsksAreTyped
    <2>8. ShutdownAbandonsNothing'
      BY <2>3, <2>4, <2>5 DEF RequestInv, ShutdownAbandonsNothing, AsksAreTyped
    <2> QED  BY <2>6, <2>7, <2>8 DEF RequestInv
  <1>5. CASE ControlHandled
    <2>1. /\ Len(mailbox) \in Nat \ {0}
          /\ Len(mailbox') = Len(mailbox) - 1
          /\ \A i \in 1..Len(mailbox') : mailbox'[i] = mailbox[i + 1]
          /\ Head(mailbox) = mailbox[1]
      BY <1>5, ReceiveMovesQueue DEF ControlHandled, TypeOK
    <2>2. Asks' = {i \in 1..Len(mailbox') : i + 1 \in Asks} /\ 1 \notin Asks
      BY <1>5, <2>1 DEF Asks, IsAsk, ControlHandled
    <2>3. \A i \in Asks' : i + 1 \in Asks /\ mailbox'[i] = mailbox[i + 1]
      BY <2>1, <2>2
    <2>4. \A i \in Asks : i - 1 \in Asks' /\ mailbox'[i - 1] = mailbox[i]
      BY <2>1, <2>2 DEF Asks
    <2>5. reply' = reply
      BY <1>5 DEF ControlHandled
    <2>6. WaitingIsQueued'
      <3>1. \A q \in Request : reply'[q] = "waiting" =>
              \E i \in Asks' : mailbox'[i].reply_to = q
        BY <2>4, <2>5 DEF RequestInv, WaitingIsQueued
      <3>2. \A i \in Asks' : reply'[mailbox'[i].reply_to] \in {"waiting", "dropped"}
        BY <2>3, <2>5 DEF RequestInv, WaitingIsQueued
      <3>3. ASSUME NEW i \in Asks', NEW j \in Asks',
                   mailbox'[i].reply_to = mailbox'[j].reply_to
            PROVE  i = j
        <4>1. i + 1 = j + 1
          BY <2>3, <3>3 DEF RequestInv, WaitingIsQueued
        <4> QED  BY <2>1, <2>2, <4>1
      <3> QED  BY <3>1, <3>2, <3>3 DEF WaitingIsQueued
    <2> QED
      BY <2>3, <2>5, <2>6 DEF RequestInv, AsksAreTyped, ShutdownAbandonsNothing
  <1>6. CASE Stop
    <2>1. Asks = {} /\ Queued = {} /\ mailbox' = mailbox
      BY <1>6 DEF Stop, StopWhen, Asks, Queued
    <2>2. \A r \in Request : reply'[r] = reply[r]
      BY <1>6, <2>1 DEF Stop
    <2> QED  BY <1>2, <2>1, <2>2
  <1>7. CASE UNCHANGED vars
    BY <1>2, <1>7 DEF vars
  <1>8. CASE Run
    BY <1>4, <1>5, <1>6, <1>8, AskHandlers, ControlHandlers DEF Run
  <1>9. CASE Callers
    <2>1. ASSUME NEW r \in Request, Refuse(r) PROVE RequestInv'
      BY <1>2, <2>1 DEF Refuse, TypeOK
    <2>2. ASSUME NEW R \in SUBSET Request, DropReceivers(R) PROVE RequestInv'
      BY <1>2, <2>2 DEF DropReceivers, TypeOK
    <2> QED  BY <1>1, <1>3, <1>9, <2>1, <2>2, ControlSenders DEF Callers
  <1> QED  BY <1>7, <1>8, <1>9 DEF Next

(***************************************************************************)
(* Configurations and the queue.                                           *)
(***************************************************************************)

FreshInv == UpdatesAscend /\ StatusAsksArePromised /\ StatusIsAsOfAsk

(* Everything compared below is a natural number. *)
LEMMA VersionsAreNumbers ==
  ASSUME TypeOK
  PROVE  /\ listing \in Nat /\ posted \in Nat
         /\ \A i \in Updates : i \in Nat /\ mailbox[i].config \in Version
                               /\ mailbox[i].config \in Nat
         /\ \A i \in Asks : i \in Nat /\ mailbox[i].reply_to \in Request
                            /\ askedAt[mailbox[i].reply_to] \in Nat
  <1>1. Len(mailbox) \in Nat /\ \A i \in 1..Len(mailbox) : mailbox[i] \in Message
    BY ElementOfSeq, LenProperties DEF TypeOK
  <1>2. \A i \in Updates : i \in Nat /\ mailbox[i].config \in Version
    BY <1>1, MessageFields DEF Updates
  <1>3. \A i \in Asks : i \in Nat /\ mailbox[i].reply_to \in Request
    BY <1>1, MessageFields DEF Asks
  <1>4. /\ listing \in Nat /\ posted \in Nat
        /\ \A r \in Request : askedAt[r] \in Nat
    <2>1. Version \cup {0} \subseteq Nat
      BY VersionAssumption
    <2>2. /\ listing \in Version \cup {0} /\ posted \in Version \cup {0}
          /\ \A r \in Request : askedAt[r] \in Version \cup {0}
      BY DEF TypeOK
    <2> QED  BY <2>1, <2>2
  <1>5. \A i \in Updates : mailbox[i].config \in Nat
    BY <1>2, VersionAssumption
  <1> QED  BY <1>2, <1>3, <1>4, <1>5

(* After a receive, the updates and asks are those that were behind the    *)
(* message taken, one place nearer.                                        *)
LEMMA ReceiveShifts ==
  ASSUME TypeOK, mailbox # <<>>, mailbox' = Tail(mailbox)
  PROVE  /\ \A i \in Updates' :
              i \in Nat \ {0} /\ i + 1 \in Updates /\ mailbox'[i] = mailbox[i + 1]
         /\ \A i \in Asks' :
              i \in Nat \ {0} /\ i + 1 \in Asks /\ mailbox'[i] = mailbox[i + 1]
         /\ \A i \in Updates :
              i \in Nat \ {0} /\ (i # 1 => i - 1 \in Updates' /\ mailbox'[i - 1] = mailbox[i])
         /\ Head(mailbox) = mailbox[1] /\ 1 \in 1..Len(mailbox)
  <1>1. /\ Len(mailbox) \in Nat \ {0}
        /\ Len(mailbox') = Len(mailbox) - 1
        /\ \A i \in 1..Len(mailbox') : mailbox'[i] = mailbox[i + 1]
        /\ Head(mailbox) = mailbox[1]
    BY ReceiveMovesQueue DEF TypeOK
  <1>2. \A i \in Updates' :
          i \in Nat \ {0} /\ i + 1 \in Updates /\ mailbox'[i] = mailbox[i + 1]
    BY <1>1 DEF Updates
  <1>3. \A i \in Asks' :
          i \in Nat \ {0} /\ i + 1 \in Asks /\ mailbox'[i] = mailbox[i + 1]
    BY <1>1 DEF Asks, IsAsk
  <1>4. ASSUME NEW i \in Updates, i # 1
        PROVE  i - 1 \in Updates' /\ mailbox'[i - 1] = mailbox[i]
    <2>1. i - 1 \in 1..Len(mailbox') /\ (i - 1) + 1 = i
      BY <1>1, <1>4 DEF Updates
    <2> QED  BY <1>1, <2>1 DEF Updates
  <1>5. \A i \in Updates : i \in Nat \ {0}
    BY <1>1 DEF Updates
  <1>6. 1 \in 1..Len(mailbox)
    BY <1>1
  <1> QED  BY <1>1, <1>2, <1>3, <1>4, <1>5, <1>6

(* A receive of anything but an UpdateConfig keeps the order and promises. *)
LEMMA ReceiveKeepsOrder ==
  ASSUME TypeOK, UpdatesAscend, StatusAsksArePromised,
         mailbox # <<>>, mailbox' = Tail(mailbox), Head(mailbox).kind # "UpdateConfig",
         UNCHANGED <<listing, posted, askedAt>>
  PROVE  UpdatesAscend' /\ StatusAsksArePromised'
  <1>1. 1 \notin Updates
    BY ReceiveShifts DEF Updates
  <1>2. \A i \in Updates : i - 1 \in Updates' /\ mailbox'[i - 1] = mailbox[i]
    BY <1>1, ReceiveShifts
  <1>3. UpdatesAscend'
    <2>1. \A i \in Updates' : listing' < mailbox'[i].config /\ mailbox'[i].config <= posted'
      BY ReceiveShifts DEF UpdatesAscend
    <2>2. ASSUME NEW i \in Updates', NEW j \in Updates', i < j
          PROVE  mailbox'[i].config < mailbox'[j].config
      <3>1. i + 1 \in Updates /\ j + 1 \in Updates /\ i + 1 < j + 1
        BY <2>2, ReceiveShifts
      <3> QED  BY <3>1, ReceiveShifts DEF UpdatesAscend
    <2>3. posted' = listing' \/ \E i \in Updates' : mailbox'[i].config = posted'
      BY <1>2 DEF UpdatesAscend
    <2> QED  BY <2>1, <2>2, <2>3 DEF UpdatesAscend
  <1>4. ASSUME NEW i \in Asks', mailbox'[i].kind = "GetStatus" PROVE Promised(i)'
    <2>1. i + 1 \in Asks /\ mailbox'[i] = mailbox[i + 1] /\ i \in Nat
      BY ReceiveShifts
    <2>2. Promised(i + 1)
      BY <1>4, <2>1 DEF StatusAsksArePromised
    <2> DEFINE a == askedAt[mailbox[i + 1].reply_to]
    <2>3. a = (askedAt[mailbox[i].reply_to])'
      BY <2>1
    <2>4. /\ \A j \in Updates : j < i + 1 => mailbox[j].config <= a
          /\ a = listing \/ \E j \in Updates : j < i + 1 /\ mailbox[j].config = a
      BY <2>2 DEF Promised
    <2> HIDE DEF a
    <2>5. ASSUME NEW j \in Updates', j < i PROVE mailbox'[j].config <= a
      <3>1. j + 1 \in Updates /\ mailbox'[j] = mailbox[j + 1] /\ j \in Nat
        BY ReceiveShifts
      <3>2. j + 1 < i + 1
        BY <2>1, <2>5, <3>1
      <3> QED  BY <2>4, <3>1, <3>2
    <2>6. a = listing' \/ \E j \in Updates' : j < i /\ mailbox'[j].config = a
      <3>1. ASSUME NEW j \in Updates, j < i + 1
            PROVE  j - 1 \in Updates' /\ j - 1 < i /\ mailbox'[j - 1] = mailbox[j]
        <4>1. j \in Nat
          BY ReceiveShifts
        <4>2. j - 1 < i
          BY <2>1, <3>1, <4>1
        <4> QED  BY <1>2, <4>2
      <3> QED  BY <2>4, <3>1
    <2> QED  BY <2>3, <2>5, <2>6 DEF Promised
  <1> QED  BY <1>3, <1>4 DEF StatusAsksArePromised

(* Handling an UpdateConfig shows what was promised behind it.             *)
LEMMA UpdateKeepsOrder ==
  ASSUME TypeOK, UpdatesAscend, StatusAsksArePromised, HandleUpdateConfig
  PROVE  UpdatesAscend' /\ StatusAsksArePromised' /\ listing' > listing
  <1>1. mailbox # <<>> /\ mailbox' = Tail(mailbox) /\ UNCHANGED <<posted, askedAt>>
    BY DEF HandleUpdateConfig, Receive
  <1>2. 1 \in Updates /\ listing' = mailbox[1].config
    BY <1>1, ReceiveShifts DEF HandleUpdateConfig, Receive, Updates
  <1>3. listing \in Nat /\ listing' \in Nat /\ posted \in Nat
    BY <1>2, VersionsAreNumbers
  <1>4. \A i \in Updates : mailbox[i].config \in Nat
    BY VersionsAreNumbers
  <1>5. listing < listing' /\ listing' <= posted
    BY <1>2 DEF UpdatesAscend
  <1>6. UpdatesAscend'
    <2>1. ASSUME NEW i \in Updates'
          PROVE  listing' < mailbox'[i].config /\ mailbox'[i].config <= posted'
      <3>1. i + 1 \in Updates /\ mailbox'[i] = mailbox[i + 1] /\ i \in Nat \ {0}
        BY <1>1, ReceiveShifts
      <3>2. 1 < i + 1
        BY <3>1
      <3> QED  BY <1>1, <1>2, <3>1, <3>2 DEF UpdatesAscend
    <2>2. ASSUME NEW i \in Updates', NEW j \in Updates', i < j
          PROVE  mailbox'[i].config < mailbox'[j].config
      <3>1. i + 1 \in Updates /\ j + 1 \in Updates /\ i + 1 < j + 1
        BY <1>1, <2>2, ReceiveShifts
      <3> QED  BY <1>1, <3>1, ReceiveShifts DEF UpdatesAscend
    <2>3. posted' = listing' \/ \E i \in Updates' : mailbox'[i].config = posted'
      <3>1. PICK i \in Updates : mailbox[i].config = posted
        BY <1>2, <1>3, <1>5 DEF UpdatesAscend
      <3>2. CASE i = 1
        BY <1>1, <1>2, <3>1, <3>2
      <3>3. CASE i # 1
        <4>1. i - 1 \in Updates' /\ mailbox'[i - 1] = mailbox[i]
          BY <1>1, <3>3, ReceiveShifts
        <4> QED  BY <1>1, <3>1, <4>1
      <3> QED  BY <3>2, <3>3
    <2> QED  BY <2>1, <2>2, <2>3 DEF UpdatesAscend
  <1>7. ASSUME NEW i \in Asks', mailbox'[i].kind = "GetStatus" PROVE Promised(i)'
    <2>1. i + 1 \in Asks /\ mailbox'[i] = mailbox[i + 1] /\ i \in Nat \ {0}
      BY <1>1, ReceiveShifts
    <2>2. Promised(i + 1)
      BY <1>7, <2>1 DEF StatusAsksArePromised
    <2> DEFINE a == askedAt[mailbox[i + 1].reply_to]
    <2>3. a = (askedAt[mailbox[i].reply_to])' /\ a \in Nat
      BY <1>1, <2>1, VersionsAreNumbers
    <2>4. /\ \A j \in Updates : j < i + 1 => mailbox[j].config <= a
          /\ a = listing \/ \E j \in Updates : j < i + 1 /\ mailbox[j].config = a
      BY <2>2 DEF Promised
    <2> HIDE DEF a
    <2>5. ASSUME NEW j \in Updates', j < i PROVE mailbox'[j].config <= a
      <3>1. j + 1 \in Updates /\ mailbox'[j] = mailbox[j + 1] /\ j \in Nat
        BY <1>1, ReceiveShifts
      <3>2. j + 1 < i + 1
        BY <2>1, <2>5, <3>1
      <3> QED  BY <2>4, <3>1, <3>2
    <2>6. a = listing' \/ \E j \in Updates' : j < i /\ mailbox'[j].config = a
      <3>1. listing' <= a
        BY <1>2, <2>1, <2>4
      <3>2. PICK j \in Updates : j < i + 1 /\ mailbox[j].config = a
        BY <1>3, <1>5, <2>3, <2>4, <3>1
      <3>3. CASE j = 1
        BY <1>2, <3>2, <3>3
      <3>4. CASE j # 1
        <4>1. j - 1 \in Updates' /\ mailbox'[j - 1] = mailbox[j] /\ j \in Nat
          BY <1>1, <3>4, ReceiveShifts
        <4> QED  BY <2>1, <3>2, <4>1
      <3> QED  BY <3>3, <3>4
    <2> QED  BY <2>3, <2>5, <2>6 DEF Promised
  <1> QED  BY <1>3, <1>5, <1>6, <1>7 DEF StatusAsksArePromised

(* A send leaves updates and asks where they are, and adds the message.    *)
LEMMA SendExtends ==
  ASSUME TypeOK, NEW m \in Message, mailbox' = Append(mailbox, m)
  PROVE  /\ \A i \in Updates : i \in Updates' /\ mailbox'[i] = mailbox[i]
         /\ \A i \in Updates' :
              \/ i \in Updates /\ mailbox'[i] = mailbox[i]
              \/ i = Len(mailbox') /\ m.kind = "UpdateConfig"
         /\ \A i \in Asks' :
              \/ i \in Asks /\ mailbox'[i] = mailbox[i]
              \/ i = Len(mailbox') /\ IsAsk(m)
         /\ m.kind = "UpdateConfig" => Len(mailbox') \in Updates'
         /\ mailbox'[Len(mailbox')] = m
         /\ \A i \in Updates : i < Len(mailbox')
         /\ \A i \in Asks : i < Len(mailbox')
  <1>1. /\ Len(mailbox) \in Nat
        /\ Len(mailbox') = Len(mailbox) + 1
        /\ \A i \in 1..Len(mailbox) : mailbox'[i] = mailbox[i]
        /\ mailbox'[Len(mailbox')] = m
    BY SendKeepsQueue DEF TypeOK
  <1>2. /\ \A i \in Updates : i \in 1..Len(mailbox) /\ i < Len(mailbox')
        /\ \A i \in Asks : i \in 1..Len(mailbox) /\ i < Len(mailbox')
    BY <1>1 DEF Updates, Asks
  <1>3. \A i \in 1..Len(mailbox') : i \in 1..Len(mailbox) \/ i = Len(mailbox')
    BY <1>1
  <1>4. \A i \in Updates : i \in Updates' /\ mailbox'[i] = mailbox[i]
    BY <1>1, <1>2 DEF Updates
  <1>5. \A i \in Updates' :
          \/ i \in Updates /\ mailbox'[i] = mailbox[i]
          \/ i = Len(mailbox') /\ m.kind = "UpdateConfig"
    BY <1>1, <1>3 DEF Updates
  <1>6. \A i \in Asks' :
          \/ i \in Asks /\ mailbox'[i] = mailbox[i]
          \/ i = Len(mailbox') /\ IsAsk(m)
    BY <1>1, <1>3 DEF Asks, IsAsk
  <1>7. m.kind = "UpdateConfig" => Len(mailbox') \in Updates'
    BY <1>1 DEF Updates
  <1> QED  BY <1>1, <1>2, <1>4, <1>5, <1>6, <1>7

(* A send of anything but an UpdateConfig keeps the order, and what the    *)
(* requests already in the queue were promised.                            *)
LEMMA SendKeepsOrder ==
  ASSUME TypeOK, UpdatesAscend, NEW m \in Message, mailbox' = Append(mailbox, m),
         m.kind # "UpdateConfig", UNCHANGED <<listing, posted>>
  PROVE  /\ UpdatesAscend'
         /\ \A i \in Asks :
              Promised(i) /\ askedAt'[mailbox[i].reply_to] = askedAt[mailbox[i].reply_to]
                => Promised(i)'
  <1>1. /\ \A i \in Updates : i \in Updates' /\ mailbox'[i] = mailbox[i]
        /\ \A i \in Updates' : i \in Updates /\ mailbox'[i] = mailbox[i]
    BY SendExtends
  <1>2. UpdatesAscend'
    <2>1. \A i \in Updates' : listing' < mailbox'[i].config /\ mailbox'[i].config <= posted'
      BY <1>1 DEF UpdatesAscend
    <2>2. ASSUME NEW i \in Updates', NEW j \in Updates', i < j
          PROVE  mailbox'[i].config < mailbox'[j].config
      BY <1>1, <2>2 DEF UpdatesAscend
    <2>3. posted' = listing' \/ \E i \in Updates' : mailbox'[i].config = posted'
      BY <1>1 DEF UpdatesAscend
    <2> QED  BY <2>1, <2>2, <2>3 DEF UpdatesAscend
  <1>3. ASSUME NEW i \in Asks, Promised(i),
               askedAt'[mailbox[i].reply_to] = askedAt[mailbox[i].reply_to]
        PROVE  Promised(i)'
    <2> DEFINE a == askedAt[mailbox[i].reply_to]
    <2>1. mailbox'[i] = mailbox[i]
      BY SendKeepsQueue DEF TypeOK, Asks
    <2>2. (askedAt[mailbox[i].reply_to])' = a
      BY <1>3, <2>1
    <2>3. /\ \A j \in Updates : j < i => mailbox[j].config <= a
          /\ a = listing \/ \E j \in Updates : j < i /\ mailbox[j].config = a
      BY <1>3 DEF Promised
    <2> HIDE DEF a
    <2>4. \A j \in Updates' : j < i => mailbox'[j].config <= a
      BY <1>1, <2>3
    <2>5. a = listing' \/ \E j \in Updates' : j < i /\ mailbox'[j].config = a
      BY <1>1, <2>3
    <2> QED  BY <2>2, <2>4, <2>5 DEF Promised
  <1> QED  BY <1>2, <1>3

(* Nothing is promised when the actor starts.                              *)
LEMMA FreshInit == Init => FreshInv
  BY DEF Init, FreshInv, UpdatesAscend, StatusAsksArePromised, StatusIsAsOfAsk, Updates, Asks

(* An ask promises its GetStatus the newest configuration accepted so far. *)
LEMMA FreshAsk ==
  ASSUME TypeOK, RequestInv, FreshInv, NEW r \in Request, NEW d \in Payload, Ask(r, d)
  PROVE  FreshInv'
  <1> DEFINE m == AskMsg(r, d)
  <1>1. m \in Message /\ IsAsk(m) /\ m.reply_to = r
    BY MessagesSent
  <1>2. m.kind # "UpdateConfig"
    BY <1>1, MessageFields
  <1> HIDE DEF m
  <1>3. mailbox' = Append(mailbox, m) /\ UNCHANGED <<listing, posted>>
    BY DEF Ask, Enqueue, m
  <1>4. /\ reply[r] = "unasked" /\ askedAt'[r] = posted
        /\ \A q \in Request \ {r} : reply'[q] = reply[q] /\ askedAt'[q] = askedAt[q]
        /\ reply'[r] = "waiting" /\ answer' = answer
    BY DEF Ask, Enqueue, TypeOK
  <1>5. UpdatesAscend'
    BY <1>1, <1>2, <1>3, SendKeepsOrder DEF FreshInv
  <1>6. ASSUME NEW i \in Asks', mailbox'[i].kind = "GetStatus" PROVE Promised(i)'
    <2>1. CASE i \in Asks /\ mailbox'[i] = mailbox[i]
      <3>1. mailbox[i].reply_to \in Request /\ mailbox[i].reply_to # r
        BY <1>4, <2>1, VersionsAreNumbers DEF RequestInv, WaitingIsQueued
      <3>2. askedAt'[mailbox[i].reply_to] = askedAt[mailbox[i].reply_to]
        BY <1>4, <3>1
      <3>3. Promised(i)
        BY <1>6, <2>1 DEF FreshInv, StatusAsksArePromised
      <3> QED  BY <1>1, <1>2, <1>3, <2>1, <3>2, <3>3, SendKeepsOrder DEF FreshInv
    <2>2. CASE i = Len(mailbox')
      <3>1. mailbox'[i] = m /\ (askedAt[mailbox[i].reply_to])' = posted
        BY <1>1, <1>3, <1>4, <2>2, SendExtends
      <3>2. \A j \in Updates' : j < i => mailbox'[j].config <= posted
        BY <1>3, <1>5 DEF UpdatesAscend
      <3>3. posted = listing' \/ \E j \in Updates' : j < i /\ mailbox'[j].config = posted
        <4>1. CASE posted = listing
          BY <1>3, <4>1
        <4>2. ASSUME NEW j \in Updates, mailbox[j].config = posted
              PROVE  j \in Updates' /\ j < i /\ mailbox'[j].config = posted
          BY <1>1, <1>3, <2>2, <4>2, SendExtends
        <4> QED  BY <4>1, <4>2 DEF FreshInv, UpdatesAscend
      <3> QED  BY <3>1, <3>2, <3>3 DEF Promised
    <2> QED  BY <1>1, <1>3, <2>1, <2>2, SendExtends
  <1>7. StatusIsAsOfAsk'
    BY <1>4 DEF FreshInv, StatusIsAsOfAsk
  <1> QED  BY <1>5, <1>6, <1>7 DEF FreshInv, StatusAsksArePromised

(* A posted configuration keeps every promise made before it.              *)
LEMMA FreshPost ==
  ASSUME TypeOK, FreshInv, NEW v \in Version, PostUpdate(v)
  PROVE  FreshInv'
  <1> DEFINE m == UpdateMsg(v)
  <1>1. m \in Message /\ ~IsAsk(m) /\ m.kind = "UpdateConfig" /\ m.config = v
    BY MessagesSent
  <1> HIDE DEF m
  <1>2. /\ mailbox' = Append(mailbox, m) /\ posted' = v /\ v > posted
        /\ UNCHANGED <<listing, reply, answer, askedAt>>
    BY DEF PostUpdate, TrySendUpdate, Enqueue, m
  <1>3. listing \in Nat /\ posted \in Nat /\ v \in Nat
    BY VersionsAreNumbers, VersionAssumption
  <1>4. listing <= posted
    <2>1. CASE posted = listing
      BY <1>3, <2>1
    <2>2. ASSUME NEW i \in Updates, mailbox[i].config = posted PROVE listing <= posted
      BY <1>3, <2>2 DEF FreshInv, UpdatesAscend
    <2> QED  BY <2>1, <2>2 DEF FreshInv, UpdatesAscend
  <1>5. \A i \in Updates : /\ listing < mailbox[i].config
                           /\ mailbox[i].config < v
                           /\ i < Len(mailbox')
    <2>1. \A i \in Updates : mailbox[i].config \in Nat
      BY VersionsAreNumbers
    <2>2. \A i \in Updates : listing < mailbox[i].config /\ mailbox[i].config <= posted
      BY DEF FreshInv, UpdatesAscend
    <2>3. \A i \in Updates : i < Len(mailbox')
      BY <1>1, <1>2, SendExtends
    <2> QED  BY <1>2, <1>3, <2>1, <2>2, <2>3
  <1>6. /\ \A i \in Updates : i \in Updates' /\ mailbox'[i] = mailbox[i]
        /\ \A i \in Updates' :
             \/ i \in Updates /\ mailbox'[i] = mailbox[i]
             \/ i = Len(mailbox') /\ mailbox'[i].config = v
        /\ Len(mailbox') \in Updates' /\ mailbox'[Len(mailbox')].config = v
    BY <1>1, <1>2, SendExtends
  <1>7. UpdatesAscend'
    <2>1. \A i \in Updates' : listing' < mailbox'[i].config /\ mailbox'[i].config <= posted'
      <3> SUFFICES ASSUME NEW i \in Updates'
                   PROVE  listing' < mailbox'[i].config /\ mailbox'[i].config <= posted'
        OBVIOUS
      <3>1. CASE i \in Updates /\ mailbox'[i] = mailbox[i]
        <4>1. listing < mailbox[i].config /\ mailbox[i].config < v /\ mailbox[i].config \in Nat
          BY <1>5, <3>1, VersionsAreNumbers
        <4> QED  BY <1>2, <1>3, <3>1, <4>1
      <3>2. CASE i = Len(mailbox') /\ mailbox'[i].config = v
        BY <1>2, <1>3, <1>4, <3>2
      <3> QED  BY <1>6, <3>1, <3>2
    <2>2. ASSUME NEW i \in Updates', NEW j \in Updates', i < j
          PROVE  mailbox'[i].config < mailbox'[j].config
      <3>1. Len(mailbox') \in Nat /\ \A k \in Updates : k \in Nat /\ k < Len(mailbox')
        BY <1>1, <1>2, <1>5, VersionsAreNumbers, SendKeepsQueue DEF TypeOK
      <3>2. CASE i \in Updates /\ j \in Updates
        BY <1>6, <2>2, <3>2 DEF FreshInv, UpdatesAscend
      <3>3. CASE i \in Updates /\ j \notin Updates
        BY <1>5, <1>6, <3>3
      <3>4. CASE i \notin Updates
        <4>1. i = Len(mailbox') /\ (j = i \/ j < i)
          BY <1>6, <3>1, <3>4
        <4> QED  BY <1>6, <2>2, <3>1, <4>1
      <3> QED  BY <3>2, <3>3, <3>4
    <2> QED  BY <1>2, <1>6, <2>1, <2>2 DEF UpdatesAscend
  <1>8. ASSUME NEW i \in Asks', mailbox'[i].kind = "GetStatus" PROVE Promised(i)'
    <2>1. i \in Asks /\ mailbox'[i] = mailbox[i]
      BY <1>1, <1>2, SendExtends
    <2>2. Promised(i)
      BY <1>8, <2>1 DEF FreshInv, StatusAsksArePromised
    <2> DEFINE a == askedAt[mailbox[i].reply_to]
    <2>3. (askedAt[mailbox[i].reply_to])' = a
      BY <1>2, <2>1
    <2>4. /\ \A j \in Updates : j < i => mailbox[j].config <= a
          /\ a = listing \/ \E j \in Updates : j < i /\ mailbox[j].config = a
      BY <2>2 DEF Promised
    <2> HIDE DEF a
    <2>5. ASSUME NEW j \in Updates', j < i PROVE j \in Updates /\ mailbox'[j] = mailbox[j]
      <3>1. i \in Nat /\ i < Len(mailbox') /\ Len(mailbox') \in Nat
        BY <1>1, <1>2, <2>1, VersionsAreNumbers, SendExtends, SendKeepsQueue DEF TypeOK
      <3>2. j # Len(mailbox')
        BY <2>5, <3>1
      <3> QED  BY <1>6, <3>2
    <2>6. \A j \in Updates' : j < i => mailbox'[j].config <= a
      BY <2>4, <2>5
    <2>7. a = listing' \/ \E j \in Updates' : j < i /\ mailbox'[j].config = a
      BY <1>2, <1>6, <2>4
    <2> QED  BY <2>3, <2>6, <2>7 DEF Promised
  <1>9. StatusIsAsOfAsk'
    BY <1>2 DEF FreshInv, StatusIsAsOfAsk
  <1> QED  BY <1>7, <1>8, <1>9 DEF FreshInv, StatusAsksArePromised

(* A GetStatus at the head of the queue finds the listing it was promised. *)
LEMMA PromiseKept ==
  ASSUME TypeOK, RequestInv, FreshInv, mailbox # <<>>, Head(mailbox).kind = "GetStatus"
  PROVE  /\ Head(mailbox).reply_to \in Request
         /\ Kind[Head(mailbox).reply_to] = "GetStatus"
         /\ askedAt[Head(mailbox).reply_to] = listing
  <1>1. Head(mailbox) = mailbox[1] /\ Len(mailbox) \in Nat \ {0}
    BY HeadTailProperties, EmptySeq DEF TypeOK
  <1>2. 1 \in Asks
    BY <1>1 DEF Asks, IsAsk, AskKind
  <1>3. Promised(1)
    BY <1>1, <1>2 DEF FreshInv, StatusAsksArePromised
  <1>4. \A j \in Updates : j \in Nat /\ ~(j < 1)
    BY <1>1 DEF Updates
  <1>5. askedAt[mailbox[1].reply_to] = listing
    BY <1>3, <1>4 DEF Promised
  <1> QED
    BY <1>1, <1>2, <1>5, VersionsAreNumbers DEF RequestInv, AsksAreTyped

(* Every step keeps the promises of the queued GetStatus messages.         *)
LEMMA FreshStep == TypeOK /\ RequestInv /\ FreshInv /\ [Next]_vars => FreshInv'
  <1> SUFFICES ASSUME TypeOK, RequestInv, FreshInv, [Next]_vars PROVE FreshInv'
    OBVIOUS
  <1>1. ASSUME UNCHANGED <<mailbox, listing, posted, askedAt, answer>>,
               \A r \in Request : reply'[r] = "answered" => reply[r] = "answered"
        PROVE  FreshInv'
    <2>1. UpdatesAscend' /\ StatusAsksArePromised'
      BY <1>1 DEF FreshInv, UpdatesAscend, StatusAsksArePromised, Promised, Updates, Asks
    <2>2. StatusIsAsOfAsk'
      BY <1>1 DEF FreshInv, StatusIsAsOfAsk
    <2> QED  BY <2>1, <2>2 DEF FreshInv
  <1>2. ASSUME NEW m \in {ShutdownMsg, StartMsg}, SendControl(m) PROVE FreshInv'
    <2>1. m \in Message /\ ~IsAsk(m) /\ m.kind # "UpdateConfig"
      BY MessagesSent
    <2>2. mailbox' = Append(mailbox, m) /\ UNCHANGED <<listing, posted, askedAt, answer, reply>>
      BY <1>2 DEF SendControl, Enqueue
    <2>3. UpdatesAscend'
      BY <2>1, <2>2, SendKeepsOrder DEF FreshInv
    <2>4. ASSUME NEW i \in Asks', mailbox'[i].kind = "GetStatus" PROVE Promised(i)'
      <3>1. i \in Asks /\ mailbox'[i] = mailbox[i]
        BY <2>1, <2>2, SendExtends
      <3>2. Promised(i)
        BY <2>4, <3>1 DEF FreshInv, StatusAsksArePromised
      <3> QED  BY <2>1, <2>2, <3>1, <3>2, SendKeepsOrder DEF FreshInv
    <2>5. StatusIsAsOfAsk'
      BY <2>2 DEF FreshInv, StatusIsAsOfAsk
    <2> QED  BY <2>3, <2>4, <2>5 DEF FreshInv, StatusAsksArePromised
  <1>3. CASE AskHandled
    <2> DEFINE r == Head(mailbox).reply_to
    <2>1. /\ mailbox # <<>> /\ mailbox' = Tail(mailbox) /\ IsAsk(Head(mailbox))
          /\ UNCHANGED <<listing, posted, askedAt>>
      BY <1>3 DEF AskHandled
    <2>2. UpdatesAscend' /\ StatusAsksArePromised'
      <3>1. Head(mailbox).kind # "UpdateConfig"
        BY <2>1 DEF IsAsk, AskKind
      <3> QED  BY <2>1, <3>1, ReceiveKeepsOrder DEF FreshInv
    <2>3. /\ \A q \in Request \ {r} : reply'[q] = reply[q] /\ answer'[q] = answer[q]
          /\ reply[r] # "waiting" => reply'[r] = reply[r] /\ answer'[r] = answer[r]
          /\ Head(mailbox).kind = "GetStatus" /\ reply[r] = "waiting" => answer'[r] = listing
      BY <1>3 DEF AskHandled
    <2>4. r \in Request /\ Kind[r] = Head(mailbox).kind
      <3>1. Head(mailbox) = mailbox[1] /\ 1 \in 1..Len(mailbox)
        BY <2>1, ReceiveShifts
      <3>2. 1 \in Asks
        BY <2>1, <3>1 DEF Asks
      <3> QED  BY <3>1, <3>2, VersionsAreNumbers DEF RequestInv, AsksAreTyped
    <2> HIDE DEF r
    <2>5. StatusIsAsOfAsk'
      <3> SUFFICES ASSUME NEW q \in Request, Kind[q] = "GetStatus", reply'[q] = "answered"
                   PROVE  answer'[q] = askedAt'[q]
        BY DEF StatusIsAsOfAsk
      <3>1. CASE q # r \/ reply[r] # "waiting"
        BY <2>1, <2>3, <2>4, <3>1 DEF FreshInv, StatusIsAsOfAsk
      <3>2. CASE q = r /\ reply[r] = "waiting"
        BY <2>1, <2>3, <2>4, <3>2, PromiseKept DEF r
      <3> QED  BY <3>1, <3>2
    <2> QED  BY <2>2, <2>5 DEF FreshInv
  <1>4. CASE HandleUpdateConfig
    <2>1. UpdatesAscend' /\ StatusAsksArePromised'
      BY <1>4, UpdateKeepsOrder DEF FreshInv
    <2>2. StatusIsAsOfAsk'
      BY <1>4 DEF HandleUpdateConfig, FreshInv, StatusIsAsOfAsk
    <2> QED  BY <2>1, <2>2 DEF FreshInv
  <1>5. CASE HandleStartListener \/ HandleShutdown
    <2>1. /\ mailbox # <<>> /\ mailbox' = Tail(mailbox) /\ Head(mailbox).kind # "UpdateConfig"
          /\ UNCHANGED <<listing, posted, askedAt, answer, reply>>
      BY <1>5 DEF HandleStartListener, HandleShutdown, Receive
    <2>2. UpdatesAscend' /\ StatusAsksArePromised'
      BY <2>1, ReceiveKeepsOrder DEF FreshInv
    <2>3. StatusIsAsOfAsk'
      BY <2>1 DEF FreshInv, StatusIsAsOfAsk
    <2> QED  BY <2>2, <2>3 DEF FreshInv
  <1>6. CASE Stop
    <2>1. UNCHANGED <<mailbox, listing, posted, askedAt, answer>>
      BY <1>6 DEF Stop, StopWhen
    <2>2. \A r \in Request : reply'[r] = "answered" => reply[r] = "answered"
      BY <1>6 DEF Stop
    <2> QED  BY <1>1, <2>1, <2>2
  <1>7. CASE UNCHANGED vars
    BY <1>1, <1>7 DEF vars
  <1>8. CASE Run
    BY <1>3, <1>4, <1>5, <1>6, <1>8, AskHandlers DEF Run
  <1>9. CASE Callers
    <2>1. ASSUME NEW r \in Request, Refuse(r) PROVE FreshInv'
      BY <1>1, <2>1 DEF Refuse, TypeOK
    <2>2. ASSUME NEW R \in SUBSET Request, DropReceivers(R) PROVE FreshInv'
      BY <1>1, <2>2 DEF DropReceivers, TypeOK
    <2> QED  BY <1>2, <1>9, <2>1, <2>2, FreshAsk, FreshPost DEF Callers
  <1> QED  BY <1>7, <1>8, <1>9 DEF Next

(***************************************************************************)
(* The theorems.                                                           *)
(***************************************************************************)

(* The inductive invariant: every reachable state has it.                  *)
THEOREM Invariance == SafeSpec => []IndInv
  <1>1. IndInv <=> TypeOK /\ RequestInv /\ FreshInv
    BY DEF IndInv, RequestInv, FreshInv
  <1>2. Init => TypeOK /\ RequestInv /\ FreshInv
    BY TypeInit, RequestInit, FreshInit
  <1>3. TypeOK /\ RequestInv /\ FreshInv /\ [Next]_vars
          => (TypeOK /\ RequestInv /\ FreshInv)'
    BY TypeStep, RequestStep, FreshStep
  <1> QED  BY <1>1, <1>2, <1>3, PTL DEF SafeSpec

(* No task awaits a oneshot whose sender has left the channel, whatever    *)
(* the requests, the capacity and the moment of a Shutdown.                *)
THEOREM NoLostWaiter == SafeSpec => []WaitingIsQueued
  <1>1. IndInv => WaitingIsQueued
    BY DEF IndInv
  <1> QED  BY <1>1, Invariance, PTL

(* A status answer is exactly as old as the ask.                           *)
THEOREM StatusFreshness == SafeSpec => []StatusIsAsOfAsk
  <1>1. IndInv => StatusIsAsOfAsk
    BY DEF IndInv
  <1> QED  BY <1>1, Invariance, PTL

(* A shutdown closes no request that the channel had accepted.             *)
THEOREM GracefulShutdown == SafeSpec => []ShutdownAbandonsNothing
  <1>1. IndInv => ShutdownAbandonsNothing
    BY DEF IndInv
  <1> QED  BY <1>1, Invariance, PTL

(* The listing only ever moves to a newer configuration.                   *)
THEOREM ListingMonotonic == SafeSpec => ListingNeverGoesBack
  <1>1. IndInv /\ [Next]_vars => [listing' >= listing]_listing
    <2> SUFFICES ASSUME IndInv, [Next]_vars, listing' # listing PROVE listing' >= listing
      OBVIOUS
    <2>1. HandleUpdateConfig
      BY DEF Next, Run, Callers, vars, Ask, Refuse, DropReceivers, PostUpdate, TrySendUpdate, Enqueue, SendControl,
             HandleGetStatus, HandleCertificatePublicDer, HandleDecrypt, HandleStartListener,
             HandleShutdown, Stop
    <2>2. listing \in Nat /\ listing' \in Nat
      <3>1. TypeOK /\ TypeOK'
        BY TypeStep DEF IndInv
      <3>2. listing \in Version \cup {0} /\ listing' \in Version \cup {0}
        BY <3>1 DEF TypeOK
      <3> QED  BY <3>2, VersionAssumption
    <2>3. listing' > listing
      BY <2>1, UpdateKeepsOrder DEF IndInv
    <2> QED  BY <2>2, <2>3
  <1> QED  BY <1>1, Invariance, PTL DEF SafeSpec, ListingNeverGoesBack

(***************************************************************************)
(* The refinement.  Every step of the mailbox and the actor is a step of   *)
(* AskContract, or leaves what the callers see as it is.                   *)
(***************************************************************************)

(* The actor starts in an initial state of the contract.                   *)
LEMMA ContractInit == Init => Contract!Init
  BY DEF Init, Contract!Init

(* Every step is a step of the contract, or none its callers can see.      *)
LEMMA ContractStep == IndInv /\ [Next]_vars => [Contract!Next]_(Contract!vars)
  <1> SUFFICES ASSUME IndInv, [Next]_vars
               PROVE  Contract!Next \/ UNCHANGED Contract!vars
    OBVIOUS
  <1> USE DEF IndInv
  <1>1. ASSUME NEW r \in Request, NEW d \in Payload, Ask(r, d) PROVE Contract!Issue(r)
    BY <1>1 DEF Ask, Enqueue, Contract!Issue
  <1>2. ASSUME NEW r \in Request, Refuse(r) PROVE Contract!Refuse(r)
    BY <1>2 DEF Refuse, Contract!Refuse
  <1>3. ASSUME NEW R \in SUBSET Request, DropReceivers(R) PROVE Contract!Abandon(R)
    BY <1>3 DEF DropReceivers, Contract!Abandon
  <1>4. ASSUME NEW v \in Version, PostUpdate(v) PROVE Contract!Post(v)
    BY <1>4 DEF PostUpdate, TrySendUpdate, Enqueue, Contract!Post
  <1>5. ASSUME NEW m, SendControl(m) PROVE UNCHANGED Contract!vars
    BY <1>5 DEF SendControl, Enqueue, Contract!vars
  <1>6. ASSUME HandleGetStatus \/ HandleCertificatePublicDer \/ HandleDecrypt
        PROVE  Contract!Next \/ UNCHANGED Contract!vars
    <2> DEFINE r == Head(mailbox).reply_to
    <2>1. AskHandled
      BY <1>6, AskHandlers
    <2>2. r \in Request /\ Kind[r] = Head(mailbox).kind
      <3>1. /\ mailbox # <<>> /\ mailbox' = Tail(mailbox) /\ IsAsk(Head(mailbox))
        BY <2>1 DEF AskHandled
      <3>2. Head(mailbox) = mailbox[1] /\ 1 \in 1..Len(mailbox)
        BY <3>1, ReceiveShifts
      <3>3. 1 \in Asks
        BY <3>1, <3>2 DEF Asks
      <3> QED  BY <3>2, <3>3, VersionsAreNumbers DEF AsksAreTyped
    <2>3. TypeOK'
      BY TypeStep
    <2>4. /\ UNCHANGED <<posted, askedAt, listing>>
          /\ reply' = [reply EXCEPT ![r] = reply'[r]]
          /\ answer' = [answer EXCEPT ![r] = answer'[r]]
      BY <2>1, <2>2, <2>3 DEF AskHandled, TypeOK
    <2>5. CASE reply[r] # "waiting"
      <3>1. reply'[r] = reply[r] /\ answer'[r] = answer[r]
        BY <2>1, <2>5 DEF AskHandled
      <3> QED  BY ZenonT(30), <2>2, <2>4, <3>1 DEF TypeOK, Contract!vars
    <2>6. CASE reply[r] = "waiting" /\ reply'[r] = "answered"
      <3>1. Contract!Fresh(r, answer'[r])
        <4> SUFFICES ASSUME Kind[r] = "GetStatus"
                     PROVE  askedAt[r] <= answer'[r] /\ answer'[r] <= posted
          BY DEF Contract!Fresh
        <4>1. mailbox # <<>> /\ answer'[r] = listing
          BY <2>1, <2>2, <2>6 DEF AskHandled
        <4>2. askedAt[r] = listing
          BY <2>2, <4>1, PromiseKept DEF RequestInv, FreshInv
        <4>3. listing \in Nat /\ posted \in Nat /\ \A i \in Updates : mailbox[i].config \in Nat
          BY VersionsAreNumbers
        <4>4. listing <= posted
          BY <4>3 DEF UpdatesAscend
        <4> QED  BY <4>1, <4>2, <4>3, <4>4
      <3>2. answer'[r] \in Answers
        BY <2>2, <2>3 DEF TypeOK
      <3>3. Contract!Answer(r)
        BY <2>4, <2>6, <3>1, <3>2 DEF Contract!Answer
      <3> QED  BY <2>2, <3>3 DEF Contract!Next
    <2>7. CASE reply[r] = "waiting" /\ reply'[r] # "answered"
      <3>1. reply'[r] = "closed" /\ Kind[r] = "Decrypt" /\ answer'[r] = answer[r]
        BY <2>1, <2>2, <2>7 DEF AskHandled
      <3>2. answer' = answer
        BY <2>2, <2>4, <3>1 DEF TypeOK
      <3>3. Contract!Close(r)
        BY <2>4, <2>7, <3>1, <3>2 DEF Contract!Close
      <3> QED  BY <2>2, <3>3 DEF Contract!Next
    <2> QED  BY <2>5, <2>6, <2>7
  <1>7. ASSUME HandleUpdateConfig \/ HandleStartListener \/ HandleShutdown
        PROVE  UNCHANGED Contract!vars
    BY <1>7, ControlHandlers DEF ControlHandled, Contract!vars
  <1>8. ASSUME Stop PROVE UNCHANGED Contract!vars
    <2>1. Queued = {}
      BY <1>8 DEF Stop, StopWhen, Queued
    <2> QED  BY <1>8, <2>1 DEF Stop, TypeOK, Contract!vars
  <1>9. CASE Run
    BY <1>6, <1>7, <1>8, <1>9 DEF Run
  <1>10. CASE Callers
    BY <1>1, <1>2, <1>3, <1>4, <1>5, <1>10 DEF Callers, Contract!Next
  <1>11. CASE UNCHANGED vars
    BY <1>11 DEF vars, Contract!vars
  <1> QED  BY <1>9, <1>10, <1>11 DEF Next

(* The mailbox and the actor keep the contract of ask: its safety part.    *)
(* Its fairness part is left to the runs (ImplementsAskContract).          *)
THEOREM AskContractIsKept == SafeSpec => Contract!SafeSpec
  BY ContractInit, ContractStep, Invariance, PTL DEF SafeSpec, Contract!SafeSpec
=============================================================================
