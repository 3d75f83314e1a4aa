---------------------------- MODULE ServerActor ----------------------------
(***************************************************************************)
(* The server actor of the proxy (proxy/src/server_actor/actor.rs): a task *)
(* that owns the cached server listing and the RSA key, and serves one     *)
(* message at a time from a bounded tokio mpsc channel.  Client tasks talk *)
(* to it through `ask` (actor_ref.rs): a oneshot sender travels in the     *)
(* message, the task awaits the receiver.  The configuration callback of   *)
(* main.rs posts UpdateConfig with `try_send`.                             *)
(*                                                                         *)
(* The operators named only in PROJECT.json's mutants (HasRoomTooLong,     *)
(* EnqueueFirst, ...) are slips the code could have made: each breaks one   *)
(* of the properties below.                                                *)
(*                                                                         *)
(* The callers are an open environment here: any request may be asked at   *)
(* any time.  ClientActors composes the same actions with the real ones.   *)
(***************************************************************************)
EXTENDS Naturals, Sequences

CONSTANTS
  Request,    (* identities of the oneshot channels; each is asked once    *)
  Kind,       (* which asking ServerMessage a request is                   *)
  Capacity,   (* mpsc::channel(Capacity); 16 in Server::spawn              *)
  Version,    (* versions of the configuration row the callback may post   *)
  Payload     (* what a Decrypt message may carry, see Decryptable         *)

AskKind == {"GetStatus", "CertificatePublicDer", "Decrypt"}

ASSUME KindAssumption == Kind \in [Request -> AskKind]
ASSUME CapacityAssumption == Capacity \in Nat \ {0}
ASSUME VersionAssumption == Version \subseteq Nat
ASSUME PayloadAssumption == Payload \subseteq Nat

VARIABLES
  mailbox,    (* the mpsc channel, oldest message first                    *)
  rx,         (* its receiver: "open", "closed" by shutdown, or "dropped"  *)
  listing,    (* version of the configuration CachedStatus was built from  *)
  listener,   (* has start_listener spawned run_listener?                  *)
  reply,      (* per request, the oneshot as the asking task sees it       *)
  answer,     (* per request, the value sent through the oneshot           *)
  posted,     (* history: newest configuration the channel has accepted    *)
  askedAt     (* history: value of posted when the request was accepted    *)

vars == <<mailbox, rx, listing, listener, reply, answer, posted, askedAt>>

(***************************************************************************)
(* Messages.  A Decrypt payload is the plaintext the RSA key recovers from *)
(* it; 0 stands for bytes that do not decrypt.                             *)
(***************************************************************************)
AskMsg(r, d) == [kind |-> Kind[r], reply_to |-> r, data |-> d]
UpdateMsg(v) == [kind |-> "UpdateConfig", config |-> v]
ShutdownMsg  == [kind |-> "Shutdown"]
StartMsg     == [kind |-> "StartListener"]

Message ==
  [kind : AskKind, reply_to : Request, data : Payload]
    \cup [kind : {"UpdateConfig"}, config : Version]
    \cup {ShutdownMsg, StartMsg}

IsAsk(m) == m.kind \in AskKind

Decryptable(d) == d # 0
PublicDer == 1

(***************************************************************************)
(* `Server::spawn`: the actor starts with the configuration main.rs read.  *)
(***************************************************************************)
Init ==
  /\ mailbox = <<>>
  /\ rx = "open"
  /\ listing = 0
  /\ listener = FALSE
  /\ reply = [r \in Request |-> "unasked"]
  /\ answer = [r \in Request |-> 0]
  /\ posted = 0
  /\ askedAt = [r \in Request |-> 0]

-----------------------------------------------------------------------------
(* The sending side. *)

HasRoomTooLong == Len(mailbox) <= Capacity
HasRoomTooShort == Len(mailbox) + 1 < Capacity
HasRoom == Len(mailbox) < Capacity

EnqueueFirst(m) == rx = "open" /\ HasRoom /\ mailbox' = <<m>> \o mailbox
Enqueue(m) == rx = "open" /\ HasRoom /\ mailbox' = Append(mailbox, m)

(* `ask(..).await` got a permit of the channel: the message is queued. *)
Ask(r, d) ==
  /\ reply[r] = "unasked"
  /\ Enqueue(AskMsg(r, d))
  /\ reply' = [reply EXCEPT ![r] = "waiting"]
  /\ askedAt' = [askedAt EXCEPT ![r] = posted]
  /\ UNCHANGED <<rx, listing, listener, answer, posted>>

(* `ask(..).await` returns SendError: the actor closed its channel. *)
Refuse(r) ==
  /\ rx # "open"
  /\ reply[r] = "unasked"
  /\ reply' = [reply EXCEPT ![r] = "refused"]
  /\ UNCHANGED <<mailbox, rx, listing, listener, answer, posted, askedAt>>

(* Tasks end while they hold receivers of requests R: those are dropped. *)
DropReceivers(R) ==
  /\ reply' = [r \in Request |->
                 IF r \in R /\ reply[r] = "waiting" THEN "dropped" ELSE reply[r]]
  /\ UNCHANGED <<mailbox, rx, listing, listener, answer, posted, askedAt>>

(* `try_send(UpdateConfig)` succeeds.  One that fails, in a full or closed *)
(* channel, changes nothing here.                                          *)
TrySendUpdate(v) ==
  /\ Enqueue(UpdateMsg(v))
  /\ posted' = v
  /\ UNCHANGED <<rx, listing, listener, reply, answer, askedAt>>

(* Row versions only grow: the callback runs on the database thread, once  *)
(* per update of the row, in order (Proxy).                                *)
PostUpdate(v) == v > posted /\ TrySendUpdate(v)

(* `Server::start`, and Shutdown from whoever holds a Server. *)
SendControl(m) ==
  /\ Enqueue(m)
  /\ UNCHANGED <<rx, listing, listener, reply, answer, posted, askedAt>>

-----------------------------------------------------------------------------
(* handle_message.  An answer to a receiver that is gone is discarded      *)
(* (`let _ = reply_to.send(..)`).                                          *)

Receive(kind) ==
  /\ mailbox # <<>>
  /\ Head(mailbox).kind = kind
  /\ mailbox' = Tail(mailbox)

ResolveAnswersOnly(r, outcome) ==
  reply' = [reply EXCEPT ![r] = IF @ = "waiting" /\ outcome = "answered" THEN outcome ELSE @]
Resolve(r, outcome) ==
  reply' = [reply EXCEPT ![r] = IF @ = "waiting" THEN outcome ELSE @]

DeliverToDropped(r, v) ==
  /\ reply' = [reply EXCEPT ![r] = "answered"]
  /\ answer' = [answer EXCEPT ![r] = v]
DeliverToAnyone(r, v) ==
  \E q \in Request :
    /\ Kind[q] = Kind[r] /\ reply[q] = "waiting"
    /\ reply' = [reply EXCEPT ![q] = "answered"]
    /\ answer' = [answer EXCEPT ![q] = v]
Deliver(r, v) ==
  /\ Resolve(r, "answered")
  /\ answer' = [answer EXCEPT ![r] = IF reply[r] = "waiting" THEN v ELSE @]

HandleGetStatus ==
  /\ Receive("GetStatus")
  /\ Deliver(Head(mailbox).reply_to, listing)
  /\ UNCHANGED <<rx, listing, listener, posted, askedAt>>

HandleCertificatePublicDer ==
  /\ Receive("CertificatePublicDer")
  /\ Deliver(Head(mailbox).reply_to, PublicDer)
  /\ UNCHANGED <<rx, listing, listener, posted, askedAt>>

(* A failed decryption drops reply_to, which closes the oneshot. *)
HandleDecrypt ==
  /\ Receive("Decrypt")
  /\ LET m == Head(mailbox)
     IN  \/ /\ Decryptable(m.data)
            /\ Deliver(m.reply_to, m.data)
         \/ /\ ~Decryptable(m.data)
            /\ Resolve(m.reply_to, "closed")
            /\ UNCHANGED answer
  /\ UNCHANGED <<rx, listing, listener, posted, askedAt>>

HandleUpdateConfig ==
  /\ Receive("UpdateConfig")
  /\ listing' = Head(mailbox).config
  /\ UNCHANGED <<rx, listener, reply, answer, posted, askedAt>>

HandleStartListenerUnpolled ==
  /\ Receive("StartListener")
  /\ UNCHANGED <<rx, listing, listener, reply, answer, posted, askedAt>>
HandleStartListener ==
  /\ Receive("StartListener")
  /\ listener' = TRUE
  /\ UNCHANGED <<rx, listing, reply, answer, posted, askedAt>>

(* The tasks `self.tasks.wait()` waits for.  start_listener tracks the     *)
(* listener and every client task in a TaskTracker of its own, so the      *)
(* actor's tracker never holds any.                                        *)
TrackedClients == {r \in Request : reply[r] = "waiting"}
TrackedTasks == {}

HandleShutdown ==
  /\ Receive("Shutdown")
  /\ TrackedTasks = {}
  /\ rx' = "closed"
  /\ UNCHANGED <<listing, listener, reply, answer, posted, askedAt>>

(* `recv` yields None once the channel is closed and drained; the loop of  *)
(* `run` ends and the actor, with the receiver, is dropped.                *)
StopAtOnce == rx = "closed"
StopWhen == rx = "closed" /\ mailbox = <<>>

(* Dropping the receiver drops what is still queued, and the oneshot       *)
(* senders in it.                                                          *)
Queued == {mailbox[i] : i \in 1..Len(mailbox)}
Stop ==
  /\ StopWhen
  /\ rx' = "dropped"
  /\ mailbox' = <<>>
  /\ reply' = [r \in Request |->
                 IF reply[r] = "waiting" /\ \E m \in Queued : IsAsk(m) /\ m.reply_to = r
                 THEN "closed" ELSE reply[r]]
  /\ UNCHANGED <<listing, listener, answer, posted, askedAt>>

Run ==
  \/ HandleGetStatus \/ HandleCertificatePublicDer \/ HandleDecrypt
  \/ HandleUpdateConfig \/ HandleStartListener \/ HandleShutdown
  \/ Stop

Callers ==
  \/ \E r \in Request, d \in Payload : Ask(r, d)
  \/ \E r \in Request : Refuse(r)
  \/ \E R \in SUBSET Request : DropReceivers(R)
  \/ \E v \in Version : PostUpdate(v)
  \/ \E m \in {ShutdownMsg, StartMsg} : SendControl(m)

Next == Run \/ Callers

(* tokio keeps polling the actor's task while its channel has something.   *)
Fairness == WF_vars(Run)

SafeSpec == Init /\ [][Next]_vars
Spec == SafeSpec /\ Fairness

-----------------------------------------------------------------------------
(* What the actor guarantees.                                              *)

Answers == Version \cup Payload \cup {0, PublicDer}

(* Types of the actor's state: the channel of Server::spawn never holds    *)
(* more than its capacity.                                                 *)
TypeOK ==
  /\ mailbox \in Seq(Message) /\ Len(mailbox) <= Capacity
  /\ rx \in {"open", "closed", "dropped"}
  /\ listing \in Version \cup {0}
  /\ listener \in BOOLEAN
  /\ reply \in [Request -> {"unasked", "waiting", "answered", "closed",
                            "refused", "dropped"}]
  /\ answer \in [Request -> Answers]
  /\ posted \in Version \cup {0}
  /\ askedAt \in [Request -> Version \cup {0}]

Asks == {i \in 1..Len(mailbox) : IsAsk(mailbox[i])}

(* A task never awaits a oneshot whose sender is gone from the channel:    *)
(* while a request waits, one message carries its reply_to, and no second  *)
(* message does.  This is what makes the un-timed `recv.await` of the      *)
(* client tasks safe, shutdown included.                                   *)
WaitingIsQueued ==
  /\ \A r \in Request : reply[r] = "waiting" =>
       \E i \in Asks : mailbox[i].reply_to = r
  /\ \A i \in Asks : reply[mailbox[i].reply_to] \in {"waiting", "dropped"}
  /\ \A i, j \in Asks : mailbox[i].reply_to = mailbox[j].reply_to => i = j

(* A status answer is the listing as of the moment the request entered the *)
(* channel: every configuration accepted before it, none accepted after.   *)
(* The status task asks when the handshake ends and may use the answer     *)
(* seconds later; this says precisely how stale it is then.                *)
StatusIsAsOfAsk ==
  \A r \in Request :
    Kind[r] = "GetStatus" /\ reply[r] = "answered" => answer[r] = askedAt[r]

(* Closing the channel does not abandon what it had accepted: a request is *)
(* closed without an answer only by a failed decryption, never because the *)
(* run loop ended with messages left.                                      *)
ShutdownAbandonsNothing ==
  \A r \in Request : reply[r] = "closed" => Kind[r] = "Decrypt"

(* The listing shown to players never goes back to an older configuration. *)
ListingNeverGoesBack == [][listing' >= listing]_listing

(* An accepted configuration reaches the listing, unless a newer one is    *)
(* accepted first; a Shutdown queued around it does not lose it.           *)
AcceptedConfigIsApplied ==
  \A v \in Version : posted = v ~> listing = v \/ posted # v

(* Shutdown terminates: the actor stops once the message is accepted, even *)
(* while client tasks still await answers queued behind it.                *)
ShutdownStops == (ShutdownMsg \in Queued) ~> (rx = "dropped")

(***************************************************************************)
(* The strengthening of these invariants that every step preserves         *)
(* (ServerActorProofs).  A queued request knows its kind; the queued       *)
(* configurations ascend from listing to posted; and what a queued         *)
(* GetStatus was promised is, at its turn, what listing will be.           *)
(***************************************************************************)
Updates == {i \in 1..Len(mailbox) : mailbox[i].kind = "UpdateConfig"}

AsksAreTyped == \A i \in Asks : mailbox[i].kind = Kind[mailbox[i].reply_to]

UpdatesAscend ==
  /\ \A i \in Updates : listing < mailbox[i].config /\ mailbox[i].config <= posted
  /\ \A i, j \in Updates : i < j => mailbox[i].config < mailbox[j].config
  /\ posted = listing \/ \E i \in Updates : mailbox[i].config = posted

Promised(i) ==
  LET a == askedAt[mailbox[i].reply_to]
  IN  /\ \A j \in Updates : j < i => mailbox[j].config <= a
      /\ a = listing \/ \E j \in Updates : j < i /\ mailbox[j].config = a
StatusAsksArePromised ==
  \A i \in Asks : mailbox[i].kind = "GetStatus" => Promised(i)

IndInv ==
  /\ TypeOK
  /\ WaitingIsQueued
  /\ StatusIsAsOfAsk
  /\ ShutdownAbandonsNothing
  /\ AsksAreTyped
  /\ UpdatesAscend
  /\ StatusAsksArePromised

Contract == INSTANCE AskContract WITH Value <- Answers
(* The mailbox and the actor together implement the contract of ask; with  *)
(* it, every accepted request gets an outcome, with no timeout to help it. *)
ImplementsAskContract == Contract!Spec
=============================================================================
