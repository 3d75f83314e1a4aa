---------------------------- MODULE AskContract ----------------------------
(***************************************************************************)
(* What `ActorRef::ask` promises its callers (proxy/src/actor_ref.rs),     *)
(* with no mailbox and no actor in sight.  A caller issues a request and   *)
(* holds the receiving half of a oneshot channel.  The request is then     *)
(* answered, or closed without an answer, or given up by the caller; or    *)
(* the very sending of it is refused because the actor closed its channel. *)
(*                                                                         *)
(* A GetStatus answer is as fresh as the configurations that had been      *)
(* accepted by the actor's channel when the request was: it may show a     *)
(* later one, never an earlier one.                                        *)
(***************************************************************************)
EXTENDS Naturals

CONSTANTS
  Request,   (* identities of the requests; each is asked at most once    *)
  Kind,      (* which ServerMessage a request is                          *)
  Version,   (* versions of the server configuration                      *)
  Value      (* what an answer may carry                                  *)

VARIABLES
  reply,     (* what the asking task can see of each request              *)
  answer,    (* value carried by an answered request                      *)
  posted,    (* newest configuration accepted by the actor's channel      *)
  askedAt    (* value of posted when the request was accepted             *)

vars == <<reply, answer, posted, askedAt>>

Init ==
  /\ reply = [r \in Request |-> "unasked"]
  /\ answer = [r \in Request |-> 0]
  /\ posted = 0
  /\ askedAt = [r \in Request |-> 0]

Issue(r) ==
  /\ reply[r] = "unasked"
  /\ reply' = [reply EXCEPT ![r] = "waiting"]
  /\ askedAt' = [askedAt EXCEPT ![r] = posted]
  /\ UNCHANGED <<answer, posted>>

Refuse(r) ==
  /\ reply[r] = "unasked"
  /\ reply' = [reply EXCEPT ![r] = "refused"]
  /\ UNCHANGED <<answer, posted, askedAt>>

(* The tasks holding these receivers end before an answer arrives. *)
Abandon(R) ==
  /\ reply' = [r \in Request |->
                 IF r \in R /\ reply[r] = "waiting" THEN "dropped" ELSE reply[r]]
  /\ UNCHANGED <<answer, posted, askedAt>>

Fresh(r, v) == Kind[r] = "GetStatus" => askedAt[r] <= v /\ v <= posted

Answer(r) ==
  /\ reply[r] = "waiting"
  /\ reply' = [reply EXCEPT ![r] = "answered"]
  /\ \E v \in Value : Fresh(r, v) /\ answer' = [answer EXCEPT ![r] = v]
  /\ UNCHANGED <<posted, askedAt>>

(* Only a Decrypt request may be closed without an answer. *)
Close(r) ==
  /\ reply[r] = "waiting"
  /\ Kind[r] = "Decrypt"
  /\ reply' = [reply EXCEPT ![r] = "closed"]
  /\ UNCHANGED <<answer, posted, askedAt>>

Post(v) ==
  /\ v > posted
  /\ posted' = v
  /\ UNCHANGED <<reply, answer, askedAt>>

Next ==
  \/ \E r \in Request : Issue(r) \/ Refuse(r) \/ Answer(r) \/ Close(r)
  \/ \E R \in SUBSET Request : Abandon(R)
  \/ \E v \in Version : Post(v)

Resolve(r) == Answer(r) \/ Close(r)

SafeSpec == Init /\ [][Next]_vars

(* No accepted request is left without an outcome. *)
Spec == SafeSpec /\ \A r \in Request : WF_vars(Resolve(r))
=============================================================================
