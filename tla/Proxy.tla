------------------------------- MODULE Proxy -------------------------------
(***************************************************************************)
(* The process (proxy/src/main.rs): the main task, the thread that runs    *)
(* the database connection, the listener that the server actor spawns, and *)
(* the actor itself (SA).  It starts from the configuration it finds in    *)
(* the database, is told of later ones by a callback, and ends when the    *)
(* listener does.                                                          *)
(*                                                                         *)
(* Operators that only PROJECT.json's mutants name (OnUpdateOld, ...) are   *)
(* slips the code could have made.                                         *)
(*                                                                         *)
(* The database and its SDK are external.  The connection is a stream of   *)
(* transactions, applied in order by the database thread, which also runs  *)
(* the callbacks; registering one, and disconnecting, are requests to that *)
(* thread.  The configuration row is known by its version.                 *)
(***************************************************************************)
EXTENDS Naturals, Sequences, FiniteSets

CONSTANTS
  Conn,        (* status connections                                       *)
  Capacity,    (* capacity of the server actor's channel                   *)
  MaxVersion,  (* bound: updates of the configuration row                  *)
  MayLose,     (* BOOLEAN: the database may fail, at any time              *)
  MayFail      (* BOOLEAN: bind, accept, set_nodelay and what              *)
               (* ServerActor::new needs may fail                          *)

ASSUME CapacityAssumption == Capacity \in Nat \ {0}
ASSUME BoundAssumption == MaxVersion \in Nat
ASSUME FaultAssumption == MayLose \in BOOLEAN /\ MayFail \in BOOLEAN

VARIABLES
  mailbox, rx, listing, listener, reply, answer, posted, askedAt,  (* SA's *)
  row,        (* version of the row in the database                        *)
  stream,     (* transactions on their way to the proxy                    *)
  subscribed, (* are there any?  A subscription may fail.                  *)
  cached,     (* version in the client's cache, None before it has one     *)
  callback,   (* on_update: "none", "requested" or "registered"            *)
  seen,       (* history: newest version the callback was given            *)
  thread,     (* the database thread: "none", "running", "leaving", "done" *)
              (* or "failed", if it ended by a panic                       *)
  lost,       (* was the connection to the database lost?                  *)
  stage,      (* where the main task is                                    *)
  config,     (* the configuration main started from                       *)
  accepting   (* run_listener: "none", "binding", "accepting" or "dead"    *)

serverVars == <<mailbox, rx, listing, listener, reply, answer, posted, askedAt>>
databaseVars == <<row, stream, subscribed, cached, callback, seen, thread, lost>>
mainVars == <<stage, config>>
vars == <<serverVars, databaseVars, mainVars, accepting>>

Version == 0..MaxVersion
None == MaxVersion + 1

SA == INSTANCE ServerActor WITH
  Request <- Conn, Kind <- [c \in Conn |-> "GetStatus"], Payload <- {0}

Init ==
  /\ SA!Init
  /\ row = 0 /\ stream = <<>> /\ cached = None
  /\ callback = "none" /\ seen = 0 /\ thread = "none" /\ lost = FALSE
  /\ subscribed = FALSE
  /\ stage = "connecting" /\ config = None
  /\ accepting = "none"

(* The end of main is the end of the process, of every task in it. *)
Ended == stage \in {"exited", "panicked"}
Running == ~Ended

-----------------------------------------------------------------------------
(* The database. *)

(* The update_motd reducer, called by anyone. *)
UpdateMotd ==
  /\ Running
  /\ row < MaxVersion
  /\ row' = row + 1
  /\ stream' = IF subscribed THEN Append(stream, row') ELSE stream
  /\ UNCHANGED <<serverVars, subscribed, cached, callback, seen, thread, lost, mainVars, accepting>>

(* on_disconnected logs the loss, and no more; run_threaded returns, or    *)
(* panics on an error it does not know.                                    *)
LoseConnection ==
  /\ Running
  /\ MayLose /\ thread \in {"running", "leaving"}
  /\ lost' = TRUE
  /\ thread' \in {"done", "failed"}
  /\ UNCHANGED <<serverVars, row, stream, subscribed, cached, callback, seen, mainVars, accepting>>

(* The callback's try_send: in a full or closed channel the update is lost *)
(* but for a line in the log.                                              *)
TrySend(v) ==
  \/ SA!TrySendUpdate(v)
  \/ /\ ~(rx = "open" /\ SA!HasRoom)
     /\ UNCHANGED serverVars

(* on_update, once it is registered.  The row is the one that is cached.   *)
OnUpdateOld(old, new) == seen' = new /\ TrySend(old) /\ UNCHANGED thread
OnUpdateUnwrapped(old, new) ==
  /\ seen' = new /\ TrySend(new)
  /\ thread' = IF UNCHANGED mailbox THEN "failed" ELSE thread
OnUpdate(old, new) == seen' = new /\ TrySend(new) /\ UNCHANGED thread

(* The thread applies a transaction.  The first inserts the row: on_update *)
(* is not about that.                                                      *)
ApplyTransaction ==
  /\ Running
  /\ thread = "running" /\ stream # <<>>
  /\ cached' = Head(stream)
  /\ stream' = Tail(stream)
  /\ IF callback = "registered" /\ cached # None
     THEN OnUpdate(cached, Head(stream))
     ELSE UNCHANGED <<serverVars, seen, thread>>
  /\ UNCHANGED <<row, subscribed, callback, lost, mainVars, accepting>>

ApplyRequest ==
  /\ Running
  /\ thread = "running" /\ callback = "requested"
  /\ callback' = "registered"
  /\ UNCHANGED <<serverVars, row, stream, subscribed, cached, seen, thread, lost, mainVars, accepting>>

LeaveThread ==
  /\ Running
  /\ thread = "leaving"
  /\ thread' = "done"
  /\ UNCHANGED <<serverVars, row, stream, subscribed, cached, callback, seen, lost, mainVars, accepting>>

-----------------------------------------------------------------------------
(* The main task. *)

(* connect_to_db, whose `expect` panics, and run_threaded. *)
Connect ==
  /\ Running
  /\ stage = "connecting"
  /\ \/ stage' = "connected" /\ thread' = "running"
     \/ MayLose /\ stage' = "panicked" /\ UNCHANGED thread
  /\ UNCHANGED <<serverVars, row, stream, subscribed, cached, callback, seen, lost, config, accepting>>

(* A subscription is applied at the version of that moment; of one that    *)
(* fails, on_sub_error tells the log alone.                                *)
Subscribe ==
  /\ Running
  /\ stage = "connected"
  /\ stage' = "polling"
  /\ \/ subscribed' = TRUE /\ stream' = Append(stream, row)
     \/ MayLose /\ UNCHANGED <<subscribed, stream>>
  /\ UNCHANGED <<serverVars, row, cached, callback, seen, thread, lost, config, accepting>>

(* `while config.is_none()`: the cache is looked at every 20 ms. *)
Poll ==
  /\ Running
  /\ stage = "polling" /\ cached # None
  /\ config' = cached
  /\ stage' = "spawning"
  /\ UNCHANGED <<serverVars, databaseVars, accepting>>

(* Server::spawn awaits ServerActor::new, which may go and fetch Mojang's  *)
(* keys, and panics, here in main, when it cannot have an HTTP client or   *)
(* an RSA key.  Before it the variables of SA have their initial values    *)
(* and mean nothing.                                                       *)
SpawnBlank ==
  /\ Running
  /\ stage = "spawning"
  /\ listing' = 0 /\ posted' = config
  /\ stage' = "starting"
  /\ UNCHANGED <<mailbox, rx, listener, reply, answer, askedAt, databaseVars, config, accepting>>
Spawn ==
  /\ Running
  /\ stage = "spawning"
  /\ \/ listing' = config /\ posted' = config /\ stage' = "starting"
     \/ MayFail /\ stage' = "panicked" /\ UNCHANGED <<listing, posted>>
  /\ UNCHANGED <<mailbox, rx, listener, reply, answer, askedAt, databaseVars, config, accepting>>

Start ==
  /\ Running
  /\ stage = "starting"
  /\ SA!SendControl(SA!StartMsg)
  /\ stage' = "started"
  /\ UNCHANGED <<databaseVars, config, accepting>>

Register ==
  /\ Running
  /\ stage = "started"
  /\ callback' = "requested"
  /\ stage' = "serving"
  /\ UNCHANGED <<serverVars, row, stream, subscribed, cached, seen, thread, lost, config, accepting>>

(* death_receiver resolves, with Ok or with Err.  Disconnecting from a     *)
(* database that is gone fails, and `expect` panics; after a panic of the  *)
(* thread the SDK need not know that it is gone.                           *)
DisconnectNever ==
  /\ Running
  /\ stage = "serving" /\ accepting = "dead"
  /\ stage' = "joining"
  /\ UNCHANGED <<serverVars, databaseVars, config, accepting>>
Disconnect ==
  /\ Running
  /\ stage = "serving" /\ accepting = "dead"
  /\ \/ thread = "running" /\ thread' = "leaving" /\ stage' = "joining"
     \/ thread # "running" /\ stage' = "panicked" /\ UNCHANGED thread
     \/ thread = "failed" /\ stage' = "joining" /\ UNCHANGED thread
  /\ UNCHANGED <<serverVars, row, stream, subscribed, cached, callback, seen, lost, config, accepting>>

(* `db_handle.join().unwrap()`: a panic of the thread becomes main's own.  *)
Join ==
  /\ Running
  /\ stage = "joining"
  /\ \/ thread = "done" /\ stage' = "exited"
     \/ thread = "failed" /\ stage' = "panicked"
  /\ UNCHANGED <<serverVars, databaseVars, config, accepting>>

-----------------------------------------------------------------------------
(* The server actor and the listener it spawns. *)

ServerStep ==
  /\ Running
  /\ stage \notin {"connecting", "connected", "polling", "spawning"}
  /\ SA!Run
  /\ accepting' = IF listener' # listener THEN "binding" ELSE accepting
  /\ UNCHANGED <<databaseVars, mainVars>>

Bind ==
  /\ Running
  /\ accepting = "binding"
  /\ accepting' = "accepting"
  /\ UNCHANGED <<serverVars, databaseVars, mainVars>>

(* bind fails or set_nodelay fails, and the listener panics, dropping      *)
(* `death`; or accept fails and it breaks, sending it.                     *)
ListenerFails ==
  /\ Running
  /\ MayFail /\ accepting \in {"binding", "accepting"}
  /\ accepting' = "dead"
  /\ UNCHANGED <<serverVars, databaseVars, mainVars>>

(* SIGINT, SIGHUP or SIGTERM, noticed by the listener alone. *)
Signal ==
  /\ Running
  /\ accepting = "accepting"
  /\ accepting' = "dead"
  /\ UNCHANGED <<serverVars, databaseVars, mainVars>>

(* A status connection is accepted and gets as far as asking. *)
AskStatus(c) ==
  /\ Running
  /\ accepting = "accepting"
  /\ SA!Ask(c, 0)
  /\ UNCHANGED <<databaseVars, mainVars, accepting>>

Database == ApplyTransaction \/ ApplyRequest \/ LeaveThread
Main == Connect \/ Subscribe \/ Poll \/ Spawn \/ Start \/ Register \/ Disconnect \/ Join
Outside ==
  \/ UpdateMotd \/ LoseConnection
  \/ ListenerFails \/ Signal
  \/ \E c \in Conn : AskStatus(c)

Next == Database \/ Main \/ ServerStep \/ Bind \/ Outside

SafeSpec == Init /\ [][Next]_vars

(* The thread, the tasks and the listener run; nobody has to signal, lose  *)
(* a connection, connect or update.                                        *)
Fairness ==
  /\ WF_vars(Database)
  /\ WF_vars(Main)
  /\ WF_vars(ServerStep)
  /\ WF_vars(Bind)

Spec == SafeSpec /\ Fairness

-----------------------------------------------------------------------------
(* What the process guarantees.                                            *)

(* Types of the process's state. *)
TypeOK ==
  /\ SA!TypeOK
  /\ row \in Version /\ stream \in Seq(Version)
  /\ cached \in Version \cup {None} /\ config \in Version \cup {None}
  /\ callback \in {"none", "requested", "registered"} /\ seen \in Version
  /\ thread \in {"none", "running", "leaving", "done", "failed"}
  /\ subscribed \in BOOLEAN /\ lost \in BOOLEAN
  /\ stage \in {"connecting", "connected", "polling", "spawning", "starting", "started", "serving",
                "joining", "exited", "panicked"}
  /\ accepting \in {"none", "binding", "accepting", "dead"}

(* The listing only moves forward, although main reads the first one from  *)
(* a cache that another thread is writing, and updates come from that      *)
(* thread: no update posted is older than the configuration started from.  *)
NothingOlderIsPosted ==
  \A m \in SA!Queued : m.kind = "UpdateConfig" => m.config > config /\ m.config > listing

(* A status connection is answered with no configuration older than the    *)
(* newest that the server actor had been given when the question entered   *)
(* its channel, be it the one main polled from the cache or one that the   *)
(* callback posted from its thread, and with none that was never given;    *)
(* and no question is closed unanswered.  The end of the process may leave *)
(* questions open: only the safety part of the contract is kept.           *)
KeepsAskContract == SA!Contract!SafeSpec

(* An update that the callback is given is lost (main.rs:96-102) only when *)
(* the actor is as far behind as its channel is long: questions that it    *)
(* has yet to answer, updates that it accepted and has yet to apply, and   *)
(* the start, fill it between them.  Nothing else takes a slot, neither an *)
(* answered question nor an applied update, and no update is lost to a     *)
(* channel that a faster actor would have kept up with.                    *)
Backlog ==
  Cardinality({c \in Conn : reply[c] = "waiting"}) + (posted - listing)
    + (IF listener THEN 0 ELSE 1)
UpdateLostOnlyToBacklog ==
  [][seen' # seen => posted' = seen' \/ Backlog >= Capacity]_vars

(* Once the server actor is spawned, main panics only when the connection  *)
(* to the database was lost: neither the callback, which runs on the       *)
(* thread that main joins, nor a failure of the listener makes it panic.   *)
(* Before that it panics when it cannot connect or cannot build the actor. *)
PanicsOnlyWhenLost ==
  [][stage' = "panicked" /\ stage # "panicked" =>
       lost' \/ stage \in {"connecting", "spawning"}]_vars

(* Once the listener is dead, by a signal, an error or a panic, the        *)
(* process ends; nothing in the server actor can hold it up.               *)
DeadListenerEndsProcess == accepting = "dead" ~> Ended

(* With a database to talk to, the proxy starts to accept, unless its      *)
(* listener fails or it ends, for want of a server actor.                  *)
ProxyStarts == stage = "connecting" ~> accepting \in {"accepting", "dead"} \/ Ended

(* An update that the callback is given reaches the status screen.         *)
SeenUpdateIsShown == \A v \in Version : seen = v ~> listing >= v \/ Ended

(* The row's motd is the one that the status screen shows, once updates    *)
(* stop (server/src/server/config.rs:55).                                  *)
MotdIsShown == \A v \in Version : <>[](row = v) => <>(listing = v \/ Ended)

(* A proxy that accepts clients, and that has lost its connection to the   *)
(* database, then or on its way there, ends (main.rs:177: "print a note,   *)
(* then exit the process").                                                *)
DisconnectEndsProcess == lost /\ accepting = "accepting" ~> Ended
=============================================================================
