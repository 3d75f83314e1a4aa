# SpaceTimeMC in TLA+

SpaceTimeMC is a Minecraft proxy (`src/proxy`, Rust and tokio) that keeps its
configuration and its players in a SpacetimeDB module (`src/server`). These are
specifications of the proxy's concurrent core and of the module's tables,
translated from their source, the TLC models that check them, and proofs about
them that TLAPS checks.

Paths below are relative to `src/proxy/src/` unless they start with `src/`.

## 1. The system

### Parts, their state, their operations

| Part | Source | State | Operations |
|---|---|---|---|
| main | `main.rs` | the configuration it started from; where it is in its line of awaits | connect, subscribe, poll the cache every 20 ms, `Server::spawn`, `start`, register `on_update`, await the listener's death, disconnect, join |
| database thread | SpacetimeDB SDK (external) | the client cache, the stream of transactions, the registered callbacks | apply a transaction and run callbacks, take up a registration, disconnect |
| server actor | `server_actor/actor.rs` | a bounded mpsc channel (16), `CachedStatus`, `KeyStore`, a `TaskTracker` | one handler per `ServerMessage`: `Shutdown`, `GetStatus`, `StartListener`, `UpdateConfig`, `CertificatePublicDer`, `Decrypt` |
| `ask` | `actor_ref.rs`, `err.rs` | a oneshot channel per request | `ask`, `try_ask`, `send`, `try_send` |
| listener | `actor.rs` `run_listener` | the TCP listener, three signal streams | accept and spawn a client task; stop and report death |
| client actors | `client_actor/{handshake,status,login,configuration}.rs` | a framer, a `Server` handle, oneshot receivers, the verify token | straight lines of `read`, `ask`, await, `send`, `shutdown` |
| StreamActor | `client_actor/stream_actor.rs` | none | `read` with a 5 s timer, `send`, `shutdown` |
| encrypting socket | `client_actor/mc_socket.rs` | clear or encrypted, two CFB8 states, `pending_bytes` | `poll_read`, `poll_write`, `encrypt` |
| frame codec | `client_actor/net.rs` | `Len` or `Data(n)` | `decode`, `encode` |
| cached status | `server_actor/connection_cache.rs` | the response and its JSON; a flag per player | `from_config`, `get_status_string`; `add_player`, `remove_player`, `update` are not called yet |
| key store | `server_actor/key_store.rs` | an RSA key | `get_public_der`, `decrypt` |
| database module | `src/server/src` | tables `server_basic_config` and `player` | reducers `init`, `update_motd`, `add_player` |

The rest (`src/macros`, `module_bindings`, `protocol`, `types_support.rs`) keeps
no state.

### How they interact

- Client tasks talk to the server actor by messages through its bounded channel
  and get answers through oneshot channels. `ask(..).await` is suspended while
  the channel is full and fails once it is closed; the await of the answer has
  no timeout.
- The database thread runs the `on_update` callback, which posts `UpdateConfig`
  with `try_send`: in a full or closed channel the update is dropped.
- main starts the listener by a message to the actor, the actor spawns it, and
  the listener tells main of its death through a oneshot that a panic drops.
- A connection is one framer handed from actor to actor. `HandshakeActor` hands
  it whole to `StatusActor`; `LoginHandler::spawn` and `LoginActor::encrypt`
  take it apart, and whatever it had buffered is lost.
- `LoginActor` writes through the socket, which turns encrypted in the middle.

### What is hard

Messages of many tasks interleave in one queue with updates and `Shutdown`;
`Shutdown` waits for tasks while tasks wait for the actor; awaits without a
timeout; a timer that wins over a frame that is there; a status asked for early
and used late; an update that races the start or meets a full channel; partial
writes of bytes that cannot be encrypted again; a panic in one task that ends
the process. `PROJECT.json` lists each under `hazards`, at its line.

### What makes each part correct

- `ask`: every accepted request gets one outcome, and a status as fresh as the
  configurations accepted before it.
- Server actor: the listing never goes back; a shutdown ends and abandons
  nothing it had accepted.
- Client actors: a peer sees a prefix of a whole dialogue; a connection is
  encrypted only after its own token was proved; every connection ends.
- Socket: a pipe of plain bytes, however the transport splits what it takes.
- Codec: the frames come out as they were sent, however the bytes are cut.
- Cached status: the count that is answered is that of the players who are listed.
- Database module: one configuration; a profile is one entity, for good.
- Process: an update that is made is shown; the end of the listener, or of the
  database connection, is the end of the process. (Two of these three do not
  hold: see Findings.)

## 2. The modules

| Module | Models | Uses |
|---|---|---|
| `AskContract` | what `ask` promises, with no queue in sight | |
| `ServerActor` | the channel and the actor, callers an open environment | `AskContract` (refined) |
| `ClientActors` | listener, connections and their actors | `ServerActor` (composed) |
| `BytePipe` | what a socket promises to the framer | |
| `MCSocket` | the encrypting socket, byte by byte | `BytePipe` (refined) |
| `MCCodec` | the frame decoder, byte by byte, and the framer that calls it | |
| `CachedStatus` | the status, its JSON and its count of players | |
| `Proxy` | main, database thread, listener, actor | `ServerActor` (composed), `AskContract` (refined, safety) |
| `Database` | the module's tables and reducers, under a host that restarts | |
| `VarIntProofs` | that a VarInt written is the VarInt read, by induction | `MCCodec` |
| `ServerActorProofs`, `ClientActorsProofs`, `MCSocketProofs`, `MCCodecProofs`, `CachedStatusProofs`, `ProxyProofs`, `DatabaseProofs` | theorems about each | its module; those of the compositions use `ServerActorProofs` too, `MCCodecProofs` uses `VarIntProofs` |
| `MCServerActor`, `MCClientActors`, `MCMCSocket`, `MCMCCodec`, `MCCachedStatus`, `MCProxy`, `MCDatabase` | constants for TLC | its module |

Operators that only the mutants of `PROJECT.json` name stand before the
definition they replace.

### ServerActor

One action per sender operation and per handler. `mailbox` is the mpsc channel;
`rx` its receiver, open until `shutdown` closes it, dropped when the loop of
`run` ends. `reply[r]` is a oneshot seen from the asking task: *unasked*,
*waiting*, *answered*, *closed* (sender dropped), *refused* (`SendError`) or
*dropped* (the task is gone). `listing` is the version of the configuration that
`CachedStatus` was built from; the JSON and all other fields are abstracted to
it here (the module `CachedStatus` has them). `posted` and `askedAt` are history variables: nothing reads them in a guard
but the order of versions in `PostUpdate`, which `Proxy` discharges
(`NothingOlderIsPosted`).

`self.tasks.wait()` is modelled by what it waits for, `TrackedTasks`. It is the
empty set because `start_listener` spawns into a `TaskTracker` of its own and
the actor's own tracker never gets a task; a mutant puts the waiting clients
there, and the deadlock appears.

A `Decrypt` payload is the plaintext it decrypts to, 0 when it does not.

Nobody sends `Shutdown` yet: the code has its handler alone. What is said of a
shutdown holds for the first who does.

### ClientActors

`stage[c]` is the await at which the task of connection `c` is suspended; an
action is the code from one await to the next. Reads are `Read` (a frame came
and parsed) and `ReadFails` (timer, end of stream, error, or a frame of another
kind). `wire` and `buf` separate what the peer has sent from what `Framed` has
read ahead, since the two changes of framer in `login.rs` drop the latter
(`IntoParts`). The server actor is composed by conjunction: a task's ask is
`SA!Ask`, its end drops its receivers, and the actor's `Run` interleaves.

A peer sends ahead whatever it can know: of a login all but the
`EncryptionResponse`, for which it needs the proxy's request, and what comes behind
that. An `Orderly` one also waits for LoginSuccess before it acknowledges it, as the
protocol has it. So a LoginStart may come together with its handshake and be lost
with the framer (`login.rs:26`); `cut` records at which stages a change of framer
dropped frames (`login.rs:26`, `login.rs:138`).

A packet may fail to serialise (`stream_actor.rs:69`): then nothing is sent and
`send` returns false. Only `login.rs:180` heeds that; `StatusActor::run` and the
LoginSuccess go on. `unwritten` records such packets, and `MayNotWrite` says whether
there may be any. A send that does serialise completes: `MCSocket` models what is
under it, and its result does not depend on it.

Frames are whole packets and decoding them is not modelled here. An
`EncryptionResponse` is known by what its two fields decrypt to.

### MCSocket

The byte at place *n* of a stream is the number *n*, and a cipher byte carries
the place at which it was encrypted, so that a byte encrypted twice, skipped or
decrypted out of place is a different byte. `PollWritePending`,
`PollWriteReady` and `PollWriteError` are the three outcomes of the transport's
`poll_write`, `Offered` and `Remaining` the code around it. The framer above
(external) offers its whole write buffer and advances it by the count returned.
`BytePipe` is refined with: offered = what the actors encoded, delivered = what
a peer can decrypt, broken = a write failed. Two guards are assumptions about what
is outside: `Encrypt` happens with nothing left to read, since an orderly peer encrypts what it
sends after the key exchange and sends nothing in between; and `WF(Write)` has the
transport drain, since `send` has no timer that would give up.

### MCCodec

A byte is a continuation bit and a digit, in a base that is 128 in the code and
2 in the run; a VarInt is at most `VarIntMax` bytes and its value wraps to a
signed integer. `state` is the `DecodeState`, `buf` the buffer that `decode` is
given. `DecodeHead` and `DecodeBody` are the two halves of one call, which the
code separates by the assignment of `Data(n)`; their disjuncts are its outcomes
(`Ok(None)`, an error, a panic, the packet). The integer type has no value that
`VarIntMax` digits cannot write (`RoomAssumption`: 2^32 <= 128^5), and a body
starts with an id and is shorter than half of `Wrap` (`BodyAssumption`: a length
is an `i32`). `turn` says who goes on: the actor
between two reads, the decoder, or the socket. `Rebuild` is `login.rs`: the
codec is kept, the buffer is not. `cut` records that it dropped something, and
the properties about the stream hold until then. `ClientActors` may take frames
as wholes because of this module.

### CachedStatus

One action per operation: `FromConfig`, `Update`, `AddPlayer`, `RemovePlayer`, each
of which renders the JSON by itself. Only the first has a caller yet; the others are
there, with their callers a TODO (`server_actor/actor.rs:164`).
`listed` are the players whose `added_to_server_listing` is set; the flag belongs
to the player and outlives the status that `UpdateConfig` replaces. The counter
is unsigned with `Wrap` values (2^32): at its end a build with overflow checks
panics and one without goes round, and `AddPlayer` and `RemovePlayer` may do either;
a panic leaves the player's flag as it was set and the JSON as it was. `uncounted` is
history: how many were listed when `from_config` set the count to 0. Icon and
version are constants of the response and left out.

### Database

Reducers are transactions of the host, one at a time, whose panic undoes what
they wrote. A `profile_id_str` is a text that `FromStr` maps to a profile, several
texts to the same one, or to `Invalid`. The host (external) numbers entities by a
sequence that goes round after `MaxEntity` (2^32 - 1), may or may not keep the
number of an aborted insert, and loses what it had reserved at a restart. `motd`
and `wrapped` are history.

### Proxy

main is a line of stages, from `connecting` on; connecting and subscribing may
fail, the first with a panic, the second with a line in the log (`subscribed`
stays FALSE, and main polls for ever); `Server::spawn` builds the actor in main itself,
and panics there without an HTTP client or an RSA key (`server_actor/actor.rs:121`,
`server_actor/key_store.rs:42`). The database thread takes transactions from `stream`
and registrations from main (`callback`). It ends when main disconnects or when an
established connection is lost (`lost`), then by returning or by a panic (*failed*),
which `join().unwrap()` hands on to main. `cached` is the row in the client's
cache. The SDK is modelled from its use: transactions are applied in order on
one thread, callbacks run there, and a registration reaches the thread some
time after the call. Of the connections only the asks for a status remain,
enough to fill the channel. What precedes the listener's signal handlers, when
a signal just kills the process, is left out.

## 3. The runs

All bounds are constants of the `.cfg` files.

| Run | Question | Bounds |
|---|---|---|
| `server_actor` | Does the actor keep `AskContract` and always stop? | one request of each kind, 2 configurations, 2 payloads, channel of 2, deadlock checked |
| `client_actors` | Is a connection right under any peer, timer, update, Shutdown and failing serialisation? | 1 connection, 12 scripts, channel of 2, 1 update |
| `client_served` | Are two connections that share the queue served, each with its own answers? | 2 connections, one orderly, 5 scripts, channel of 2, 1 update, no timers, everything serialises |
| `cached_status` | Does the count of players stay right? | 4 players, 2 configurations, a counter of 5 values |
| `database` | Do the tables keep their keys? | 3 profiles in 4 spellings and one text that is none, 2 names, 2 motds, 4 entity ids, deadlock checked |
| `mc_socket` | Is the socket a pipe? | frames of 1 and 3 bytes, 6 bytes out, 4 in |
| `mc_codec` | Do the frames come out as sent, however they are cut? | 3 frames of 1 to 3 bytes of body, 2 stray bytes, binary digits, VarInts of 3 bytes, integers of 3 bits |
| `proxy` | Is the process right under every fault? | 2 status connections, channel of 2, 3 updates |
| `proxy_room` | Does it start, and show what it hears when that finds room? | 2 connections, channel of 5, 2 updates |
| `proxy_gap`, `proxy_full`, `proxy_lost` | the findings | 1, 2, 1 updates |

Why the bounds are enough. The actor handles one message at a time and its
answers depend on the listing alone; two updates and one request of each kind in
a channel of two give every order of accept, handle, close and drop, and the
proofs remove the bounds altogether. A connection asks at most four questions
and sends two packets, so one connection's behaviours are finite and all
explored; a second one, in `client_served`, is there for interference through a
queue that one of them can fill: tokens and secrets of both are in it at once, in
any order, good ones and bad. Four players and a counter of five values
let the count go below 0, where it wraps, and every player be forgotten once.
Four entity ids for three profiles let the sequence go round and meet an id that
is taken as well as one that is free. A frame of
three bytes can be split twice, a frame of one not at all, and two frames meet
in a buffer only after a failed write: six bytes hold all of these. In
`mc_codec` a body of three bytes has a length of two and an id may have two, so
a read can end inside either; three frames suffice for one to be decoded, one
to be buffered and one to be on the wire; two stray bytes make an overlong or a
negative length, or a body shorter than its id. In
`proxy_room` a channel of five has room for two asks, two updates and
`StartListener` at once: there every update finds room.

`CHECK_DEADLOCK FALSE` where the system really may stop: all connections closed,
all bytes sent, the process ended. `cached_status` stops when its task panics.

### Fairness, and why the code justifies it

- The server actor's handlers (`WF(Run)`): tokio polls a task whose channel has
  something, and no handler awaits anything but `TrackedTasks`.
- Each connection's task, timer included: tokio polls tasks that were woken. Weak
  fairness is enough for a task that waits for room in the channel because
  each connection asks at most four times, so the channel drains for good; tokio
  serves waiting senders in order, which is stronger.
- main, the database thread and the listener's bind: as above, or an OS thread.
- The transport of `MCSocket` answers ready or fails, not pending for ever. What
  the actors send to a connection is a few hundred bytes, which fit the send
  buffer of its socket even when the peer reads nothing. This is an assumption
  about today's packets: `send` has no timer, and an actor that sent more could
  be held up by its peer. Reads deliver what has arrived.
- Peers are fair only in `DiligentSpec`, for the two properties about peers that
  do send; nothing obliges a peer, an updater, a signal or a fault elsewhere.

### What the passing runs show

- `WaitingIsQueued`, `AwaitsResolve`: the awaits without a timeout are safe,
  shutdown included, because a sender is always in the queue or has been used or
  dropped. `ImplementsAskContract`, which includes the contract's fairness: every
  accepted ask gets its one outcome.
- `StatusIsAsOfAsk`: a status is exactly as old as its ask. `ShutdownAbandonsNothing`:
  a close drains. `AcceptedConfigIsApplied`: also for configurations.
- `ShutdownStops`, and `EveryConnectionEnds` for the connections: there is no
  cycle of waiting between the actor and its clients.
- `DialoguesAreWhole`: `StatusActor::run` would send a pong without a status if
  the status were not answered; it always is. A pong without a status is sent only
  if the status did not serialise.
- `EncryptedOnlyAfterProof`, with another connection's questions and answers of the
  same kind in the shared queue.
- `EveryConnectionEnds`, the one with a short secret, which panics, included.
- `StatusIsServed` to a peer that sends all its packets at once, `LoginIsServed` to one
  that waits for nothing but LoginSuccess, unless its LoginStart came with its
  handshake and was lost to `into_parts`; what is then promised of the connection is
  `EveryConnectionEnds`, by the timer. The second `into_parts`, at encryption, never
  costs such a peer anything.
- `WireIsTheStream`, `ReadIsTheStream`, `ImplementsPipe`: the retry logic of `pending_bytes` is right for a caller
  that offers the same bytes again, as `Framed` does; `PendingIsInBuffer` says
  that its arithmetic does not underflow then.
- `FramesAreTheStream`, `EveryFrameArrives`: the decoder
  neither skips, repeats nor waits for bytes it has; a frame is out once its
  last byte was read from the socket. `FramesNeverFail`: its
  errors and its two possible panics (a negative length, a body shorter than its
  id) need a stream that is not made of frames.
- `OnlineIsListed`: the count that a GetStatus is answered with is that of the listed
  players, however they join, leave and are updated, except for those a `from_config`
  forgot. That exception is what the code does: `UpdateConfig` calls `from_config`,
  not `update` (`server_actor/actor.rs:166`, with a TODO), so once players are
  counted, a motd changed while n are online shows 0 until n have left, and then
  underflows. `PanicsOnlyUncounted`: nothing else can make it underflow.
- `OneConfiguration`: the row main starts from and the row its callback heeds are
  one, however often `init` runs. `ProfilesAreEntities`, `EntityIsStable`: who
  comes back, under another name or spelling, is who it was. A player is refused
  for want of an id only after 2^32 of them (`PanicsOnlyWhenWrapped`).
- `NothingOlderIsPosted`: the listing goes forward although main reads its first
  configuration from a cache that another thread writes.
- `PanicsOnlyWhenLost`: after `Spawn` nothing but the database makes main panic, by
  `disconnect().expect` or by the thread it joins. `DeadListenerEndsProcess`, whatever
  the actor is doing. `ProxyStarts`, with a database that holds, unless the process
  ends for want of a server actor.
- `UpdateLostOnlyToBacklog`: an update is lost (finding 2) only when what the actor has
  yet to do fills the channel: questions that wait, updates accepted and not applied,
  the start. Nothing else takes a slot. `SeenUpdateIsShown`: an update that finds room is
  shown.
- `KeepsAskContract`: to a status connection the whole process is `AskContract`:
  `Spawn` posts the configuration main polled, the callback the later ones, from
  another thread, and no answer is older than what the actor had been given when
  it was asked. Without the contract's fairness: a process that ends leaves
  questions open.

Each property has a mutant in `PROJECT.json`: an operator of the module that
changes one definition the way a slip in the code could (`HasRoomTooLong`,
`StopAtOnce`, `DeliverToAnyone`, `NothingRemains`, `RemoveUnrendered`, ...) and makes the
property fail under the same `.cfg`.

### Findings

1. `proxy_gap`: a motd changed after main has read the configuration and before
   it has registered `on_update` is not shown, ever (`main.rs:65`, `main.rs:87`).
2. `proxy_full`: an update that meets a full channel is logged and lost
   (`main.rs:96`).
3. `proxy_lost`: comments say that the disconnect callback exits the process; it
   logs, and a proxy that has lost its connection goes on to start, or goes on
   accepting clients, with the configuration of then (`main.rs:178`).

## 4. The proofs

Every theorem is for every value of the constants that the modules' `ASSUME`s
allow; TLC evaluates these in the runs. `S` is `SafeSpec`, or `Spec` where a
module states no fairness.

| Module | Theorem | States |
|---|---|---|
| `ServerActorProofs` | `TypeCorrect` | `S => []TypeOK` |
| | `Invariance` | `S => []IndInv` |
| | `NoLostWaiter` | `S => []WaitingIsQueued` |
| | `StatusFreshness` | `S => []StatusIsAsOfAsk` |
| | `GracefulShutdown` | `S => []ShutdownAbandonsNothing` |
| | `ListingMonotonic` | `S => ListingNeverGoesBack` |
| | `AskContractIsKept` | `S => Contract!SafeSpec` |
| `ClientActorsProofs` | `AsksKeepContract` | `S => SA!Contract!SafeSpec` |
| | `TypeCorrect` | `S => []TypeOK` |
| | `WholeDialogues` | `S => []DialoguesAreWhole` |
| | `ProofBeforeEncryption` | `S => []EncryptedOnlyAfterProof` |
| | `AwaitsAreSafe` | `S => []AwaitsResolve` |
| `MCSocketProofs` | `TypeCorrect` | `S => []TypeOK` |
| | `NoUnderflow` | `S => []PendingIsInBuffer` |
| | `WireIsRight` | `S => []WireIsTheStream` |
| | `ReadIsRight` | `S => []ReadIsTheStream` |
| | `SocketIsAPipe` | `S => Pipe!SafeSpec` |
| `VarIntProofs` | `WrittenIsRead` | what `VarInt[u]` writes, `ReadVarInt` reads as `u`, with its length, before anything |
| | `PartIsShort` | a proper prefix of `VarInt[u]` is read as `"short"` |
| `MCCodecProofs` | `TypeCorrect` | `S => []TypeOK` |
| | `StreamIsRight` | `S => []FramesAreTheStream` |
| | `NoFailure` | `S => []FramesNeverFail` |
| `CachedStatusProofs` | `TypeCorrect` | `S => []TypeOK` |
| | `CountIsRight` | `S => []OnlineIsListed` |
| | `NoOverflowUnlessUncounted` | `S => []PanicsOnlyUncounted` |
| `ProxyProofs` | `TypeCorrect` | `S => []TypeOK` |
| | `OnlyNewerIsPosted` | `S => []NothingOlderIsPosted` |
| | `AskContractIsKept` | `S => KeepsAskContract` |
| | `ListingMonotonic` | `S => SA!ListingNeverGoesBack` |
| | `NoPanicUnlessLost` | `S => PanicsOnlyWhenLost` |
| | `QueueStaysBounded` | `S => []QueueIsBounded`, for finitely many connections |
| | `LostOnlyToBacklog` | `S => UpdateLostOnlyToBacklog`, for finitely many connections |
| `DatabaseProofs` | `TypeCorrect` | `S => []TypeOK` |
| | `OneConfigurationRow` | `S => []OneConfiguration` |
| | `EntitiesAreUnique` | `S => []ProfilesAreEntities` |
| | `RefusedOnlyWhenWrapped` | `S => []PanicsOnlyWhenWrapped` |
| | `EntitiesStay` | `S => EntityIsStable` |

**Server actor.** None of the three safety properties is inductive. That a status
answer equals what had been accepted when it was asked depends on what is in
the queue in front of the request, so `IndInv` adds: queued requests have their
kind (`AsksAreTyped`); the queued configurations ascend, from above `listing`
up to `posted` (`UpdatesAscend`); and for each queued GetStatus, the newest
configuration in front of it, or `listing` if there is none, is the one it was
promised (`StatusAsksArePromised`). The proof splits it in two halves that are
each inductive over `TypeOK`: `RequestInv`, about requests and the queue, and
`FreshInv`, about configurations. Lemmas say what a send and a receive do to
the positions of the queue, and `PromiseKept` draws the conclusion at its head.
The refinement follows: `IndInv` makes each handler an `Answer`, a `Close` or a
stutter of `AskContract`.

**Connections.** Every step of `ClientActors` is a step of `ServerActor` or none to
it (`ActorHolds`), so the actor's `IndInv` holds of the composition:
`ServerActorProofs` is instantiated and its theorems are cited, not proved again;
so is its refinement of the contract of `ask` (`AsksKeepContract`).
On top of it there is an invariant for each connection by itself: what it has sent
so far is what its stage says, less what did not serialise (`Said`), what it awaits it has asked (`Held`), and a
stage behind the token's answer has seen it match (`Proved`). The last needs one
thing about the queue that the actor does not promise, that a secret's answer is
what that connection sent (`SecretInv`).

**Process.** The same, but for `Spawn`, which gives the actor its first
configuration: before it nothing was sent, and `IndInv` is established there anew.
`OrderInv` has the versions in order on their whole way, from the row through the
stream, the cache and the callback to the queue; main may have read its
configuration anywhere along it, and what is posted later is still newer.
`ThreadInv` ties the end of the database thread, by a panic or without one, to `lost` or
to main's `disconnect`. A `Spawn` that panics leaves the actor as it was, unbuilt
(`Unbuilt`), and nothing moves after a panic (`PanicIsTheEnd`). The refinement of
`AskContract` is the actor's own, step by step, except that `Spawn` is a `Post` of the
first configuration, which is one to a channel in which nothing was posted yet
(`StartInv`), or a stutter if that is version 0.

What the channel can hold is counted by mapping its places one to one: a question to
the connection that waits for it (the actor's `IndInv` queues each at most once), an
update to its version, since those queued ascend, and main's one start. `ChannelInv`
says that the start is alone and gone once there is a listener, and that questions
in the queue wait. So the channel holds at most what the actor has yet to do
(`Backlog`, `QueueIsBounded`), and since a `try_send` is refused only by a full channel,
an update is lost only to a backlog as long as the channel (`LostOnlyToBacklog`): finding
2 is the only way in which a registered callback loses one. The code's 16 slots bound
neither its connections nor its updates, so it does happen.

**Socket.** Until a write fails, the caller's buffer begins where the wire ends, the
pending bytes are its front, encrypted in place, and the encryptor is just behind
them (`CallerInv`). Hence what `poll_write` offers is the buffer encrypted in place,
whatever was offered before (`OfferedInPlace`), and what is taken of it extends the
wire. A failed write breaks this for good, but then nothing more is written. The
reading side is independent (`ReadInv`). The refinement of `BytePipe` follows: what
a peer makes out of the wire is a prefix of what was offered.

**VarInts.** `VarInt`, `Weight` and the sum in `Digits` are recursive functions. TLA+
gives such a definition a meaning only if there is a function that satisfies it, and
the induction theorems of the library, which take the predicate as a parameter, are
of no use to the installed provers. `VarIntProofs` takes the set instead: a set of
numbers that holds every number below which it holds all is the set of all numbers
(`StrongInduction`, from `WFMin` and `NatLessThanWellFounded`). With it a recursive
definition has a solution, put together from the finite ones (`Runs`, `RunsAgree`,
`RunsExist`, `Recursion`), so that `VarInt[n]` unfolds (`VarIntDefined`); and by
induction on n its bytes are typed, end once, at their end (`VarIntEnds`), are at most
`VarIntMax` (`VarIntFits`), and add up to n (`DigitsOfVarInt`). What `ReadVarInt` makes of
the front of a buffer follows.

**Codec.** The frames not yet handed out lie in what is buffered and on the wire one
behind the other. That could be said by concatenating their encodings, which would
need an induction; `InOrder` says instead that there is a place for each
(`Laid`), below zero for a frame whose length was taken off, and dropping bytes from
the front moves all of them alike (`Drop`). That no frame is held back
(`NoneIsHeldBack`) needs that the decoder lets the socket go on only when the buffer ends
inside a frame (`Waits`); with nothing on the wire no frame is then left. Stray bytes come behind everything and
matter only when all frames are out (`Overrun`); a change of framer that drops bytes
ends the promise (`cut`).

**Cached status, database.** The properties are nearly inductive; the count needs the
cardinality of `listed` to move with it, the tables need that the sequence, until it
goes round, is above every id given out.

Only model-checked, because TLAPS does not reach it: all liveness
(`AcceptedConfigIsApplied`, `ShutdownStops`, `EveryConnectionEnds`, `StatusIsServed`,
`LoginIsServed`, `EveryFrameArrives`, `DeadListenerEndsProcess`, `ProxyStarts`,
`SeenUpdateIsShown`) and the fairness half of `ImplementsAskContract` and
`ImplementsPipe`.

## 5. Not modelled

- The bytes of packets (their fields); `set_compression`, a `todo!()`.
- The key store's RSA, and AES and DER: libraries; a decryption succeeds or not, a
  cipher has a place. `get_digest` is not called.
- `types_support.rs`: a UUID read from a text is `FromStr`, its serialisation as a
  u128 has no state.
- `client_connected`, `client_disconnected`: they log.
- The rendering of the status as JSON: it is known by the fields it shows.
- Generated bindings, the macro, logging, `CachedBranding`, icons.

## 6. Plan

All modules planned are written, and every invariant the runs check is proved for
all constants. What is left is bound to changes in the code:

1. When the configuration state gets packets (today its actor only shuts down),
   its stages in `ClientActors`, and with them players: `AddPlayer` and
   `RemovePlayer` of `CachedStatus` composed with the actor, where
   `OnlineIsListed` says that `UpdateConfig` must become `update`.
2. When `set_compression` is written, a third state of the decoder in `MCCodec`.
3. When the callback of `on_update` awaits instead of `try_send`, `SeenUpdateIsShown`
   without the assumption of room.
