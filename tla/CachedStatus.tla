---------------------------- MODULE CachedStatus ----------------------------
(***************************************************************************)
(* The status of the server list (connection_cache.rs of the proxy): a     *)
(* response, and its JSON, which is cached with it.  It counts the players *)
(* online; each player carries a flag (added_to_server_listing, an atomic  *)
(* of its client) that says whether it is counted.  The flag belongs to    *)
(* the player and outlives the status, which UpdateConfig replaces.        *)
(*                                                                         *)
(* Operators that only PROJECT.json's mutants name (AddTwice, ...) are     *)
(* slips the code could have made.                                         *)
(***************************************************************************)
EXTENDS Integers, FiniteSets

CONSTANTS
  Player,   (* the players that may join                                   *)
  Config,   (* configurations: [max_players, motd]                         *)
  Wrap      (* values of the unsigned counter `online`: 2^32               *)

ASSUME PlayerAssumption == IsFiniteSet(Player) /\ Cardinality(Player) < Wrap
ASSUME WrapAssumption == Wrap \in Nat

VARIABLES
  response,   (* the StatusResponse                                        *)
  json,       (* status_response_json, what a GetStatus is answered with   *)
  listed,     (* players whose added_to_server_listing is set              *)
  panicked,   (* has the task that owns the status panicked?               *)
  uncounted   (* history: players listed when their count was overridden   *)

vars == <<response, json, listed, panicked, uncounted>>

(* `players` is always Some: `update` takes it, and puts it back. *)
BuildResponse(c) == [max |-> c.max_players, online |-> 0, description |-> c.motd]
ToString(r) == <<r.description, r.online, r.max>>

Init ==
  /\ \E c \in Config : response = BuildResponse(c)
  /\ json = ToString(response)
  /\ listed = {} /\ panicked = FALSE /\ uncounted = 0

-----------------------------------------------------------------------------
(* Each operation renders the response again, by itself and at its end: a   *)
(* panic in the middle leaves the JSON as it was.                           *)

(* A handler of the server actor replaces the status by a new one. *)
FromConfig(c) ==
  /\ ~panicked
  /\ response' = BuildResponse(c)
  /\ json' = ToString(response')
  /\ uncounted' = Cardinality(listed)
  /\ UNCHANGED <<listed, panicked>>

(* `players.take()` keeps the count. *)
Update(c) ==
  /\ ~panicked
  /\ response' = [BuildResponse(c) EXCEPT !.online = response.online]
  /\ json' = ToString(response')
  /\ UNCHANGED <<listed, panicked, uncounted>>

(* compare_exchange has set the flag, and then the counter may have no next *)
(* value: a build with overflow checks panics, one without goes round.      *)
AddTwice(p) == TRUE
Adds(p) == p \notin listed
Following(n) == IF n = Wrap - 1 THEN 0 ELSE n + 1
AddPlayer(p) ==
  /\ ~panicked
  /\ listed' = listed \cup {p}
  /\ UNCHANGED uncounted
  /\ \/ /\ response' = IF Adds(p) THEN [response EXCEPT !.online = Following(@)] ELSE response
        /\ json' = ToString(response')
        /\ UNCHANGED panicked
     \/ /\ Adds(p) /\ response.online = Wrap - 1
        /\ panicked' = TRUE /\ UNCHANGED <<response, json>>

BelowZero == 0 - 1
Greatest == Wrap - 1
Preceding(n) == IF n = 0 THEN Greatest ELSE n - 1
RemoveUnrendered(p) ==
  /\ ~panicked
  /\ listed' = listed \ {p}
  /\ response' = IF p \in listed THEN [response EXCEPT !.online = Preceding(@)] ELSE response
  /\ UNCHANGED <<json, panicked, uncounted>>
RemovePlayer(p) ==
  /\ ~panicked
  /\ listed' = listed \ {p}
  /\ UNCHANGED uncounted
  /\ \/ /\ response' = IF p \in listed THEN [response EXCEPT !.online = Preceding(@)] ELSE response
        /\ json' = ToString(response')
        /\ UNCHANGED panicked
     \/ /\ p \in listed /\ response.online = 0
        /\ panicked' = TRUE /\ UNCHANGED <<response, json>>

Next ==
  \/ \E c \in Config : FromConfig(c) \/ Update(c)
  \/ \E p \in Player : AddPlayer(p) \/ RemovePlayer(p)

Spec == Init /\ [][Next]_vars

-----------------------------------------------------------------------------
(* What the status guarantees. *)

Response ==
  [max : {c.max_players : c \in Config}, online : 0..Wrap - 1,
   description : {c.motd : c \in Config}]

(* Types: the counter keeps its width, in the JSON as well. *)
TypeOK ==
  /\ response \in Response /\ json \in {ToString(r) : r \in Response}
  /\ listed \subseteq Player /\ panicked \in BOOLEAN /\ uncounted \in 0..Cardinality(Player)

(* The `online` that a GetStatus is answered with is the number of players *)
(* listed, however often they join and leave and whatever `update` does in *)
(* between: each operation counts right and renders what it counted.  Only *)
(* from_config makes it differ, by the players it forgot, and modulo the   *)
(* width once more of these have left than others have joined.             *)
Shown == json[2]
OnlineIsListed ==
  LET n == Cardinality(listed) - uncounted
  IN  ~panicked => Shown = IF n >= 0 THEN n ELSE n + Wrap

(* `players.online -= 1` underflows, and panics in a build with overflow   *)
(* checks, only when from_config has forgotten someone who was listed.     *)
PanicsOnlyUncounted == panicked => uncounted > 0
=============================================================================
