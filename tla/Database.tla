------------------------------ MODULE Database ------------------------------
(***************************************************************************)
(* The SpacetimeDB module (src/server/src): the table of the one           *)
(* configuration, the table of the players, and the reducers that write    *)
(* them.  The host runs one reducer at a time, as a transaction: an error  *)
(* or a panic undoes what it wrote.                                        *)
(*                                                                         *)
(* The host is external.  Of the configuration only the fields that a      *)
(* reducer writes remain, of a player those that identify it.              *)
(*                                                                         *)
(* Operators that only PROJECT.json's mutants name (InitAnew, ...) are     *)
(* slips the code could have made.                                         *)
(***************************************************************************)
EXTENDS Naturals

CONSTANTS
  Name,         (* usernames                                               *)
  Profile,      (* profile ids, u128                                       *)
  ProfileText,  (* what a caller may give as profile_id_str                *)
  FromStr,      (* UUID::from_str: several texts are the same profile      *)
  Invalid,      (* what it makes of a text that is no UUID                 *)
  Motd,         (* messages of the day                                     *)
  DefaultMotd,  (* that of BasicConfiguration::default                     *)
  MaxEntity     (* the greatest entity id, 2^32 - 1                        *)

ASSUME TextAssumption == FromStr \in [ProfileText -> Profile \cup {Invalid}]
ASSUME InvalidAssumption == Invalid \notin Profile
ASSUME MotdAssumption == DefaultMotd \in Motd
ASSUME EntityAssumption == MaxEntity \in Nat /\ MaxEntity > 0

VARIABLES
  server_basic_config,  (* the table: rows [id, motd]                      *)
  player,               (* the table: rows [entity_id, username, profile_id] *)
  sequence,             (* the host's next value of auto_inc               *)
  result,               (* of the last reducer: "ok", "error" or "panic"   *)
  motd,                 (* history: the motd last set, or the default      *)
  wrapped               (* history: has the sequence gone round?           *)

configVars == <<server_basic_config, motd>>
playerVars == <<player, sequence, wrapped>>
vars == <<configVars, playerVars, result>>

DefaultAtOne == [id |-> 1, motd |-> DefaultMotd]
Default == [id |-> 0, motd |-> DefaultMotd]
NewNumbered(name, p) == [entity_id |-> 1, username |-> name, profile_id |-> p]
New(name, p) == [entity_id |-> 0, username |-> name, profile_id |-> p]

Init ==
  /\ server_basic_config = {} /\ motd = DefaultMotd
  /\ player = {} /\ sequence = 1 /\ wrapped = FALSE
  /\ result = "ok"

-----------------------------------------------------------------------------
(* The configuration. *)

(* The init reducer; it may be run on a database that has its row. *)
InitAnew ==
  /\ server_basic_config' = {Default}
  /\ result' = "ok" /\ UNCHANGED <<motd, playerVars>>
InitReducer ==
  /\ server_basic_config' = IF server_basic_config = {} THEN {Default} ELSE server_basic_config
  /\ result' = "ok" /\ UNCHANGED <<motd, playerVars>>

UpdateMotd(m) ==
  /\ \/ \E r \in server_basic_config :
          /\ r.id = 0
          /\ server_basic_config' = (server_basic_config \ {r}) \cup {[r EXCEPT !.motd = m]}
          /\ motd' = m /\ result' = "ok"
     \/ /\ \A r \in server_basic_config : r.id # 0
        /\ result' = "error" /\ UNCHANGED configVars
  /\ UNCHANGED playerVars

-----------------------------------------------------------------------------
(* The players. *)

NextEntity(n) == IF n = MaxEntity THEN 1 ELSE n + 1

(* The host's insert: an entity_id of 0 asks for the next of the sequence; *)
(* a row whose primary or unique key is taken makes it panic.  An aborted  *)
(* transaction may keep its place in the sequence.                         *)
ClashesOnProfile(r) == \E q \in player : q.profile_id = r.profile_id
Clashes(r) == \E q \in player : q.entity_id = r.entity_id \/ q.profile_id = r.profile_id
Insert(r) ==
  LET numbered == IF r.entity_id = 0 THEN [r EXCEPT !.entity_id = sequence] ELSE r
  IN  /\ IF Clashes(numbered)
         THEN result' = "panic" /\ UNCHANGED player
         ELSE result' = "ok" /\ player' = player \cup {numbered}
      /\ \/ r.entity_id = 0 /\ sequence' = NextEntity(sequence)
              /\ wrapped' = (wrapped \/ sequence = MaxEntity)
         \/ (r.entity_id # 0 \/ Clashes(numbered)) /\ UNCHANGED <<sequence, wrapped>>

(* A known profile keeps its row, under its new name. *)
ReplaceRow(r, name) ==
  /\ player' = {q \in player : q.profile_id # r.profile_id}
                 \cup {[New(name, r.profile_id) EXCEPT !.entity_id = sequence]}
  /\ sequence' = NextEntity(sequence) /\ wrapped' = (wrapped \/ sequence = MaxEntity)
  /\ result' = "ok"
UpdateRow(r, name) ==
  /\ player' = (player \ {r}) \cup {[r EXCEPT !.username = name]}
  /\ result' = "ok" /\ UNCHANGED <<sequence, wrapped>>

AddPlayer(name, text) ==
  /\ \/ FromStr[text] = Invalid /\ result' = "error" /\ UNCHANGED playerVars
     \/ \E r \in player : r.profile_id = FromStr[text] /\ UpdateRow(r, name)
     \/ /\ FromStr[text] # Invalid
        /\ \A r \in player : r.profile_id # FromStr[text]
        /\ Insert(New(name, FromStr[text]))
  /\ UNCHANGED configVars

(* The host is restarted; what it had reserved of the sequence is gone. *)
Restart ==
  /\ sequence' \in sequence..MaxEntity
  /\ UNCHANGED <<configVars, player, wrapped, result>>

Next ==
  \/ InitReducer
  \/ \E m \in Motd : UpdateMotd(m)
  \/ \E name \in Name, text \in ProfileText : AddPlayer(name, text)
  \/ Restart

Spec == Init /\ [][Next]_vars

-----------------------------------------------------------------------------
(* What the tables guarantee. *)

BasicConfiguration == [id : {0}, motd : Motd]
Player == [entity_id : 1..MaxEntity, username : Name, profile_id : Profile]

(* Types: an entity id is never 0, nor wider than it is stored. *)
TypeOK ==
  /\ server_basic_config \subseteq BasicConfiguration
  /\ player \subseteq Player
  /\ sequence \in 1..MaxEntity
  /\ result \in {"ok", "error", "panic"} /\ motd \in Motd /\ wrapped \in BOOLEAN

(* There is one configuration, with the motd last set: the proxy takes     *)
(* whichever row comes first (main.rs:65), and hears of changes of the row *)
(* with id 0 alone (main.rs:90).                                           *)
OneConfiguration ==
  server_basic_config = {} \/ server_basic_config = {[id |-> 0, motd |-> motd]}

(* A profile is one entity and an entity is one profile, however often a   *)
(* player comes back, and in whatever spelling of its profile id.          *)
ProfilesAreEntities ==
  \A q, r \in player : q.entity_id = r.entity_id \/ q.profile_id = r.profile_id => q = r

(* Who has an entity id keeps it. *)
EntityIsStable ==
  [][\A q \in player : \E r \in player' :
       r.profile_id = q.profile_id /\ r.entity_id = q.entity_id]_vars

(* A player is refused for want of an id only when the sequence has gone   *)
(* round and meets the ids given out before.                               *)
PanicsOnlyWhenWrapped == result = "panic" => wrapped
=============================================================================
