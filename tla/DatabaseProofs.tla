--------------------------- MODULE DatabaseProofs ---------------------------
(***************************************************************************)
(* Proofs about the tables of the SpacetimeDB module, for every set of     *)
(* players and of spellings, and every width of the entity id.             *)
(***************************************************************************)
EXTENDS Database, TLAPS

(***************************************************************************)
(* The configuration.                                                      *)
(***************************************************************************)

ConfigInv ==
  /\ server_basic_config \subseteq BasicConfiguration
  /\ motd \in Motd
  /\ OneConfiguration
  /\ server_basic_config = {} => motd = DefaultMotd

(* An update of the motd replaces the only row there is. *)
LEMMA UpdateKeepsOneRow ==
  ASSUME ConfigInv, NEW m \in Motd, NEW r \in server_basic_config,
         server_basic_config' = (server_basic_config \ {r}) \cup {[r EXCEPT !.motd = m]}
  PROVE  server_basic_config' = {[id |-> 0, motd |-> m]}
  <1>1. server_basic_config = {r} /\ r = [id |-> 0, motd |-> motd]
    BY DEF ConfigInv, OneConfiguration
  <1>2. [r EXCEPT !.motd = m] = [id |-> 0, motd |-> m]
    BY <1>1
  <1> QED  BY <1>1, <1>2

LEMMA ConfigStep == ASSUME ConfigInv, [Next]_vars PROVE ConfigInv'
  <1>1. CASE InitReducer
    BY <1>1, MotdAssumption DEF BasicConfiguration, ConfigInv, OneConfiguration, InitReducer, Default
  <1>2. ASSUME NEW m \in Motd, UpdateMotd(m) PROVE ConfigInv'
    <2>1. ASSUME NEW r \in server_basic_config, motd' = m,
                 server_basic_config' = (server_basic_config \ {r}) \cup {[r EXCEPT !.motd = m]}
          PROVE  ConfigInv'
      BY <2>1, UpdateKeepsOneRow DEF BasicConfiguration, ConfigInv, OneConfiguration
    <2>2. CASE UNCHANGED configVars
      BY <2>2 DEF ConfigInv, OneConfiguration, configVars
    <2> QED  BY <1>2, <2>1, <2>2 DEF UpdateMotd
  <1>3. CASE UNCHANGED configVars
    BY <1>3 DEF ConfigInv, OneConfiguration, configVars
  <1> QED  BY <1>1, <1>2, <1>3 DEF Next, vars, AddPlayer, Restart

(***************************************************************************)
(* The players.                                                            *)
(***************************************************************************)

(* What the sequence promises until it goes round: its next value, and     *)
(* those behind it, are free.                                              *)
SequenceIsAhead == ~wrapped => \A r \in player : r.entity_id < sequence

PlayerInv ==
  /\ player \subseteq Player
  /\ sequence \in 1..MaxEntity
  /\ result \in {"ok", "error", "panic"} /\ wrapped \in BOOLEAN
  /\ ProfilesAreEntities
  /\ SequenceIsAhead
  /\ PanicsOnlyWhenWrapped

(* The sequence stays among the ids, and moves up until it has given out   *)
(* the last of them.                                                       *)
LEMMA NextEntityIsAnEntity ==
  ASSUME NEW n \in 1..MaxEntity
  PROVE  NextEntity(n) \in 1..MaxEntity /\ (n # MaxEntity => NextEntity(n) = n + 1)
  BY EntityAssumption DEF NextEntity

(* A row under a new name is the row, for every key of the table. *)
LEMMA Renamed ==
  ASSUME NEW r \in Player, NEW name \in Name
  PROVE  /\ [r EXCEPT !.username = name] \in Player
         /\ [r EXCEPT !.username = name].entity_id = r.entity_id
         /\ [r EXCEPT !.username = name].profile_id = r.profile_id
  BY DEF Player

LEMMA UpdateKeepsPlayers ==
  ASSUME PlayerInv, NEW r \in player, NEW name \in Name, UpdateRow(r, name)
  PROVE  PlayerInv'
  <1> DEFINE new == [r EXCEPT !.username = name]
  <1>1. r \in Player /\ new \in Player /\ new.entity_id = r.entity_id /\ new.profile_id = r.profile_id
    BY Renamed DEF PlayerInv
  <1>2. player' = (player \ {r}) \cup {new}
    BY DEF UpdateRow
  <1> HIDE DEF new
  <1>3. ProfilesAreEntities'
    <2>1. \A q \in player \ {r} : q.entity_id # new.entity_id /\ q.profile_id # new.profile_id
      BY <1>1 DEF PlayerInv, ProfilesAreEntities
    <2> QED  BY <1>2, <2>1 DEF PlayerInv, ProfilesAreEntities
  <1>4. SequenceIsAhead'
    BY <1>1, <1>2 DEF PlayerInv, SequenceIsAhead, UpdateRow
  <1> QED  BY <1>1, <1>2, <1>3, <1>4 DEF PlayerInv, UpdateRow, PanicsOnlyWhenWrapped

(* A new row gets the next id.  That is free, unless the sequence has gone *)
(* round; then the host may have to refuse it.                             *)
LEMMA InsertKeepsPlayers ==
  ASSUME PlayerInv, NEW name \in Name, NEW p \in Profile,
         \A r \in player : r.profile_id # p,
         Insert(New(name, p))
  PROVE  PlayerInv'
  <1> DEFINE row == [entity_id |-> sequence, username |-> name, profile_id |-> p]
  <1>1. /\ New(name, p).entity_id = 0
        /\ [New(name, p) EXCEPT !.entity_id = sequence] = row
    BY DEF New
  <1>2. row \in Player /\ row.entity_id = sequence /\ row.profile_id = p
    BY DEF Player, PlayerInv
  <1> HIDE DEF row
  <1>3. /\ IF Clashes(row)
           THEN result' = "panic" /\ UNCHANGED player
           ELSE result' = "ok" /\ player' = player \cup {row}
        /\ \/ sequence' = NextEntity(sequence) /\ wrapped' = (wrapped \/ sequence = MaxEntity)
           \/ Clashes(row) /\ UNCHANGED <<sequence, wrapped>>
    BY <1>1 DEF Insert
  <1>4. Clashes(row) => wrapped
    <2>1. ASSUME ~wrapped, NEW q \in player PROVE q.entity_id # row.entity_id
      <3>1. q.entity_id < sequence /\ q \in Player
        BY <2>1 DEF PlayerInv, SequenceIsAhead
      <3>2. q.entity_id \in 1..MaxEntity /\ sequence \in 1..MaxEntity
        BY <3>1 DEF PlayerInv, Player
      <3> QED  BY <1>2, <3>1, <3>2, EntityAssumption
    <2> QED  BY <1>2, <2>1 DEF Clashes
  <1>5. sequence' \in 1..MaxEntity /\ wrapped' \in BOOLEAN
    BY <1>3, NextEntityIsAnEntity DEF PlayerInv
  <1>6. wrapped => wrapped'
    BY <1>3
  <1>7. player' \subseteq Player /\ ProfilesAreEntities'
    BY <1>2, <1>3 DEF PlayerInv, ProfilesAreEntities, Clashes
  <1>8. SequenceIsAhead'
    <2>1. SUFFICES ASSUME ~wrapped', NEW q \in player' PROVE q.entity_id < sequence'
      BY DEF SequenceIsAhead
    <2>2. ~wrapped /\ ~Clashes(row) /\ sequence # MaxEntity
      BY <1>3, <1>4, <1>6, <2>1
    <2>3. sequence' = sequence + 1
      BY <1>3, <2>2, NextEntityIsAnEntity DEF PlayerInv
    <2>4. q = row \/ (q \in player /\ q.entity_id < sequence)
      BY <1>3, <2>1, <2>2 DEF PlayerInv, SequenceIsAhead
    <2>5. q.entity_id \in 1..MaxEntity /\ sequence \in 1..MaxEntity
      BY <1>7, <2>1 DEF PlayerInv, Player
    <2> QED  BY <1>2, <2>3, <2>4, <2>5, EntityAssumption
  <1>9. result' \in {"ok", "error", "panic"} /\ PanicsOnlyWhenWrapped'
    BY <1>3, <1>4, <1>6 DEF PanicsOnlyWhenWrapped
  <1> QED  BY <1>5, <1>7, <1>8, <1>9 DEF PlayerInv

LEMMA PlayerStep == ASSUME PlayerInv, [Next]_vars PROVE PlayerInv'
  <1>1. ASSUME UNCHANGED playerVars, result' \in {"ok", "error"} PROVE PlayerInv'
    BY <1>1 DEF PlayerInv, playerVars, ProfilesAreEntities, SequenceIsAhead, PanicsOnlyWhenWrapped
  <1>2. CASE InitReducer
    BY <1>1, <1>2 DEF InitReducer
  <1>3. ASSUME NEW m \in Motd, UpdateMotd(m) PROVE PlayerInv'
    BY <1>1, <1>3 DEF UpdateMotd
  <1>4. ASSUME NEW name \in Name, NEW text \in ProfileText, AddPlayer(name, text)
        PROVE  PlayerInv'
    <2>1. CASE FromStr[text] = Invalid /\ result' = "error" /\ UNCHANGED playerVars
      BY <1>1, <2>1
    <2>2. ASSUME NEW r \in player, UpdateRow(r, name) PROVE PlayerInv'
      BY <2>2, UpdateKeepsPlayers
    <2>3. CASE /\ FromStr[text] # Invalid
               /\ \A r \in player : r.profile_id # FromStr[text]
               /\ Insert(New(name, FromStr[text]))
      <3>1. FromStr[text] \in Profile
        BY <2>3, TextAssumption
      <3> QED  BY <2>3, <3>1, InsertKeepsPlayers
    <2> QED  BY <1>4, <2>1, <2>2, <2>3 DEF AddPlayer
  <1>5. CASE Restart
    <2>1. sequence' \in 1..MaxEntity /\ sequence' >= sequence
      BY <1>5, EntityAssumption DEF Restart, PlayerInv
    <2>2. SequenceIsAhead'
      <3>1. SUFFICES ASSUME ~wrapped', NEW q \in player' PROVE q.entity_id < sequence'
        BY DEF SequenceIsAhead
      <3>2. q.entity_id < sequence /\ q.entity_id \in 1..MaxEntity /\ sequence \in 1..MaxEntity
        BY <1>5, <3>1 DEF Restart, PlayerInv, SequenceIsAhead, Player
      <3> QED  BY <2>1, <3>2, EntityAssumption
    <2> QED  BY <1>5, <2>1, <2>2
             DEF Restart, PlayerInv, ProfilesAreEntities, PanicsOnlyWhenWrapped
  <1>6. CASE UNCHANGED vars
    BY <1>6 DEF vars, playerVars, PlayerInv, ProfilesAreEntities, SequenceIsAhead,
                PanicsOnlyWhenWrapped
  <1> QED  BY <1>2, <1>3, <1>4, <1>5, <1>6 DEF Next

(***************************************************************************)
(* The theorems.                                                           *)
(***************************************************************************)

LEMMA ConfigAlways == Spec => []ConfigInv
  <1>1. Init => ConfigInv
    BY MotdAssumption DEF Init, ConfigInv, OneConfiguration
  <1> QED  BY <1>1, ConfigStep, PTL DEF Spec

LEMMA PlayerAlways == Spec => []PlayerInv
  <1>1. 1 \in 1..MaxEntity
    BY EntityAssumption
  <1>2. Init => PlayerInv
    BY <1>1, Zenon
       DEF Init, PlayerInv, ProfilesAreEntities, SequenceIsAhead, PanicsOnlyWhenWrapped
  <1> QED  BY <1>2, PlayerStep, PTL DEF Spec

(* The rows have their types; no entity id is 0 or too wide to be stored.  *)
THEOREM TypeCorrect == Spec => []TypeOK
  <1>1. ConfigInv /\ PlayerInv => TypeOK
    BY DEF ConfigInv, PlayerInv, TypeOK
  <1> QED  BY <1>1, ConfigAlways, PlayerAlways, PTL

(* There is never a second configuration, however often init is run.       *)
THEOREM OneConfigurationRow == Spec => []OneConfiguration
  <1>1. ConfigInv => OneConfiguration
    BY DEF ConfigInv
  <1> QED  BY <1>1, ConfigAlways, PTL

(* Profiles and entities are one to one.                                   *)
THEOREM EntitiesAreUnique == Spec => []ProfilesAreEntities
  <1>1. PlayerInv => ProfilesAreEntities
    BY DEF PlayerInv
  <1> QED  BY <1>1, PlayerAlways, PTL

(* Nobody is refused before the sequence has given out every id.           *)
THEOREM RefusedOnlyWhenWrapped == Spec => []PanicsOnlyWhenWrapped
  <1>1. PlayerInv => PanicsOnlyWhenWrapped
    BY DEF PlayerInv
  <1> QED  BY <1>1, PlayerAlways, PTL

(* A player who comes back is the entity it was.                           *)
THEOREM EntitiesStay == Spec => EntityIsStable
  <1> DEFINE Kept == \A q \in player : \E r \in player' :
                       r.profile_id = q.profile_id /\ r.entity_id = q.entity_id
  <1>1. ASSUME PlayerInv, Next PROVE Kept
    <2>1. player \subseteq player' => Kept
      OBVIOUS
    <2>2. ASSUME NEW r \in player, NEW name \in Name, UpdateRow(r, name) PROVE Kept
      <3>1. r \in Player
        BY <1>1 DEF PlayerInv
      <3>2. player' = (player \ {r}) \cup {[r EXCEPT !.username = name]}
        BY <2>2 DEF UpdateRow
      <3> QED  BY <3>1, <3>2, Renamed
    <2>3. ASSUME NEW r, Insert(r) PROVE player \subseteq player'
      BY <2>3 DEF Insert
    <2>4. ASSUME UNCHANGED playerVars PROVE player \subseteq player'
      BY <2>4 DEF playerVars
    <2>5. ASSUME NEW name \in Name, NEW text \in ProfileText, AddPlayer(name, text) PROVE Kept
      BY <2>1, <2>2, <2>3, <2>4, <2>5 DEF AddPlayer
    <2>6. CASE InitReducer \/ Restart \/ \E m \in Motd : UpdateMotd(m)
      BY <2>1, <2>4, <2>6 DEF InitReducer, Restart, UpdateMotd
    <2> QED  BY <1>1, <2>5, <2>6 DEF Next
  <1>2. PlayerInv /\ [Next]_vars => [Kept]_vars
    BY <1>1
  <1> QED  BY <1>2, PlayerAlways, PTL DEF Spec, EntityIsStable
=============================================================================
