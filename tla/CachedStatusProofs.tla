------------------------- MODULE CachedStatusProofs -------------------------
(***************************************************************************)
(* Proofs about the status of the server list, for every finite set of     *)
(* players and every width of the counter that has room for them.          *)
(***************************************************************************)
EXTENDS CachedStatus, FiniteSetTheorems, TLAPS

(* How many players can be listed. *)
LEMMA ListedIsFinite ==
  ASSUME NEW L \in SUBSET Player
  PROVE  /\ IsFiniteSet(L)
         /\ Cardinality(L) \in Nat
         /\ Cardinality(Player) \in Nat
         /\ Cardinality(L) <= Cardinality(Player)
         /\ Cardinality(Player) < Wrap
         /\ Wrap \in Nat
  BY PlayerAssumption, WrapAssumption, FS_Subset, FS_CardinalityType

LEMMA JoinAndLeave ==
  ASSUME NEW L \in SUBSET Player, NEW p \in Player
  PROVE  /\ Cardinality(L \cup {p}) = IF p \in L THEN Cardinality(L) ELSE Cardinality(L) + 1
         /\ Cardinality(L \ {p}) = IF p \in L THEN Cardinality(L) - 1 ELSE Cardinality(L)
         /\ p \in L => Cardinality(L) > 0
  <1>1. IsFiniteSet(L) /\ Cardinality(L) \in Nat
    BY ListedIsFinite
  <1>2. p \in L => L # {}
    OBVIOUS
  <1>3. p \in L => Cardinality(L) # 0
    BY <1>1, <1>2, FS_EmptySet
  <1>4. Cardinality(L \cup {p}) = IF p \in L THEN Cardinality(L) ELSE Cardinality(L) + 1
    BY <1>1, FS_AddElement
  <1>5. Cardinality(L \ {p}) = IF p \in L THEN Cardinality(L) - 1 ELSE Cardinality(L)
    BY <1>1, FS_RemoveElement
  <1>6. p \in L => Cardinality(L) > 0
    BY <1>1, <1>3
  <1> QED  BY <1>4, <1>5, <1>6

(* A new response has no players online; changing the count changes        *)
(* nothing else.                                                           *)
LEMMA BuiltResponse ==
  ASSUME NEW c \in Config
  PROVE  BuildResponse(c) \in Response /\ BuildResponse(c).online = 0
  <1>1. 0 \in 0..Wrap - 1
    BY ListedIsFinite
  <1> QED  BY <1>1 DEF BuildResponse, Response

LEMMA Recounted ==
  ASSUME NEW r \in Response, NEW n \in 0..Wrap - 1
  PROVE  [r EXCEPT !.online = n] \in Response /\ [r EXCEPT !.online = n].online = n
  BY DEF Response

(* The invariants hold together: only a count that is right modulo its     *)
(* width, over a bounded set of players, keeps it from overflowing, and    *)
(* only JSON that was rendered after the last change shows it.             *)
Types ==
  /\ response \in Response
  /\ listed \subseteq Player /\ panicked \in BOOLEAN /\ uncounted \in 0..Cardinality(Player)
JsonIsCurrent == json = ToString(response)
Counts ==
  LET n == Cardinality(listed) - uncounted
  IN  ~panicked => response.online = IF n >= 0 THEN n ELSE n + Wrap
Inv == Types /\ JsonIsCurrent /\ Counts /\ PanicsOnlyUncounted

(* What is answered is what was counted.                                   *)
LEMMA WhatIsShown == ASSUME Inv PROVE TypeOK /\ OnlineIsListed
  <1>1. Shown = response.online
    BY DEF Inv, JsonIsCurrent, ToString, Shown
  <1> QED  BY <1>1 DEF Inv, Types, JsonIsCurrent, Counts, TypeOK, OnlineIsListed

LEMMA InvInit == ASSUME Init PROVE Inv
  <1>1. PICK c \in Config : response = BuildResponse(c)
    BY DEF Init
  <1>2. response \in Response /\ response.online = 0
    BY <1>1, BuiltResponse
  <1>3. Cardinality(listed) = 0 /\ Cardinality(Player) \in Nat
    BY FS_EmptySet, ListedIsFinite DEF Init
  <1>4. Types
    <2>1. 0 \in 0..Cardinality(Player)
      BY <1>3
    <2> QED  BY <1>2, <2>1 DEF Init, Types
  <1>5. Counts
    BY <1>2, <1>3 DEF Init, Counts
  <1> QED  BY <1>4, <1>5 DEF Init, Inv, JsonIsCurrent, PanicsOnlyUncounted

LEMMA InvStep == ASSUME Inv, [Next]_vars PROVE Inv'
  <1> DEFINE N == Cardinality(listed)
  <1> USE DEF Inv
  <1>1. /\ response \in Response /\ listed \in SUBSET Player
        /\ response.online \in 0..Wrap - 1
        /\ uncounted \in 0..Cardinality(Player) /\ panicked \in BOOLEAN
    BY DEF Types, Response
  <1>2. N \in Nat /\ N <= Cardinality(Player) /\ Cardinality(Player) < Wrap
        /\ Wrap \in Nat /\ Cardinality(Player) \in Nat
    BY <1>1, ListedIsFinite
  <1>3. ~panicked => response.online = IF N - uncounted >= 0
                                       THEN N - uncounted ELSE N - uncounted + Wrap
    BY DEF Counts
  <1>4. ASSUME NEW c \in Config, FromConfig(c) PROVE Inv'
    <2>1. response' \in Response /\ response'.online = 0
      BY <1>4, BuiltResponse DEF FromConfig
    <2>2. Types'
      BY <1>4, <1>1, <1>2, <2>1 DEF FromConfig, Types
    <2>3. Counts' /\ JsonIsCurrent' /\ PanicsOnlyUncounted'
      BY <1>4, <1>2, <2>1 DEF FromConfig, Counts, JsonIsCurrent, PanicsOnlyUncounted
    <2> QED  BY <2>2, <2>3
  <1>5. ASSUME NEW c \in Config, Update(c) PROVE Inv'
    <2>1. response' \in Response /\ response'.online = response.online
      BY <1>5, <1>1, BuiltResponse, Recounted DEF Update
    <2>2. Types'
      BY <1>5, <2>1 DEF Update, Types
    <2>3. Counts' /\ JsonIsCurrent' /\ PanicsOnlyUncounted'
      BY <1>5, <2>1
         DEF Update, Counts, JsonIsCurrent, PanicsOnlyUncounted
    <2> QED  BY <2>2, <2>3
  <1>6. ASSUME NEW p \in Player, AddPlayer(p) PROVE Inv'
    <2>1. N' = IF p \in listed THEN N ELSE N + 1
      BY <1>6, <1>1, JoinAndLeave DEF AddPlayer
    <2>2. listed' \in SUBSET Player /\ uncounted' = uncounted /\ ~panicked
      BY <1>6, <1>1 DEF AddPlayer
    <2>3. N' <= Cardinality(Player) /\ N' \in Nat
      BY <2>2, ListedIsFinite
    <2>4. CASE p \in listed
      <3>1. response' = response /\ panicked' = panicked /\ JsonIsCurrent' /\ N' = N
        BY <1>6, <2>1, <2>4 DEF AddPlayer, Adds, Following, JsonIsCurrent
      <3>2. Types'
        BY <1>1, <2>2, <3>1 DEF Types
      <3>3. Counts'
        BY <1>3, <2>2, <3>1 DEF Counts
      <3>4. PanicsOnlyUncounted'
        BY <2>2, <3>1 DEF PanicsOnlyUncounted
      <3> QED  BY <3>1, <3>2, <3>3, <3>4
    <2>5. CASE p \notin listed /\ response.online < Wrap - 1
      <3>1. response' = [response EXCEPT !.online = response.online + 1]
              /\ panicked' = panicked /\ JsonIsCurrent'
        BY <1>6, <1>1, <2>5, <2>2 DEF AddPlayer, Adds, Following, JsonIsCurrent
      <3>2. response.online + 1 \in 0..Wrap - 1
        BY <1>1, <1>2, <2>5
      <3>3. response' \in Response /\ response'.online = response.online + 1
        BY <3>1, <3>2, <1>1, Recounted
      <3>4. response'.online = IF N' - uncounted >= 0
                               THEN N' - uncounted ELSE N' - uncounted + Wrap
        BY <3>3, <1>1, <1>2, <1>3, <2>1, <2>2, <2>3, <2>5
      <3>5. Types'
        BY <1>1, <2>2, <3>1, <3>3 DEF Types
      <3>6. Counts'
        BY <2>2, <3>4 DEF Counts
      <3>7. PanicsOnlyUncounted'
        BY <2>2, <3>1 DEF PanicsOnlyUncounted
      <3> QED  BY <3>1, <3>5, <3>6, <3>7
    <2>6. CASE p \notin listed /\ response.online = Wrap - 1
      <3>1. N' = N + 1 /\ N' < Wrap /\ N - uncounted = -1 /\ uncounted > 0
        BY <1>1, <1>2, <1>3, <2>1, <2>2, <2>3, <2>6
      <3>2. \/ panicked' = TRUE /\ UNCHANGED <<response, json>>
            \/ /\ UNCHANGED panicked
               /\ response' = [response EXCEPT !.online = 0] /\ json' = ToString(response')
        BY <1>6, <1>1, <1>2, <2>6 DEF AddPlayer, Adds, Following
      <3>3. CASE panicked' = TRUE /\ UNCHANGED <<response, json>>
        BY <1>1, <2>2, <3>1, <3>3 DEF Types, JsonIsCurrent, Counts, PanicsOnlyUncounted
      <3>4. CASE /\ UNCHANGED panicked
                 /\ response' = [response EXCEPT !.online = 0] /\ json' = ToString(response')
        <4>1. 0 \in 0..Wrap - 1
          BY <1>2
        <4>2. response' \in Response /\ response'.online = 0 /\ JsonIsCurrent'
          BY <3>4, <4>1, <1>1, Recounted DEF JsonIsCurrent
        <4>3. Types'
          BY <1>1, <2>2, <3>4, <4>2 DEF Types
        <4>4. Counts'
          BY <1>1, <1>2, <2>2, <2>3, <3>1, <4>2 DEF Counts
        <4>5. PanicsOnlyUncounted'
          BY <2>2, <3>4 DEF PanicsOnlyUncounted
        <4> QED  BY <4>2, <4>3, <4>4, <4>5
      <3> QED  BY <3>2, <3>3, <3>4
    <2> QED  BY <1>1, <1>2, <2>4, <2>5, <2>6
  <1>7. ASSUME NEW p \in Player, RemovePlayer(p) PROVE Inv'
    <2>1. N' = IF p \in listed THEN N - 1 ELSE N
      BY <1>7, <1>1, JoinAndLeave DEF RemovePlayer
    <2>2. listed' \in SUBSET Player /\ uncounted' = uncounted /\ ~panicked
      BY <1>7, <1>1 DEF RemovePlayer
    <2>3. p \in listed => N > 0
      BY <1>1, JoinAndLeave
    <2>4. CASE p \notin listed
      <3>1. response' = response /\ panicked' = panicked /\ JsonIsCurrent' /\ N' = N
        BY <1>7, <2>1, <2>4 DEF RemovePlayer, Preceding, JsonIsCurrent
      <3>2. Types'
        BY <1>1, <2>2, <3>1 DEF Types
      <3>3. Counts'
        BY <1>3, <2>2, <3>1 DEF Counts
      <3>4. PanicsOnlyUncounted'
        BY <2>2, <3>1 DEF PanicsOnlyUncounted
      <3> QED  BY <3>1, <3>2, <3>3, <3>4
    <2>5. CASE p \in listed /\ response.online > 0
      <3>1. response' = [response EXCEPT !.online = response.online - 1]
              /\ panicked' = panicked /\ JsonIsCurrent'
        BY <1>7, <1>1, <2>5, <2>2 DEF RemovePlayer, Preceding, JsonIsCurrent
      <3>2. response.online - 1 \in 0..Wrap - 1
        BY <1>1, <1>2, <2>5
      <3>3. response' \in Response /\ response'.online = response.online - 1
        BY <3>1, <3>2, <1>1, Recounted
      <3>4. response'.online = IF N' - uncounted >= 0
                               THEN N' - uncounted ELSE N' - uncounted + Wrap
        BY <3>3, <1>1, <1>2, <1>3, <2>1, <2>2, <2>3, <2>5
      <3>5. Types'
        BY <1>1, <2>2, <3>1, <3>3 DEF Types
      <3>6. Counts'
        BY <2>2, <3>4 DEF Counts
      <3>7. PanicsOnlyUncounted'
        BY <2>2, <3>1 DEF PanicsOnlyUncounted
      <3> QED  BY <3>1, <3>5, <3>6, <3>7
    <2>6. CASE p \in listed /\ response.online = 0
      <3>1. N' = N - 1 /\ N = uncounted /\ uncounted > 0
        BY <1>1, <1>2, <1>3, <2>1, <2>2, <2>3, <2>6
      <3>2. \/ panicked' = TRUE /\ UNCHANGED <<response, json>>
            \/ /\ UNCHANGED panicked
               /\ response' = [response EXCEPT !.online = Greatest] /\ json' = ToString(response')
        BY <1>7, <2>6 DEF RemovePlayer, Preceding
      <3>3. CASE panicked' = TRUE /\ UNCHANGED <<response, json>>
        BY <1>1, <2>2, <3>1, <3>3 DEF Types, JsonIsCurrent, Counts, PanicsOnlyUncounted
      <3>4. CASE /\ UNCHANGED panicked
                 /\ response' = [response EXCEPT !.online = Greatest] /\ json' = ToString(response')
        <4>1. Greatest \in 0..Wrap - 1 /\ Greatest = Wrap - 1
          BY <1>2 DEF Greatest
        <4>2. response' \in Response /\ response'.online = Wrap - 1 /\ JsonIsCurrent'
          BY <3>4, <4>1, <1>1, Recounted DEF JsonIsCurrent
        <4>3. Types'
          BY <1>1, <2>2, <3>4, <4>2 DEF Types
        <4>4. Counts'
          BY <1>1, <1>2, <2>2, <2>3, <3>1, <4>2 DEF Counts
        <4>5. PanicsOnlyUncounted'
          BY <2>2, <3>4 DEF PanicsOnlyUncounted
        <4> QED  BY <4>2, <4>3, <4>4, <4>5
      <3> QED  BY <3>2, <3>3, <3>4
    <2> QED  BY <1>1, <1>2, <2>4, <2>5, <2>6
  <1>8. CASE UNCHANGED vars
    BY <1>8 DEF vars, Types, JsonIsCurrent, Counts, PanicsOnlyUncounted
  <1> QED  BY <1>4, <1>5, <1>6, <1>7, <1>8 DEF Next

LEMMA InvAlways == Spec => []Inv
  BY InvInit, InvStep, PTL DEF Spec

(***************************************************************************)
(* The theorems.                                                           *)
(***************************************************************************)

(* The counter keeps its width, and the number of players overridden is    *)
(* never more than the players there are.                                  *)
THEOREM TypeCorrect == Spec => []TypeOK
  BY InvAlways, WhatIsShown, PTL

(* What a GetStatus is answered with counts the listed players that no     *)
(* from_config has forgotten, whatever the order of joins, leaves and      *)
(* updates.                                                                *)
THEOREM CountIsRight == Spec => []OnlineIsListed
  BY InvAlways, WhatIsShown, PTL

(* Without from_config forgetting a listed player, `-= 1` and `+= 1` never *)
(* overflow.                                                               *)
THEOREM NoOverflowUnlessUncounted == Spec => []PanicsOnlyUncounted
  BY InvAlways, PTL DEF Inv
=============================================================================
