--------------------------- MODULE VarIntProofs ---------------------------
(***************************************************************************)
(* Proofs about VarInts, for every base, every width of the integer type   *)
(* and every size that has room for it: what is written is read back, with *)
(* whatever behind it, and nothing shorter is mistaken for it.             *)
(*                                                                         *)
(* VarInt, Weight and the sum of Digits are recursive functions, whose     *)
(* values are a matter of induction.  The library's induction theorems     *)
(* take the claim as an operator, which no prover here instantiates; its   *)
(* theorem of the minimal element of a set in a well-founded order takes   *)
(* none.  Induction is therefore stated for the set of numbers for which a *)
(* claim holds, and recursion for a step that is a function.               *)
(***************************************************************************)
EXTENDS MCCodec, WellFoundedInduction, SequenceTheorems, TLAPS

-----------------------------------------------------------------------------
(* Induction and recursion on the natural numbers.                         *)

(* A set of natural numbers with a member has a least one. *)
LEMMA LeastOfSet ==
  ASSUME NEW T \in SUBSET Nat, T # {}
  PROVE  \E m \in T : \A k \in T : m <= k
  <1> DEFINE R == OpToRel(<, Nat)
  <1>1. IsWellFoundedOn(R, Nat)
    BY NatLessThanWellFounded, Zenon
  <1>2. \A p : p \in R <=> p \in Nat \X Nat /\ p[1] < p[2]
    BY Zenon DEF OpToRel
  <1> HIDE DEF R
  <1>3. PICK m \in T : \A k \in T : <<k, m>> \notin R
    BY <1>1, WFMin, Zenon
  <1>4. ASSUME NEW k \in T  PROVE m <= k
    <2>1. <<k, m>> \in Nat \X Nat /\ <<k, m>>[1] = k /\ <<k, m>>[2] = m
      OBVIOUS
    <2>2. ~(k < m)
      BY <1>2, <1>3, <2>1, Zenon
    <2> QED  BY <2>2
  <1> QED  BY <1>4

(* A number is in a set if every number is that has all smaller ones in it. *)
LEMMA StrongInduction ==
  ASSUME NEW T \in SUBSET Nat,
         \A n \in Nat : (\A m \in 0..n - 1 : m \in T) => n \in T
  PROVE  \A n \in Nat : n \in T
  <1> SUFFICES ASSUME Nat \ T # {}  PROVE FALSE
    OBVIOUS
  <1>1. PICK n \in Nat \ T : \A k \in Nat \ T : n <= k
    BY LeastOfSet
  <1>2. \A m \in 0..n - 1 : m \in T
    BY <1>1
  <1> QED  BY <1>1, <1>2

LEMMA Induction ==
  ASSUME NEW T \in SUBSET Nat, 0 \in T, \A n \in T : n + 1 \in T
  PROVE  \A n \in Nat : n \in T
  <1>1. ASSUME NEW n \in Nat, \A m \in 0..n - 1 : m \in T  PROVE n \in T
    <2>1. CASE n = 0
      BY <2>1
    <2>2. CASE n # 0
      <3>1. n - 1 \in T
        BY <1>1, <2>2
      <3> QED  BY <3>1, n = (n - 1) + 1
    <2> QED  BY <2>1, <2>2
  <1> QED  BY <1>1, StrongInduction

(* The functions that a step defines on the numbers up to n.               *)
Runs(S, a, step, n) ==
  {g \in [0..n -> S] : g[0] = a /\ \A i \in 0..n - 1 : g[i + 1] = step[i][g[i]]}

LEMMA RunsAgree ==
  ASSUME NEW S, NEW a \in S, NEW step \in [Nat -> [S -> S]],
         NEW m \in Nat, NEW n \in Nat, NEW g \in Runs(S, a, step, m), NEW h \in Runs(S, a, step, n),
         NEW i \in Nat, i <= m, i <= n
  PROVE  g[i] = h[i]
  <1> DEFINE T == {k \in Nat : k <= m /\ k <= n => g[k] = h[k]}
  <1>1. 0 \in T
    BY DEF Runs
  <1>2. ASSUME NEW k \in T  PROVE k + 1 \in T
    BY DEF Runs
  <1>3. i \in T
    <2> HIDE DEF T
    <2> QED  BY <1>1, <1>2, Induction, T \in SUBSET Nat DEF T
  <1> QED  BY <1>3

LEMMA RunsExist ==
  ASSUME NEW S, NEW a \in S, NEW step \in [Nat -> [S -> S]], NEW n \in Nat
  PROVE  Runs(S, a, step, n) # {}
  <1> DEFINE T == {k \in Nat : Runs(S, a, step, k) # {}}
  <1>1. 0 \in T
    <2>1. [i \in 0..0 |-> a] \in Runs(S, a, step, 0)
      BY DEF Runs
    <2> QED  BY <2>1
  <1>2. ASSUME NEW k \in T  PROVE k + 1 \in T
    <2>1. PICK g : g \in Runs(S, a, step, k)
      OBVIOUS
    <2> DEFINE h == [i \in 0..k + 1 |-> IF i = k + 1 THEN step[k][g[k]] ELSE g[i]]
    <2>2. h \in [0..k + 1 -> S]
      BY <2>1 DEF Runs
    <2>3. h[0] = a
      BY <2>1 DEF Runs
    <2>4. ASSUME NEW i \in 0..k  PROVE h[i + 1] = step[i][h[i]]
      BY <2>1 DEF Runs
    <2> HIDE DEF h
    <2>5. h \in Runs(S, a, step, k + 1)
      BY <2>2, <2>3, <2>4 DEF Runs
    <2> QED  BY <2>5
  <1>3. n \in T
    <2> HIDE DEF T
    <2> QED  BY <1>1, <1>2, Induction, T \in SUBSET Nat DEF T
  <1> QED  BY <1>3

(* A start and a step define a function on the natural numbers.            *)
Follows(f, S, a, step) ==
  f \in [Nat -> S] /\ f[0] = a /\ \A i \in Nat : f[i + 1] = step[i][f[i]]

LEMMA Recursion ==
  ASSUME NEW S, NEW a \in S, NEW step \in [Nat -> [S -> S]]
  PROVE  \E f : Follows(f, S, a, step)
  <1> DEFINE g(n) == CHOOSE h : h \in Runs(S, a, step, n)
             f == [n \in Nat |-> g(n)[n]]
  <1>1. \A n \in Nat : g(n) \in Runs(S, a, step, n)
    <2> SUFFICES ASSUME NEW n \in Nat  PROVE g(n) \in Runs(S, a, step, n)
      OBVIOUS
    <2>1. \E h : h \in Runs(S, a, step, n)
      BY RunsExist
    <2> QED  BY <2>1, Zenon
  <1> HIDE DEF g
  <1>2. f \in [Nat -> S] /\ f[0] = a
    BY <1>1 DEF Runs
  <1>3. ASSUME NEW i \in Nat  PROVE f[i + 1] = step[i][f[i]]
    <2>1. g(i + 1)[i] = g(i)[i]
      BY <1>1, RunsAgree
    <2>2. g(i + 1)[i + 1] = step[i][g(i + 1)[i]]
      BY <1>1 DEF Runs
    <2> QED  BY <2>1, <2>2
  <1> HIDE DEF f
  <1>4. Follows(f, S, a, step)
    BY <1>2, <1>3 DEF Follows
  <1> QED  BY <1>4

-----------------------------------------------------------------------------
(* The recursive functions are what their definitions say. *)

LEMMA WeightDefined ==
  /\ Weight \in [Nat -> Nat]
  /\ Weight[0] = 1 /\ \A i \in Nat : Weight[i + 1] = Base * Weight[i]
  <1> DEFINE step == [i \in Nat |-> [w \in Nat |-> Base * w]]
             Is(f) == f = [i \in Nat |-> IF i = 0 THEN 1 ELSE Base * f[i - 1]]
  <1>1. PICK f : Follows(f, Nat, 1, step)
    <2>1. step \in [Nat -> [Nat -> Nat]]
      BY VarIntAssumption
    <2>2. 1 \in Nat
      OBVIOUS
    <2> HIDE DEF step
    <2> QED  BY <2>1, <2>2, Recursion, Zenon
  <1>2. Is(f)
    <2> SUFFICES ASSUME NEW i \in Nat \ {0}  PROVE f[i] = Base * f[i - 1]
      BY <1>1 DEF Follows
    <2> QED  BY <1>1, i - 1 \in Nat, i = (i - 1) + 1 DEF Follows
  <1>3. Is(Weight)
    <2>1. Weight = CHOOSE w : Is(w)
      BY DEF Weight
    <2> QED  BY <1>2, <2>1, Zenon
  <1>4. \A i \in Nat : Weight[i] \in Nat
    <2> DEFINE T == {i \in Nat : Weight[i] \in Nat}
    <2>1. 0 \in T
      BY <1>3
    <2>2. ASSUME NEW i \in T  PROVE i + 1 \in T
      <3>1. Weight[i + 1] = Base * Weight[i]
        BY <1>3
      <3> QED  BY <3>1, VarIntAssumption
    <2> HIDE DEF T
    <2> QED  BY <2>1, <2>2, Induction, T \in SUBSET Nat DEF T
  <1> QED  BY <1>3, <1>4

LEMMA WeightIsPositive == \A i \in Nat : Weight[i] > 0
  <1> DEFINE T == {i \in Nat : Weight[i] > 0}
  <1>1. 0 \in T /\ \A i \in T : i + 1 \in T
    BY WeightDefined, VarIntAssumption
  <1> HIDE DEF T
  <1> QED  BY <1>1, Induction, T \in SUBSET Nat DEF T

(* Euclidean division. *)
LEMMA Division ==
  ASSUME NEW n \in Nat, NEW b \in Nat \ {0}
  PROVE  n = b * (n \div b) + (n % b) /\ n \div b \in Nat /\ n % b \in 0..b - 1
  <1>1. n = b * (n \div b) + (n % b)
    BY Z3
  <1>2. n \div b \in Nat /\ n % b \in 0..b - 1
    OBVIOUS
  <1> QED  BY <1>1, <1>2

LEMMA Quotient ==
  ASSUME NEW n \in Nat, n >= Base
  PROVE  n \div Base \in 0..n - 1 /\ n \div Base # 0
  <1>1. /\ n = Base * (n \div Base) + (n % Base) /\ n \div Base \in Nat
        /\ n % Base \in 0..Base - 1
    BY Division, VarIntAssumption
  <1> QED  BY <1>1, VarIntAssumption

(* The byte that ends a VarInt, and one that does not. *)
EndByte(d) == [more |-> FALSE, digit |-> d]
MoreByte(d) == [more |-> TRUE, digit |-> d]

LEMMA BytesTyped == \A d \in 0..Base - 1 : EndByte(d) \in Byte /\ MoreByte(d) \in Byte
  BY DEF EndByte, MoreByte, Byte

LEMMA DigitsTyped ==
  ASSUME NEW n \in Nat
  PROVE  /\ n < Base => EndByte(n) \in Byte
         /\ MoreByte(n % Base) \in Byte /\ n \div Base \in Nat
  <1>1. n % Base \in 0..Base - 1 /\ n \div Base \in Nat
    BY Division, VarIntAssumption
  <1>2. n < Base => n \in 0..Base - 1
    BY VarIntAssumption
  <1> QED  BY <1>1, <1>2, BytesTyped

LEMMA VarIntDefined ==
  \A n \in Nat :
    /\ n < Base => VarInt[n] = <<EndByte(n)>>
    /\ n >= Base => VarInt[n] = <<MoreByte(n % Base)>> \o VarInt[n \div Base]
  <1> DEFINE Write(g, n) ==
               IF n < Base THEN <<EndByte(n)>> ELSE <<MoreByte(n % Base)>> \o g[n \div Base]
             Is(f) == f = [n \in Nat |-> Write(f, n)]
             S == [Nat -> Seq(Byte)]
             step == [i \in Nat |-> [g \in S |-> [n \in Nat |-> Write(g, n)]]]
             none == [n \in Nat |-> <<>>]
  <1>1. \A g \in S, n \in Nat : Write(g, n) \in Seq(Byte)
    <2> SUFFICES ASSUME NEW g \in S, NEW n \in Nat  PROVE Write(g, n) \in Seq(Byte)
      OBVIOUS
    <2>1. CASE n < Base
      BY <2>1, DigitsTyped
    <2>2. CASE n >= Base
      <3>1. MoreByte(n % Base) \in Byte /\ n \div Base \in Nat
        BY DigitsTyped
      <3> QED  BY <2>2, <3>1, VarIntAssumption
    <2> QED  BY <2>1, <2>2, VarIntAssumption
  <1>2. PICK approx : Follows(approx, S, none, step)
    <2>1. none \in S
      OBVIOUS
    <2>2. step \in [Nat -> [S -> S]]
      <3> HIDE DEF Write
      <3> QED  BY <1>1
    <2> HIDE DEF S, none, step
    <2> QED  BY <2>1, <2>2, Recursion, Zenon
  <1>3. \A i, n \in Nat : approx[i + 1][n] = Write(approx[i], n) /\ approx[i] \in S
    <2> SUFFICES ASSUME NEW i \in Nat, NEW n \in Nat
                 PROVE  approx[i + 1][n] = Write(approx[i], n) /\ approx[i] \in S
      OBVIOUS
    <2> HIDE DEF Write
    <2>1. approx \in [Nat -> S] /\ approx[i + 1] = step[i][approx[i]]
      <3> HIDE DEF S, step, none
      <3> QED  BY <1>2 DEF Follows
    <2>2. approx[i] \in S
      <3> HIDE DEF S, step, none
      <3> QED  BY <2>1
    <2>3. step[i][approx[i]] = [k \in Nat |-> Write(approx[i], k)]
      <3>1. \A g \in S : step[i][g] = [k \in Nat |-> Write(g, k)]
        <4> HIDE DEF S
        <4> QED  OBVIOUS
      <3> HIDE DEF step, S
      <3> QED  BY <2>2, <3>1
    <2>4. approx[i + 1] = [k \in Nat |-> Write(approx[i], k)]
      <3> HIDE DEF step, S
      <3> QED  BY <2>1, <2>3
    <2>5. approx[i + 1][n] = Write(approx[i], n)
      <3> HIDE DEF step, S
      <3> QED  BY <2>4
    <2> QED  BY <2>2, <2>5, Zenon
  <1> HIDE DEF step
  <1>4. \A n \in Nat : \A i, j \in Nat : i > n /\ j > n => approx[i][n] = approx[j][n]
    <2> DEFINE T == {n \in Nat : \A i, j \in Nat : i > n /\ j > n => approx[i][n] = approx[j][n]}
    <2>1. ASSUME NEW n \in Nat, \A m \in 0..n - 1 : m \in T
          PROVE  n \in T
      <3> SUFFICES ASSUME NEW i \in Nat, NEW j \in Nat, i > n, j > n
                   PROVE  approx[i][n] = approx[j][n]
        OBVIOUS
      <3>1. /\ i - 1 \in Nat /\ i = (i - 1) + 1 /\ j - 1 \in Nat /\ j = (j - 1) + 1
        OBVIOUS
      <3>2. approx[i][n] = Write(approx[i - 1], n) /\ approx[j][n] = Write(approx[j - 1], n)
        <4> HIDE DEF Write
        <4> QED  BY <1>3, <3>1
      <3>3. CASE n < Base
        BY <3>2, <3>3
      <3>4. CASE n >= Base
        <4>1. n \div Base \in 0..n - 1
          BY <3>4, Quotient
        <4>2. approx[i - 1][n \div Base] = approx[j - 1][n \div Base]
          <5>1. n \div Base \in T /\ i - 1 > n \div Base /\ j - 1 > n \div Base
            <6> DEFINE q == n \div Base
            <6>1. q \in 0..n - 1
              BY <4>1
            <6> HIDE DEF q
            <6>2. q \in T /\ i - 1 > q /\ j - 1 > q
              BY <2>1, <6>1
            <6> QED  BY <6>2 DEF q
          <5> QED  BY <3>1, <5>1
        <4> QED  BY <3>2, <4>2, Zenon
      <3> QED  BY <3>3, <3>4, VarIntAssumption
    <2> HIDE DEF T
    <2> QED  BY <2>1, StrongInduction, T \in SUBSET Nat DEF T
  <1> DEFINE f == [n \in Nat |-> approx[n + 1][n]]
  <1>5. Is(f)
    <2> SUFFICES ASSUME NEW n \in Nat  PROVE f[n] = Write(f, n)
      BY Zenon
    <2>1. f[n] = Write(approx[n], n)
      <3> HIDE DEF Write
      <3> QED  BY <1>3
    <2>2. CASE n < Base
      BY <2>1, <2>2
    <2>3. CASE n >= Base
      <3>1. n \div Base \in 0..n - 1
        BY <2>3, Quotient
      <3>2. approx[n][n \div Base] = f[n \div Base]
        <4>1. f[n \div Base] = approx[(n \div Base) + 1][n \div Base]
          BY <3>1
        <4>2. /\ n \div Base \in Nat /\ n > n \div Base
              /\ (n \div Base) + 1 \in Nat /\ (n \div Base) + 1 > n \div Base
          BY <3>1, VarIntAssumption
        <4> HIDE DEF f
        <4> QED  BY <1>4, <4>1, <4>2
      <3> QED  BY <2>1, <3>2, Zenon
    <2> QED  BY <2>2, <2>3, VarIntAssumption
  <1> HIDE DEF f
  <1>6. Is(VarInt)
    <2>1. VarInt = CHOOSE v : Is(v)
      BY DEF VarInt, EndByte, MoreByte
    <2> QED  BY <1>5, <2>1, Zenon
  <1>7. \A n \in Nat : VarInt[n] = Write(VarInt, n)
    <2> DEFINE w == [n \in Nat |-> Write(VarInt, n)]
    <2>1. VarInt = w
      BY <1>6, Zenon
    <2>2. \A n \in Nat : w[n] = Write(VarInt, n)
      <3> HIDE DEF Write
      <3> QED  OBVIOUS
    <2> HIDE DEF w
    <2> QED  BY <2>1, <2>2, Zenon
  <1> QED
    <2> SUFFICES ASSUME NEW n \in Nat
                 PROVE  /\ n < Base => VarInt[n] = <<EndByte(n)>>
                        /\ n >= Base => VarInt[n] = <<MoreByte(n % Base)>> \o VarInt[n \div Base]
      OBVIOUS
    <2>1. VarInt[n] = Write(VarInt, n)
      BY <1>7, Zenon
    <2>2. n >= Base => ~(n < Base)
      BY VarIntAssumption
    <2> QED  BY <2>1, <2>2, Zenon

LEMMA VarIntTyped == \A n \in Nat : VarInt[n] \in Seq(Byte)
  <1> DEFINE T == {n \in Nat : VarInt[n] \in Seq(Byte)}
  <1>1. ASSUME NEW n \in Nat, \A m \in 0..n - 1 : m \in T
        PROVE  n \in T
    <2> SUFFICES VarInt[n] \in Seq(Byte)
      OBVIOUS
    <2>1. CASE n < Base
      <3>1. VarInt[n] = <<EndByte(n)>> /\ EndByte(n) \in Byte
        BY <2>1, VarIntDefined, DigitsTyped, Zenon
      <3> QED  BY <3>1
    <2>2. CASE n >= Base
      <3>1. VarInt[n] = <<MoreByte(n % Base)>> \o VarInt[n \div Base]
        BY <2>2, VarIntDefined, Zenon
      <3>2. n \div Base \in T
        BY <1>1, <2>2, Quotient
      <3>3. MoreByte(n % Base) \in Byte
        BY DigitsTyped
      <3> QED  BY <3>1, <3>2, <3>3
    <2> QED  BY <2>1, <2>2, VarIntAssumption
  <1> HIDE DEF T
  <1> QED  BY <1>1, StrongInduction, T \in SUBSET Nat DEF T

-----------------------------------------------------------------------------
(* What is written: a VarInt, as long as its number makes it. *)

LEMMA Prefixed ==
  ASSUME NEW b \in Byte, NEW s \in Seq(Byte)
  PROVE  /\ <<b>> \o s \in Seq(Byte) /\ Len(<<b>> \o s) = Len(s) + 1
         /\ (<<b>> \o s)[1] = b /\ \A i \in 1..Len(s) : (<<b>> \o s)[i + 1] = s[i]
  OBVIOUS

LEMMA VarIntEnds ==
  \A n \in Nat : Len(VarInt[n]) \in Nat \ {0} /\ EndsAt(VarInt[n], Len(VarInt[n]))
  <1> DEFINE Ends(s) == Len(s) \in Nat \ {0} /\ EndsAt(s, Len(s))
             T == {n \in Nat : Ends(VarInt[n])}
  <1>1. ASSUME NEW n \in Nat, \A m \in 0..n - 1 : m \in T
        PROVE  n \in T
    <2> SUFFICES Ends(VarInt[n])
      OBVIOUS
    <2>1. CASE n < Base
      <3>1. VarInt[n] = <<EndByte(n)>> /\ EndByte(n).more = FALSE
        BY <2>1, VarIntDefined, Zenon DEF EndByte
      <3> QED  BY <3>1 DEF EndsAt
    <2>2. CASE n >= Base
      <3> DEFINE q == n \div Base
                 b == MoreByte(n % Base)
                 s == VarInt[q]
      <3>1. VarInt[n] = <<b>> \o s
        BY <2>2, VarIntDefined, Zenon
      <3>2. q \in 0..n - 1 /\ b \in Byte /\ b.more = TRUE
        BY <2>2, Quotient, DigitsTyped DEF MoreByte
      <3>3. s \in Seq(Byte) /\ Ends(s)
        <4> HIDE DEF q, Ends
        <4> QED  BY <1>1, <3>2, VarIntTyped
      <3> HIDE DEF q, b, s
      <3>4. ASSUME NEW t, t = <<b>> \o s  PROVE Ends(t)
        <4>1. /\ Len(t) = Len(s) + 1 /\ t[1] = b
              /\ \A i \in 1..Len(s) : t[i + 1] = s[i]
          BY <3>2, <3>3, <3>4, Prefixed
        <4>2. ~t[Len(t)].more
          BY <3>3, <4>1 DEF EndsAt
        <4>3. ASSUME NEW i \in 1..Len(t) - 1  PROVE t[i].more
          <5>1. CASE i = 1
            BY <3>2, <4>1, <5>1
          <5>2. CASE i # 1
            <6>1. i - 1 \in 1..Len(s) - 1 /\ t[i] = s[i - 1]
              BY <3>3, <4>1, <5>2
            <6> QED  BY <3>3, <6>1 DEF EndsAt
          <5> QED  BY <5>1, <5>2
        <4> QED  BY <3>3, <4>1, <4>2, <4>3 DEF EndsAt
      <3> QED  BY <3>1, <3>4
    <2> QED  BY <2>1, <2>2, VarIntAssumption
  <1> HIDE DEF T
  <1>2. \A n \in Nat : n \in T
    BY <1>1, StrongInduction, T \in SUBSET Nat DEF T
  <1> QED  BY <1>2 DEF T

(* A number has no more digits than the first weight above it. *)
LEMMA VarIntFits ==
  \A k \in Nat : \A n \in Nat : n < Weight[k + 1] => Len(VarInt[n]) <= k + 1
  <1> DEFINE T == {k \in Nat : \A n \in Nat : n < Weight[k + 1] => Len(VarInt[n]) <= k + 1}
  <1>1. ASSUME NEW n \in Nat, n < Base  PROVE Len(VarInt[n]) = 1
    <2>1. VarInt[n] = <<EndByte(n)>>
      BY <1>1, VarIntDefined, Zenon
    <2> QED  BY <2>1
  <1>2. 0 \in T
    <2>1. Weight[1] = Base
      BY WeightDefined, VarIntAssumption, 1 = 0 + 1
    <2>2. ASSUME NEW n \in Nat, n < Weight[0 + 1]  PROVE Len(VarInt[n]) <= 0 + 1
      <3>1. n < Base
        BY <2>1, <2>2
      <3> QED  BY <1>1, <3>1
    <2> QED  BY <2>2
  <1>3. ASSUME NEW k \in T  PROVE k + 1 \in T
    <2> SUFFICES ASSUME NEW n \in Nat, n < Weight[(k + 1) + 1]
                 PROVE  Len(VarInt[n]) <= (k + 1) + 1
      OBVIOUS
    <2>1. CASE n < Base
      BY <1>1, <2>1
    <2>2. CASE n >= Base
      <3> DEFINE q == n \div Base
                 w == Weight[k + 1]
      <3>1. VarInt[n] = <<MoreByte(n % Base)>> \o VarInt[q]
        BY <2>2, VarIntDefined, Zenon
      <3>2. MoreByte(n % Base) \in Byte /\ VarInt[q] \in Seq(Byte) /\ q \in Nat
        BY DigitsTyped, VarIntTyped
      <3>3. Len(VarInt[n]) = Len(VarInt[q]) + 1
        BY <3>1, <3>2, Prefixed
      <3>4. q < w
        <4>1. n = Base * q + (n % Base) /\ n % Base \in 0..Base - 1
          BY Division, VarIntAssumption
        <4>2. Weight[(k + 1) + 1] = Base * w /\ w \in Nat
          <5>1. k + 1 \in Nat
            OBVIOUS
          <5> QED  BY <5>1, WeightDefined
        <4>3. n % Base \in Nat /\ Base * q + (n % Base) < Base * w
          BY <4>1, <4>2, VarIntAssumption
        <4> HIDE DEF q, w
        <4>4. ASSUME NEW r \in Nat, Base * q + r < Base * w  PROVE q < w
          BY <3>2, <4>2, <4>4, VarIntAssumption
        <4> QED  BY <4>3, <4>4
      <3> HIDE DEF q, w
      <3>5. Len(VarInt[q]) <= k + 1
        BY <3>2, <3>4 DEF w
      <3>6. Len(VarInt[q]) \in Nat
        BY <3>2
      <3> QED  BY <3>3, <3>5, <3>6
    <2> QED  BY <2>1, <2>2, VarIntAssumption
  <1> HIDE DEF T
  <1>4. \A k \in Nat : k \in T
    BY <1>2, <1>3, Induction, T \in SUBSET Nat DEF T
  <1> QED  BY <1>4 DEF T

-----------------------------------------------------------------------------
(* What is read: the sum of the digits, each times its weight. *)

LEMMA DigitIsNat == \A b \in Byte : b.digit \in Nat
  BY VarIntAssumption DEF Byte

(* The sums of the first digits of s, none at first. *)
Sums(f, s) ==
  /\ f \in [0..Len(s) -> Nat] /\ f[0] = 0
  /\ \A i \in 1..Len(s) : f[i] = f[i - 1] + s[i].digit * Weight[i - 1]

LEMMA DigitsDefined ==
  ASSUME NEW s \in Seq(Byte)
  PROVE  \E f : Sums(f, s) /\ Digits(s) = f[Len(s)]
  <1> DEFINE Is(f) ==
               f = [i \in 0..Len(s) |->
                      IF i = 0 THEN 0 ELSE f[i - 1] + s[i].digit * Weight[i - 1]]
             step == [i \in Nat |-> [x \in Nat |->
                        IF i < Len(s) THEN x + s[i + 1].digit * Weight[i] ELSE x]]
             sum == CHOOSE f : Is(f)
  <1>1. Digits(s) = sum[Len(s)]
    BY DEF Digits
  <1>2. \A i \in 1..Len(s) : s[i].digit * Weight[i - 1] \in Nat
    <2> SUFFICES ASSUME NEW i \in 1..Len(s)  PROVE s[i].digit * Weight[i - 1] \in Nat
      OBVIOUS
    <2>1. s[i].digit \in Nat
      BY DigitIsNat, s[i] \in Byte
    <2>2. Weight[i - 1] \in Nat
      BY WeightDefined, i - 1 \in Nat
    <2> QED  BY <2>1, <2>2
  <1>3. PICK g : Follows(g, Nat, 0, step)
    <2>1. step \in [Nat -> [Nat -> Nat]]
      <3>1. ASSUME NEW i \in Nat, NEW x \in Nat
            PROVE  (IF i < Len(s) THEN x + s[i + 1].digit * Weight[i] ELSE x) \in Nat
        <4>1. CASE i < Len(s)
          <5>1. i + 1 \in 1..Len(s) /\ (i + 1) - 1 = i
            BY <4>1
          <5> QED  BY <1>2, <4>1, <5>1
        <4> QED  BY <4>1
      <3> QED  BY <3>1
    <2>2. 0 \in Nat
      OBVIOUS
    <2> HIDE DEF step
    <2> QED  BY <2>1, <2>2, Recursion, Zenon
  <1>4. ASSUME NEW i \in 1..Len(s)  PROVE g[i] = g[i - 1] + s[i].digit * Weight[i - 1]
    <2>1. i - 1 \in Nat /\ i = (i - 1) + 1 /\ i - 1 < Len(s)
      OBVIOUS
    <2>2. g[i] = step[i - 1][g[i - 1]] /\ g[i - 1] \in Nat
      BY <1>3, <2>1 DEF Follows
    <2> QED  BY <2>1, <2>2
  <1> DEFINE f == [i \in 0..Len(s) |-> g[i]]
  <1>5. Is(f)
    <2> HIDE DEF step
    <2> SUFFICES ASSUME NEW i \in 0..Len(s)
                 PROVE  g[i] = IF i = 0 THEN 0 ELSE f[i - 1] + s[i].digit * Weight[i - 1]
      OBVIOUS
    <2>1. CASE i = 0
      BY <1>3, <2>1 DEF Follows
    <2>2. CASE i # 0
      <3>1. i \in 1..Len(s) /\ f[i - 1] = g[i - 1]
        BY <2>2
      <3> QED  BY <1>4, <2>2, <3>1
    <2> QED  BY <2>1, <2>2
  <1>6. Is(sum)
    BY <1>5, Zenon
  <1>7. Sums(sum, s)
    <2> HIDE DEF sum, step, f
    <2>1. /\ DOMAIN sum = 0..Len(s) /\ sum[0] = 0
          /\ \A i \in 1..Len(s) : sum[i] = sum[i - 1] + s[i].digit * Weight[i - 1]
      <3> DEFINE w == [i \in 0..Len(s) |->
                         IF i = 0 THEN 0 ELSE sum[i - 1] + s[i].digit * Weight[i - 1]]
      <3>1. sum = w
        BY <1>6, Zenon
      <3>2. /\ DOMAIN w = 0..Len(s) /\ w[0] = 0
            /\ \A i \in 1..Len(s) : w[i] = sum[i - 1] + s[i].digit * Weight[i - 1]
        OBVIOUS
      <3> HIDE DEF w
      <3> QED  BY <3>1, <3>2, Zenon
    <2> DEFINE T == {i \in Nat : i <= Len(s) => sum[i] \in Nat}
    <2>2. 0 \in T
      BY <2>1
    <2>3. ASSUME NEW i \in T  PROVE i + 1 \in T
      <3> SUFFICES ASSUME i + 1 <= Len(s)  PROVE sum[i + 1] \in Nat
        OBVIOUS
      <3>1. i + 1 \in 1..Len(s) /\ (i + 1) - 1 = i
        OBVIOUS
      <3>2. sum[i + 1] = sum[i] + s[i + 1].digit * Weight[i]
        BY <2>1, <3>1
      <3>3. s[i + 1].digit * Weight[i] \in Nat
        BY <1>2, <3>1
      <3> QED  BY <3>2, <3>3
    <2> HIDE DEF T
    <2>4. \A i \in Nat : i \in T
      BY <2>2, <2>3, Induction, T \in SUBSET Nat DEF T
    <2>5. sum \in [0..Len(s) -> Nat]
      <3>1. sum = [i \in 0..Len(s) |-> sum[i]]
        BY <1>6, <2>1
      <3>2. \A i \in 0..Len(s) : sum[i] \in Nat
        BY <2>4 DEF T
      <3> QED  BY <3>1, <3>2
    <2> QED  BY <2>1, <2>5 DEF Sums
  <1> HIDE DEF sum
  <1> QED  BY <1>1, <1>7

(* A digit put in front moves the others up by one. *)
LEMMA DigitsOfPrefixed ==
  ASSUME NEW b \in Byte, NEW s \in Seq(Byte)
  PROVE  Digits(<<b>> \o s) = b.digit + Base * Digits(s) /\ Digits(s) \in Nat
  <1> DEFINE t == <<b>> \o s
  <1>1. /\ t \in Seq(Byte) /\ Len(t) = Len(s) + 1
        /\ t[1] = b /\ \A i \in 1..Len(s) : t[i + 1] = s[i]
    BY Prefixed
  <1> HIDE DEF t
  <1>2. PICK f : Sums(f, s) /\ Digits(s) = f[Len(s)]
    BY DigitsDefined
  <1>3. PICK g : Sums(g, t) /\ Digits(t) = g[Len(t)]
    BY <1>1, DigitsDefined
  <1> DEFINE T == {i \in Nat : i <= Len(s) => g[i + 1] = b.digit + Base * f[i]}
  <1>4. 0 \in T
    <2>1. g[1] = g[0] + t[1].digit * Weight[0] /\ g[0] = 0 /\ f[0] = 0 /\ 0 + 1 = 1
      BY <1>1, <1>2, <1>3 DEF Sums
    <2>2. Weight[0] = 1 /\ b.digit \in Nat
      BY WeightDefined, DigitIsNat
    <2> QED  BY <1>1, <2>1, <2>2, VarIntAssumption
  <1>5. ASSUME NEW i \in T  PROVE i + 1 \in T
    <2> SUFFICES ASSUME i + 1 <= Len(s)
                 PROVE  g[(i + 1) + 1] = b.digit + Base * f[i + 1]
      OBVIOUS
    <2> DEFINE d == s[i + 1].digit
               w == Weight[i]
    <2>1. i + 1 \in 1..Len(s) /\ (i + 1) - 1 = i /\ i \in 0..Len(s)
      OBVIOUS
    <2>2. f[i + 1] = f[i] + d * w /\ f[i] \in Nat
      BY <1>2, <2>1 DEF Sums
    <2>3. g[(i + 1) + 1] = g[i + 1] + d * Weight[i + 1]
      <3>1. (i + 1) + 1 \in 1..Len(t) /\ ((i + 1) + 1) - 1 = i + 1
        BY <1>1, <2>1
      <3>2. t[(i + 1) + 1] = s[i + 1]
        BY <1>1, <2>1
      <3> QED  BY <1>3, <3>1, <3>2 DEF Sums
    <2>4. Weight[i + 1] = Base * w /\ w \in Nat
      BY WeightDefined
    <2>5. g[i + 1] = b.digit + Base * f[i]
      BY <2>1
    <2>6. d \in Nat /\ b.digit \in Nat
      BY DigitIsNat, <2>1, s[i + 1] \in Byte
    <2> HIDE DEF d, w
    <2>7. ASSUME NEW x \in Nat, NEW y \in Nat
          PROVE  (y + Base * x) + d * (Base * w) = y + Base * (x + d * w)
      BY <2>4, <2>6, VarIntAssumption
    <2> QED  BY <2>2, <2>3, <2>4, <2>5, <2>6, <2>7
  <1>6. Len(s) \in T
    <2> HIDE DEF T
    <2> QED  BY <1>4, <1>5, Induction, T \in SUBSET Nat, Len(s) \in Nat DEF T
  <1>7. f[Len(s)] \in Nat
    BY <1>2 DEF Sums
  <1> QED  BY <1>1, <1>2, <1>3, <1>6, <1>7 DEF t

LEMMA DigitsOfVarInt == \A n \in Nat : Digits(VarInt[n]) = n
  <1> DEFINE T == {n \in Nat : Digits(VarInt[n]) = n}
  <1>1. Digits(<<>>) = 0
    <2>1. PICK f : Sums(f, <<>>) /\ Digits(<<>>) = f[Len(<<>>)]
      BY DigitsDefined, <<>> \in Seq(Byte)
    <2> QED  BY <2>1 DEF Sums
  <1>2. ASSUME NEW n \in Nat, \A m \in 0..n - 1 : m \in T
        PROVE  n \in T
    <2> SUFFICES Digits(VarInt[n]) = n
      OBVIOUS
    <2>1. CASE n < Base
      <3> DEFINE b == EndByte(n)
      <3>1. VarInt[n] = <<b>> /\ b.digit = n
        BY <2>1, VarIntDefined, Zenon DEF EndByte
      <3>2. b \in Byte
        BY <2>1, DigitsTyped
      <3> HIDE DEF b
      <3>3. Digits(<<b>> \o <<>>) = b.digit + Base * 0
        BY <1>1, <3>2, DigitsOfPrefixed, <<>> \in Seq(Byte)
      <3>4. <<b>> \o <<>> = <<b>>
        BY <3>2
      <3> QED  BY <3>1, <3>3, <3>4, VarIntAssumption
    <2>2. CASE n >= Base
      <3> DEFINE q == n \div Base
                 r == n % Base
                 b == MoreByte(r)
      <3>1. VarInt[n] = <<b>> \o VarInt[q] /\ b.digit = r
        BY <2>2, VarIntDefined, Zenon DEF MoreByte
      <3>2. b \in Byte
        BY DigitsTyped
      <3>3. q \in 0..n - 1
        BY <2>2, Quotient
      <3>4. n = Base * q + r /\ r \in Nat
        BY Division, VarIntAssumption
      <3> HIDE DEF q, r, b
      <3>5. Digits(VarInt[q]) = q /\ VarInt[q] \in Seq(Byte)
        BY <1>2, <3>3, VarIntTyped
      <3>6. Digits(VarInt[n]) = r + Base * q
        BY <3>1, <3>2, <3>5, DigitsOfPrefixed
      <3> QED  BY <3>3, <3>4, <3>6, VarIntAssumption
    <2> QED  BY <2>1, <2>2, VarIntAssumption
  <1> HIDE DEF T
  <1>3. \A n \in Nat : n \in T
    BY <1>2, StrongInduction, T \in SUBSET Nat DEF T
  <1> QED  BY <1>3 DEF T

-----------------------------------------------------------------------------
(* Reading from the front of a sequence. *)

(* Where a VarInt ends, there is but one place. *)
LEMMA EndsOnce ==
  ASSUME NEW s, NEW i \in 1..VarIntMax, NEW j \in 1..VarIntMax, EndsAt(s, i), EndsAt(s, j)
  PROVE  i = j
  BY VarIntAssumption DEF EndsAt

(* A VarInt is read as far as it goes, whatever comes behind it.           *)
LEMMA ReadEnds ==
  ASSUME NEW s, NEW i \in 1..VarIntMax, EndsAt(s, i)
  PROVE  ReadVarInt(s) = [is |-> "ok", len |-> i, val |-> Value(SubSeq(s, 1, i))]
  <1>1. (CHOOSE k \in 1..VarIntMax : EndsAt(s, k)) = i
    BY EndsOnce
  <1> QED  BY <1>1 DEF ReadVarInt

(* The other way round: what was read ends there.                          *)
LEMMA ReadOk ==
  ASSUME NEW s, ReadVarInt(s).is = "ok"
  PROVE  \E i \in 1..VarIntMax : EndsAt(s, i)
  BY DEF ReadVarInt

(* What ends in a sequence ends in every longer one that begins with it.   *)
LEMMA EndsBeyond ==
  ASSUME NEW s \in Seq(Byte), NEW t \in Seq(Byte), NEW i \in 1..VarIntMax, EndsAt(t, i),
         Len(t) <= Len(s), \A j \in 1..Len(t) : s[j] = t[j]
  PROVE  EndsAt(s, i) /\ SubSeq(s, 1, i) = SubSeq(t, 1, i)
  <1>1. i \in Nat /\ Len(t) \in Nat /\ Len(s) \in Nat /\ i <= Len(t)
    BY VarIntAssumption DEF EndsAt
  <1>2. EndsAt(s, i)
    BY <1>1 DEF EndsAt
  <1>3. SubSeq(s, 1, i) = SubSeq(t, 1, i)
    BY <1>1
  <1> QED  BY <1>2, <1>3

(* In front of the end of its VarInt, a sequence is read as short.         *)
LEMMA ReadShort ==
  ASSUME NEW s \in Seq(Byte), NEW t \in Seq(Byte), NEW i \in 1..VarIntMax, EndsAt(t, i),
         Len(s) < i, \A j \in 1..Len(s) : s[j] = t[j]
  PROVE  ReadVarInt(s) = [is |-> "short"]
  <1>1. \A k \in 1..VarIntMax : ~EndsAt(s, k)
    BY VarIntAssumption DEF EndsAt
  <1>2. Len(s) < VarIntMax
    BY VarIntAssumption
  <1> QED  BY <1>1, <1>2 DEF ReadVarInt

(* Of what was read, the length is within what there is.                   *)
LEMMA ReadLength ==
  ASSUME NEW s \in Seq(Byte), ReadVarInt(s).is = "ok"
  PROVE  ReadVarInt(s).len \in 1..Len(s)
  <1>1. PICK i \in 1..VarIntMax : EndsAt(s, i)
    BY ReadOk
  <1>2. ReadVarInt(s).len = i
    BY <1>1, ReadEnds
  <1> QED  BY <1>1, <1>2, VarIntAssumption DEF EndsAt

(* The integer type gives every value up to its width a sign.              *)
LEMMA SignedOf ==
  ASSUME NEW u \in Nat
  PROVE  Signed(u) \in Int /\ (u < Wrap \div 2 => Signed(u) = u)
  <1>1. u % Wrap \in 0..Wrap - 1
    BY Division, VarIntAssumption
  <1>2. ASSUME u < Wrap \div 2  PROVE Signed(u) = u
    <2>1. u < Wrap
      BY <1>2, VarIntAssumption
    <2>2. u % Wrap = u
      BY <2>1, VarIntAssumption
    <2> QED  BY <1>2, <2>2 DEF Signed
  <1> QED  BY <1>1, <1>2, VarIntAssumption DEF Signed

LEMMA ValueTyped == \A s \in Seq(Byte) : Value(s) \in Int
  <1> SUFFICES ASSUME NEW s \in Seq(Byte)  PROVE Value(s) \in Int
    OBVIOUS
  <1>1. PICK f : Sums(f, s) /\ Digits(s) = f[Len(s)]
    BY DigitsDefined
  <1>2. Digits(s) \in Nat
    BY <1>1 DEF Sums
  <1> QED  BY <1>2, SignedOf DEF Value

LEMMA ReadTyped ==
  ASSUME NEW s \in Seq(Byte), ReadVarInt(s).is = "ok"
  PROVE  ReadVarInt(s).val \in Int
  <1>1. PICK i \in 1..VarIntMax : EndsAt(s, i)
    BY ReadOk
  <1>2. SubSeq(s, 1, i) \in Seq(Byte)
    BY <1>1, VarIntAssumption DEF EndsAt
  <1>3. Value(SubSeq(s, 1, i)) \in Int
    BY <1>2, ValueTyped
  <1> QED  BY <1>1, <1>3, ReadEnds

(* A VarInt of a value of the integer type is not too long to be read.     *)
LEMMA VarIntLength ==
  ASSUME NEW u \in 0..Wrap - 1
  PROVE  Len(VarInt[u]) \in 1..VarIntMax
  <1>1. u < Weight[VarIntMax]
    <2>1. Weight[VarIntMax] \in Nat
      BY WeightDefined, VarIntAssumption
    <2> QED  BY <2>1, RoomAssumption, VarIntAssumption
  <1>2. VarIntMax - 1 \in Nat /\ (VarIntMax - 1) + 1 = VarIntMax
    BY VarIntAssumption
  <1>3. Len(VarInt[u]) <= VarIntMax
    BY <1>1, <1>2, VarIntFits
  <1> QED  BY <1>3, VarIntEnds, VarIntAssumption

(* What is written is read back: `VarInt::read` gives the value that        *)
(* `VarInt::write` was given, be it a length (net.rs:127) or an id, and     *)
(* takes exactly its bytes, whatever comes behind them.                     *)
THEOREM WrittenIsRead ==
  \A u \in 0..Wrap - 1, t \in Seq(Byte) :
    ReadVarInt(VarInt[u] \o t) = [is |-> "ok", len |-> Len(VarInt[u]), val |-> Signed(u)]
  <1> SUFFICES ASSUME NEW u \in 0..Wrap - 1, NEW t \in Seq(Byte)
               PROVE  ReadVarInt(VarInt[u] \o t) =
                        [is |-> "ok", len |-> Len(VarInt[u]), val |-> Signed(u)]
    OBVIOUS
  <1> DEFINE v == VarInt[u]
  <1>1. v \in Seq(Byte) /\ Len(v) \in 1..VarIntMax /\ EndsAt(v, Len(v)) /\ Digits(v) = u
    BY VarIntTyped, VarIntLength, VarIntEnds, DigitsOfVarInt
  <1> HIDE DEF v
  <1>2. /\ v \o t \in Seq(Byte) /\ Len(v) <= Len(v \o t)
        /\ \A j \in 1..Len(v) : (v \o t)[j] = v[j]
    BY <1>1
  <1>3. EndsAt(v \o t, Len(v)) /\ SubSeq(v \o t, 1, Len(v)) = SubSeq(v, 1, Len(v))
    BY <1>1, <1>2, EndsBeyond
  <1>4. SubSeq(v, 1, Len(v)) = v
    BY <1>1
  <1>5. ReadVarInt(v \o t) = [is |-> "ok", len |-> Len(v), val |-> Value(v)]
    BY <1>1, <1>3, <1>4, ReadEnds
  <1>6. Value(v) = Signed(u)
    BY <1>1 DEF Value
  <1> QED  BY <1>5, <1>6 DEF v

(* A VarInt of which the last bytes are missing is never taken for another  *)
(* one nor for an error: the decoder waits for the rest (net.rs:49).        *)
THEOREM PartIsShort ==
  \A u \in 0..Wrap - 1 : \A k \in 0..Len(VarInt[u]) - 1 :
    ReadVarInt(SubSeq(VarInt[u], 1, k)) = [is |-> "short"]
  <1> SUFFICES ASSUME NEW u \in 0..Wrap - 1, NEW k \in 0..Len(VarInt[u]) - 1
               PROVE  ReadVarInt(SubSeq(VarInt[u], 1, k)) = [is |-> "short"]
    OBVIOUS
  <1> DEFINE v == VarInt[u]
             s == SubSeq(v, 1, k)
  <1>1. v \in Seq(Byte) /\ Len(v) \in 1..VarIntMax /\ EndsAt(v, Len(v))
    BY VarIntTyped, VarIntLength, VarIntEnds
  <1> HIDE DEF v
  <1>2. s \in Seq(Byte) /\ Len(s) = k /\ \A j \in 1..k : s[j] = v[j]
    BY <1>1 DEF v
  <1>3. k < Len(v)
    BY <1>1 DEF v
  <1> HIDE DEF s
  <1>4. ReadVarInt(s) = [is |-> "short"]
    BY <1>1, <1>2, <1>3, ReadShort
  <1> QED  BY <1>4 DEF s, v
=============================================================================
