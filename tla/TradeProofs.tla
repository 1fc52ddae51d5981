---------------------------- MODULE TradeProofs -----------------------------
(***************************************************************************)
(* Proofs about Trade, for any number of players, items and houses and any *)
(* depth of containers: what a trade is about stands until it is done or   *)
(* closed, and nothing changes hands but in exchange.                      *)
(***************************************************************************)
EXTENDS Trade, FiniteSetTheorems, WellFoundedInduction, TLAPS

-----------------------------------------------------------------------------
(* What is above an item: the least set that has its parent and, with each *)
(* item, the parent of that.                                               *)

\* What is in s and what the items in s are in.
Rise(par, s) == s \cup {par[j] : j \in s \cap Item}

\* The sets that Above goes through, up to step m, when par says where the items are.
Climbs(par, i, m, up) ==
    up = [n \in 0 .. m |-> IF n = 0 THEN {par[i]} ELSE Rise(par, up[n - 1])]

Climb(par, i) == CHOOSE up : Climbs(par, i, Cardinality(Item), up)
Up(par, i) == Climb(par, i)[Cardinality(Item)]

\* With an item, s has its parent.
Closed(par, s) == \A j \in s \cap Item : par[j] \in s

LEMMA AboveIsUp == \A i : Above(i) = Up(parent, i)
BY DEF Above, Up, Climb, Climbs, Rise

LEMMA AboveIsUpPrimed == \A i : Above(i)' = Up(parent', i)
BY DEF Above, Up, Climb, Climbs, Rise

\* A set of numbers that is not empty has a first one.
LEMMA LeastNumber ==
  ASSUME NEW I \in SUBSET Nat, I # {}
  PROVE  \E x \in I : \A y \in I : x =< y
<1> DEFINE R == {ss \in Nat \X Nat : ss[1] < ss[2]}
<1>1. IsWellFoundedOn(R, Nat)
  BY NatLessThanWellFounded DEF OpToRel
<1>2. \E x \in I : \A y \in I : ~ (<<y, x>> \in R)
  <2> HIDE DEF R
  <2> QED
    BY <1>1, WFMin
<1>3. PICK x \in I : \A y \in I : ~ (<<y, x>> \in R)
  BY <1>2
<1>4. \A y \in I : ~ (y < x)
  BY <1>3
<1> QED
  BY <1>4

\* A set with 0 and the successor of each of its numbers has all numbers.
LEMMA EveryNumber ==
  ASSUME NEW P \in SUBSET Nat, 0 \in P, \A n \in P : n + 1 \in P
  PROVE  P = Nat
<1> DEFINE I == Nat \ P
<1> SUFFICES ASSUME I # {} PROVE FALSE
  OBVIOUS
<1>1. I \in SUBSET Nat
  OBVIOUS
<1>2. PICK x \in I : \A y \in I : x =< y
  <2> HIDE DEF I
  <2> QED
    BY <1>1, LeastNumber
<1>3. x \in Nat /\ x # 0
  BY <1>2
<1>4. x - 1 \in Nat /\ x - 1 + 1 = x
  BY <1>3
<1>5. x - 1 \in P
  BY <1>2, <1>4
<1> QED
  BY <1>2, <1>4, <1>5

LEMMA ClimbExists ==
  ASSUME NEW par, NEW i
  PROVE  \A m \in Nat : \E up : Climbs(par, i, m, up)
<1> DEFINE P == {m \in Nat : \E up : Climbs(par, i, m, up)}
<1>1. 0 \in P
  <2> DEFINE g == [n \in 0 .. 0 |-> {par[i]}]
  <2>1. Climbs(par, i, 0, g)
    BY DEF Climbs
  <2> QED
    BY <2>1
<1>2. ASSUME NEW m \in P PROVE m + 1 \in P
  <2>1. PICK g : Climbs(par, i, m, g)
    OBVIOUS
  <2> DEFINE v == Rise(par, g[m])
             h == [n \in 0 .. m + 1 |-> IF n =< m THEN g[n] ELSE v]
  <2>2. m \in Nat
    OBVIOUS
  <2>3. \A n \in 0 .. m : h[n] = g[n]
    BY <2>2
  <2>4. h[m + 1] = v
    BY <2>2
  <2>5. DOMAIN h = 0 .. m + 1 /\ h = [n \in 0 .. m + 1 |-> h[n]]
    BY <2>2
  <2> HIDE DEF h
  <2>6. \A n \in 0 .. m : g[n] = IF n = 0 THEN {par[i]} ELSE Rise(par, g[n - 1])
    BY <2>1 DEF Climbs
  <2>7. ASSUME NEW n \in 0 .. m + 1
        PROVE  h[n] = IF n = 0 THEN {par[i]} ELSE Rise(par, h[n - 1])
    <3>1. CASE n = 0
      BY <3>1, <2>2, <2>3, <2>6, 0 \in 0 .. m
    <3>2. CASE n # 0 /\ n =< m
      <4>1. n \in 0 .. m /\ n - 1 \in 0 .. m
        BY <3>2, <2>2
      <4>2. h[n] = g[n] /\ h[n - 1] = g[n - 1]
        BY <4>1, <2>3
      <4> QED
        BY <4>1, <4>2, <3>2, <2>6
    <3>3. CASE n = m + 1
      <4>1. n - 1 = m /\ n # 0 /\ m \in 0 .. m
        BY <3>3, <2>2
      <4>2. h[n - 1] = g[m]
        BY <4>1, <2>3
      <4> QED
        BY <4>1, <4>2, <3>3, <2>4
    <3> QED
      BY <3>1, <3>2, <3>3, <2>2
  <2>8. Climbs(par, i, m + 1, h)
    BY <2>5, <2>7 DEF Climbs
  <2> QED
    BY <2>8, <2>2
<1>3. P \in SUBSET Nat
  OBVIOUS
<1>4. P = Nat
  <2> HIDE DEF P
  <2> QED
    BY <1>1, <1>2, <1>3, EveryNumber
<1> QED
  BY <1>4

LEMMA ClimbSteps ==
  ASSUME NEW par, NEW i, NEW N, N = Cardinality(Item), NEW g, g = Climb(par, i)
  PROVE  /\ N \in Nat
         /\ g[0] = {par[i]}
         /\ \A n \in Nat : n + 1 =< N => g[n + 1] = Rise(par, g[n])
<1>1. N \in Nat
  BY FS_CardinalityType, TradeAssumption
<1>2. \E up : Climbs(par, i, N, up)
  BY <1>1, ClimbExists
<1>4. Climbs(par, i, N, g)
  BY <1>2 DEF Climb
<1>5. \A n \in 0 .. N : g[n] = IF n = 0 THEN {par[i]} ELSE Rise(par, g[n - 1])
  BY <1>4 DEF Climbs
<1>6. g[0] = {par[i]}
  BY <1>1, <1>5, 0 \in 0 .. N
<1>7. ASSUME NEW n \in Nat, n + 1 =< N
      PROVE  g[n + 1] = Rise(par, g[n])
  <2>1. n + 1 \in 0 .. N /\ n + 1 # 0 /\ n + 1 - 1 = n
    BY <1>1, <1>7
  <2> QED
    BY <2>1, <1>5
<1> QED
  BY <1>1, <1>6, <1>7

\* Every step of a climb finds a new item above, until it finds no more.
LEMMA ClimbCloses ==
  ASSUME NEW par, NEW i
  PROVE  Closed(par, Up(par, i))
<1>0. PICK N : N = Cardinality(Item)
  OBVIOUS
<1>1. PICK g : g = Climb(par, i)
  OBVIOUS
<1>2. /\ N \in Nat
      /\ g[0] = {par[i]}
      /\ \A n \in Nat : n + 1 =< N => g[n + 1] = Rise(par, g[n])
  BY ONLY <1>0, <1>1, ClimbSteps
<1> DEFINE On(n) == g[n] \cap Item
           P == {n \in Nat : n =< N => Closed(par, g[n]) \/ Cardinality(On(n)) >= n + 1}
<1>3. ASSUME NEW n \in Nat
      PROVE  IsFiniteSet(On(n)) /\ Cardinality(On(n)) \in Nat /\ Cardinality(On(n)) =< N
  <2>1. PICK T \in SUBSET Item : T = On(n)
    OBVIOUS
  <2>2. IsFiniteSet(Item)
    BY TradeAssumption
  <2>3. IsFiniteSet(T) /\ Cardinality(T) =< Cardinality(Item)
    BY ONLY <2>2, FS_Subset
  <2>4. Cardinality(T) \in Nat
    BY ONLY <2>3, FS_CardinalityType
  <2> HIDE DEF On
  <2> QED
    BY <2>1, <2>3, <2>4, <1>0
<1>4. 0 \in P
  <2>1. CASE par[i] \in Item
    <3>1. On(0) = {par[i]}
      BY <1>2, <2>1
    <3>2. Cardinality(On(0)) = 1
      BY <3>1, FS_Singleton
    <3> QED
      BY <3>2
  <2>2. CASE par[i] \notin Item
    BY <2>2, <1>2 DEF Closed
  <2> QED
    BY <2>1, <2>2
<1>5. ASSUME NEW n \in P PROVE n + 1 \in P
  <2> SUFFICES ASSUME n + 1 =< N
               PROVE  Closed(par, g[n + 1]) \/ Cardinality(On(n + 1)) >= n + 2
    OBVIOUS
  <2>1. n \in Nat /\ n =< N /\ n + 1 \in Nat
    BY <1>2
  <2>2. g[n + 1] = Rise(par, g[n])
    BY <1>2, <2>1
  <2>3. CASE Closed(par, g[n])
    <3>1. g[n + 1] = g[n]
      BY <2>2, <2>3 DEF Closed, Rise
    <3> QED
      BY <3>1, <2>3
  <2>4. CASE Cardinality(On(n)) >= n + 1 /\ On(n + 1) = On(n)
    BY <2>2, <2>4 DEF Closed, Rise
  <2>5. CASE Cardinality(On(n)) >= n + 1 /\ On(n + 1) # On(n)
    <3>1. On(n) \subseteq On(n + 1)
      BY <2>2 DEF Rise
    <3>2. PICK S, T : S = On(n) /\ T = On(n + 1)
      OBVIOUS
    <3>3. /\ IsFiniteSet(T) /\ Cardinality(T) \in Nat /\ Cardinality(S) \in Nat
          /\ S \in SUBSET T /\ S # T
      BY <3>1, <3>2, <2>1, <2>5, <1>3
    <3>4. Cardinality(S) < Cardinality(T)
      <4>1. Cardinality(S) =< Cardinality(T) /\ (Cardinality(S) = Cardinality(T) => S = T)
        BY ONLY <3>3, FS_Subset
      <4> QED
        BY <4>1, <3>3
    <3> QED
      BY <3>2, <3>3, <3>4, <2>1, <2>5
  <2> QED
    BY <2>1, <2>3, <2>4, <2>5
<1>6. N \in P
  <2>1. P \in SUBSET Nat
    OBVIOUS
  <2>2. P = Nat
    <3> HIDE DEF P
    <3> QED
      BY <2>1, <1>4, <1>5, EveryNumber
  <2> QED
    BY <2>2, <1>2
<1>7. Closed(par, g[N])
  <2>1. Cardinality(On(N)) \in Nat /\ Cardinality(On(N)) =< N
    BY <1>2, <1>3
  <2> HIDE DEF On
  <2> QED
    BY <2>1, <1>2, <1>6
<1> QED
  BY <1>0, <1>1, <1>7 DEF Up

\* What is above i is the least closed set with its parent.
LEMMA UpLeast ==
  ASSUME NEW par, NEW i
  PROVE  /\ par[i] \in Up(par, i)
         /\ \A j \in Up(par, i) \cap Item : par[j] \in Up(par, i)
         /\ \A X : par[i] \in X /\ (\A j \in X \cap Item : par[j] \in X) => Up(par, i) \subseteq X
<1>0. PICK N : N = Cardinality(Item)
  OBVIOUS
<1>1. PICK g : g = Climb(par, i)
  OBVIOUS
<1>2. /\ N \in Nat
      /\ g[0] = {par[i]}
      /\ \A n \in Nat : n + 1 =< N => g[n + 1] = Rise(par, g[n])
  BY ONLY <1>0, <1>1, ClimbSteps
<1>3. Up(par, i) = g[N]
  BY <1>0, <1>1 DEF Up
<1>4. par[i] \in g[N]
  <2> DEFINE P == {n \in Nat : n =< N => par[i] \in g[n]}
  <2>1. 0 \in P
    BY <1>2
  <2>2. ASSUME NEW n \in P PROVE n + 1 \in P
    BY <1>2 DEF Rise
  <2>3. P \in SUBSET Nat
    OBVIOUS
  <2>4. P = Nat
    <3> HIDE DEF P
    <3> QED
      BY <2>1, <2>2, <2>3, EveryNumber
  <2> QED
    BY <2>4, <1>2
<1>5. ASSUME NEW X, par[i] \in X, \A j \in X \cap Item : par[j] \in X
      PROVE  g[N] \subseteq X
  <2> DEFINE P == {n \in Nat : n =< N => g[n] \subseteq X}
  <2>1. 0 \in P
    BY <1>2, <1>5
  <2>2. ASSUME NEW n \in P PROVE n + 1 \in P
    <3> SUFFICES ASSUME n + 1 =< N PROVE g[n + 1] \subseteq X
      OBVIOUS
    <3>1. n \in Nat /\ n =< N /\ g[n] \subseteq X
      BY <1>2
    <3>2. g[n + 1] = Rise(par, g[n])
      BY <3>1, <1>2
    <3> QED
      BY <3>1, <3>2, <1>5 DEF Rise
  <2>3. P \in SUBSET Nat
    OBVIOUS
  <2>4. P = Nat
    <3> HIDE DEF P
    <3> QED
      BY <2>1, <2>2, <2>3, EveryNumber
  <2> QED
    BY <2>4, <1>2
<1>6. Closed(par, g[N])
  BY <1>3, ClimbCloses
<1> QED
  BY <1>3, <1>4, <1>5, <1>6 DEF Closed

-----------------------------------------------------------------------------
(* Every item is in one place: no container is inside itself.              *)

\* The items of i and in it.
Within(par, i) == {j \in Item : j = i \/ i \in Up(par, j)}

Parents == [Item -> Cylinder \cup {None}]

Root(par, i, r) == r \in Player \cup Cell /\ Up(par, i) \ Item = {r}

\* Going up from an item of the world ends at one player or tile.
Rooted(par) == \A i \in Item : par[i] # None => \E r : Root(par, i, r)

LEMMA UpOne ==
  ASSUME NEW par, NEW i
  PROVE  /\ par[i] \in Item => Up(par, i) = {par[i]} \cup Up(par, par[i])
         /\ par[i] \notin Item => Up(par, i) = {par[i]}
<1>1. ASSUME par[i] \in Item PROVE Up(par, i) = {par[i]} \cup Up(par, par[i])
  <2>1. PICK k : k = par[i]
    OBVIOUS
  <2>2. PICK X : X = {k} \cup Up(par, k)
    OBVIOUS
  <2>3. /\ par[k] \in Up(par, k)
        /\ \A j \in Up(par, k) \cap Item : par[j] \in Up(par, k)
        /\ \A Y : par[k] \in Y /\ (\A j \in Y \cap Item : par[j] \in Y) => Up(par, k) \subseteq Y
    BY ONLY UpLeast
  <2>4. /\ par[i] \in Up(par, i)
        /\ \A j \in Up(par, i) \cap Item : par[j] \in Up(par, i)
        /\ \A Y : par[i] \in Y /\ (\A j \in Y \cap Item : par[j] \in Y) => Up(par, i) \subseteq Y
    BY ONLY UpLeast
  <2>5. Up(par, i) \subseteq X
    BY <2>1, <2>2, <2>3, <2>4
  <2>6. Up(par, k) \subseteq Up(par, i)
    BY <1>1, <2>1, <2>3, <2>4
  <2> QED
    BY <2>1, <2>2, <2>4, <2>5, <2>6
<1>2. ASSUME par[i] \notin Item PROVE Up(par, i) = {par[i]}
  <2>1. PICK X : X = {par[i]}
    OBVIOUS
  <2>2. /\ par[i] \in Up(par, i)
        /\ \A Y : par[i] \in Y /\ (\A j \in Y \cap Item : par[j] \in Y) => Up(par, i) \subseteq Y
    BY ONLY UpLeast
  <2>3. par[i] \in X /\ \A j \in X \cap Item : par[j] \in X
    BY <2>1, <1>2
  <2>4. Up(par, i) \subseteq X
    BY <2>2, <2>3
  <2> QED
    BY <2>1, <2>2, <2>4
<1> QED
  BY <1>1, <1>2

LEMMA UpOfUp ==
  ASSUME NEW par, NEW i, NEW k \in Up(par, i) \cap Item
  PROVE  Up(par, k) \subseteq Up(par, i)
<1>1. /\ \A j \in Up(par, i) \cap Item : par[j] \in Up(par, i)
      /\ \A Y : par[k] \in Y /\ (\A j \in Y \cap Item : par[j] \in Y) => Up(par, k) \subseteq Y
  BY ONLY UpLeast
<1> QED
  BY <1>1

\* A destroyed item is in nothing, and nothing in the world is in one.
LEMMA RootOfUp ==
  ASSUME NEW par, Rooted(par), NEW i, NEW r, Root(par, i, r), NEW k \in Up(par, i) \cap Item
  PROVE  par[k] # None /\ Root(par, k, r)
<1>1. Up(par, k) \subseteq Up(par, i)
  BY UpOfUp
<1>2. par[k] \in Up(par, k)
  BY UpLeast
<1>3. par[k] # None
  BY <1>1, <1>2, TradeAssumption DEF Root
<1>4. PICK s : Root(par, k, s)
  BY <1>3 DEF Rooted
<1> QED
  BY <1>1, <1>3, <1>4 DEF Root

LEMMA NeverInItself ==
  ASSUME NEW par, Rooted(par), NEW i \in Item
  PROVE  i \notin Up(par, i)
<1> SUFFICES ASSUME i \in Up(par, i) PROVE FALSE
  OBVIOUS
<1>1. PICK X : X = {k \in Up(par, i) \cap Item : i \in Up(par, k)}
  OBVIOUS
<1>2. /\ par[i] \in Up(par, i)
      /\ \A j \in Up(par, i) \cap Item : par[j] \in Up(par, i)
      /\ \A Y : par[i] \in Y /\ (\A j \in Y \cap Item : par[j] \in Y) => Up(par, i) \subseteq Y
  BY ONLY UpLeast
<1>3. ASSUME NEW k \in Item, k \in Up(par, i), i \in Up(par, k)
      PROVE  par[k] \in X
  <2>1. /\ par[k] \in Item => Up(par, k) = {par[k]} \cup Up(par, par[k])
        /\ par[k] \notin Item => Up(par, k) = {par[k]}
    BY ONLY UpOne
  <2>2. par[k] \in Item
    BY <2>1, <1>3
  <2>3. i \in Up(par, par[k])
    BY <2>1, <2>2, <1>3
  <2> QED
    BY <2>2, <2>3, <1>1, <1>2, <1>3
<1>4. par[i] \in X
  BY <1>2, <1>3
<1>5. \A j \in X \cap Item : par[j] \in X
  BY <1>1, <1>3
<1>6. Up(par, i) \subseteq X
  BY <1>2, <1>4, <1>5
<1>7. par[i] # None
  BY <1>1, <1>4, TradeAssumption
<1> QED
  BY <1>1, <1>6, <1>7 DEF Rooted, Root

-----------------------------------------------------------------------------
(* A move takes i and what is in it to d, and nothing else.                *)

\* d and what it is in.
Onto(par, d) == {d} \cup {k \in Up(par, d) : d \in Item}

LEMMA OthersStay ==
  ASSUME NEW par, NEW to, NEW i \in Item,
         \A k \in Item : k # i => to[k] = par[k],
         NEW j \in Item, j \notin Within(par, i)
  PROVE  Up(to, j) = Up(par, j)
<1>1. j # i /\ i \notin Up(par, j)
  BY DEF Within
<1>2. /\ par[j] \in Up(par, j)
      /\ \A k \in Up(par, j) \cap Item : par[k] \in Up(par, j)
      /\ \A Y : par[j] \in Y /\ (\A k \in Y \cap Item : par[k] \in Y) => Up(par, j) \subseteq Y
  BY ONLY UpLeast
<1>3. /\ to[j] \in Up(to, j)
      /\ \A k \in Up(to, j) \cap Item : to[k] \in Up(to, j)
      /\ \A Y : to[j] \in Y /\ (\A k \in Y \cap Item : to[k] \in Y) => Up(to, j) \subseteq Y
  BY ONLY UpLeast
<1>4. to[j] = par[j]
  BY <1>1
<1>5. \A k \in Up(par, j) \cap Item : to[k] \in Up(par, j)
  BY <1>1, <1>2
<1>6. Up(to, j) \subseteq Up(par, j)
  BY <1>2, <1>3, <1>4, <1>5
<1>7. \A k \in Up(to, j) \cap Item : par[k] \in Up(to, j)
  BY <1>1, <1>3, <1>6
<1>8. Up(par, j) \subseteq Up(to, j)
  BY <1>2, <1>3, <1>4, <1>7
<1> QED
  BY <1>6, <1>8

\* With an item above something in i, or i, its parent is in i too, but for that of i.
LEMMA WithinUp ==
  ASSUME NEW par, NEW i \in Item, NEW j \in Within(par, i), j # i
  PROVE  par[j] \in Within(par, i)
<1>1. i \in Up(par, j)
  BY DEF Within
<1>2. /\ par[j] \in Item => Up(par, j) = {par[j]} \cup Up(par, par[j])
      /\ par[j] \notin Item => Up(par, j) = {par[j]}
  BY ONLY UpOne
<1>3. par[j] \in Item
  BY <1>1, <1>2
<1> QED
  BY <1>1, <1>2, <1>3 DEF Within

LEMMA InsideStay ==
  ASSUME NEW par, Rooted(par), NEW to, NEW d, NEW i \in Item,
         \A k \in Item : k # i => to[k] = par[k], to[i] = d,
         d \notin Within(par, i),
         NEW j \in Within(par, i)
  PROVE  Up(to, j) = (Up(par, j) \cap Within(par, i)) \cup Onto(par, d)
<1>1. PICK B : B = Within(par, i)
  OBVIOUS
<1>2. PICK X : X = (Up(par, j) \cap B) \cup Onto(par, d)
  OBVIOUS
<1>3. PICK D : D = Onto(par, d)
  OBVIOUS
<1>4. B \in SUBSET Item /\ i \in B /\ j \in B /\ d \notin B
  BY <1>1 DEF Within
<1>5. \A k \in B : k # i => to[k] = par[k] /\ par[k] \in B
  BY <1>1, <1>4, WithinUp
<1>6. /\ par[j] \in Up(par, j)
      /\ \A k \in Up(par, j) \cap Item : par[k] \in Up(par, j)
      /\ \A Y : par[j] \in Y /\ (\A k \in Y \cap Item : par[k] \in Y) => Up(par, j) \subseteq Y
  BY ONLY UpLeast
<1>7. /\ to[j] \in Up(to, j)
      /\ \A k \in Up(to, j) \cap Item : to[k] \in Up(to, j)
      /\ \A Y : to[j] \in Y /\ (\A k \in Y \cap Item : to[k] \in Y) => Up(to, j) \subseteq Y
  BY ONLY UpLeast
<1>8. d \in D /\ \A k \in D \cap Item : k # i /\ to[k] = par[k] /\ par[k] \in D
  <2>1. d \in D
    BY <1>3 DEF Onto
  <2>2. ASSUME NEW k \in D \cap Item PROVE k # i /\ par[k] \in D
    <3>1. d \in Item
      BY <1>3, <2>2 DEF Onto
    <3>2. D = {d} \cup Up(par, d) /\ d # i /\ i \notin Up(par, d)
      BY <3>1, <1>1, <1>3, <1>4 DEF Onto, Within
    <3>3. par[d] \in Up(par, d) /\ \A l \in Up(par, d) \cap Item : par[l] \in Up(par, d)
      BY UpLeast
    <3> QED
      BY <3>2, <3>3
  <2> QED
    BY <2>1, <2>2
<1>9. Up(to, j) \subseteq X
  <2>1. to[j] \in X
    BY <1>2, <1>3, <1>4, <1>5, <1>6, <1>8
  <2>2. ASSUME NEW k \in X \cap Item PROVE to[k] \in X
    BY <1>2, <1>3, <1>4, <1>5, <1>6, <1>8, <2>2
  <2> QED
    BY <1>7, <2>1, <2>2
<1>10. ASSUME NEW k \in Up(par, j), k \notin B PROVE k \in Item => par[k] \notin B
  <2> SUFFICES ASSUME k \in Item, par[k] \in B PROVE FALSE
    OBVIOUS
  <2>1. /\ par[k] \in Item => Up(par, k) = {par[k]} \cup Up(par, par[k])
        /\ par[k] \notin Item => Up(par, k) = {par[k]}
    BY ONLY UpOne
  <2>2. i \in Up(par, k)
    BY <2>1, <1>1 DEF Within
  <2> QED
    BY <2>2, <1>1, <1>10 DEF Within
<1>11. par[i] \notin B
  <2>1. i \notin Up(par, i)
    BY NeverInItself
  <2>2. /\ par[i] \in Item => Up(par, i) = {par[i]} \cup Up(par, par[i])
        /\ par[i] \notin Item => Up(par, i) = {par[i]}
    BY ONLY UpOne
  <2> QED
    BY <2>1, <2>2, <1>1 DEF Within
<1>12. Up(par, j) \cap B \subseteq Up(to, j)
  <2>1. PICK Y : Y = {k \in Up(par, j) : k \in B => k \in Up(to, j)}
    OBVIOUS
  <2>2. par[j] \in Y
    BY <2>1, <1>4, <1>5, <1>6, <1>7, <1>11
  <2>3. ASSUME NEW k \in Y \cap Item PROVE par[k] \in Y
    BY <2>1, <2>3, <1>4, <1>5, <1>6, <1>7, <1>10, <1>11
  <2>4. Up(par, j) \subseteq Y
    BY <2>2, <2>3, <1>6
  <2> QED
    BY <2>1, <2>4
<1>13. D \subseteq Up(to, j)
  <2>1. i = j \/ i \in Up(to, j)
    BY <1>1, <1>4, <1>12 DEF Within
  <2>2. d \in Up(to, j)
    BY <2>1, <1>4, <1>7
  <2>3. CASE d \in Item
    <3>1. Up(to, d) = Up(par, d)
      BY <2>3, OthersStay
    <3>2. Up(to, d) \subseteq Up(to, j)
      BY <2>2, <2>3, UpOfUp
    <3> QED
      BY <2>2, <3>1, <3>2, <1>3 DEF Onto
  <2>4. CASE d \notin Item
    BY <2>2, <2>4, <1>3 DEF Onto
  <2> QED
    BY <2>3, <2>4
<1> QED
  BY <1>1, <1>2, <1>3, <1>9, <1>12, <1>13

\* What something in i is in is in i, or above i.
LEMMA WithinAbove ==
  ASSUME NEW par, NEW i \in Item, NEW j \in Within(par, i)
  PROVE  Up(par, j) \subseteq Within(par, i) \cup Up(par, i)
<1>1. PICK X : X = Within(par, i) \cup Up(par, i)
  OBVIOUS
<1>2. \A Y : par[j] \in Y /\ (\A k \in Y \cap Item : par[k] \in Y) => Up(par, j) \subseteq Y
  BY ONLY UpLeast
<1>3. par[i] \in Up(par, i) /\ \A k \in Up(par, i) \cap Item : par[k] \in Up(par, i)
  BY UpLeast
<1>4. \A k \in Within(par, i) : k # i => par[k] \in Within(par, i)
  BY WithinUp
<1>5. par[j] \in X
  BY <1>1, <1>3, <1>4
<1>6. ASSUME NEW k \in X \cap Item PROVE par[k] \in X
  BY <1>1, <1>3, <1>4, <1>6
<1> QED
  BY <1>1, <1>2, <1>5, <1>6

\* An item that is not in i, nor around it, nor around its new place, keeps its own.
LEMMA ContentStays ==
  ASSUME NEW par, Rooted(par), NEW to, NEW d, NEW i \in Item,
         \A k \in Item : k # i => to[k] = par[k], to[i] = d,
         d \notin Within(par, i),
         NEW o \in Item, o \notin Within(par, i), o \notin Up(par, i), o \notin Onto(par, d)
  PROVE  to[o] = par[o] /\ Up(to, o) = Up(par, o) /\ Within(to, o) = Within(par, o)
<1>1. o # i
  BY DEF Within
<1>2. Up(to, o) = Up(par, o)
  BY OthersStay
<1>3. ASSUME NEW j \in Item PROVE o \in Up(to, j) <=> o \in Up(par, j)
  <2>1. CASE j \notin Within(par, i)
    <3>1. Up(to, j) = Up(par, j)
      BY <2>1, OthersStay
    <3> QED
      BY <3>1
  <2>2. CASE j \in Within(par, i)
    <3>1. Up(to, j) = (Up(par, j) \cap Within(par, i)) \cup Onto(par, d)
      BY <2>2, InsideStay
    <3>2. Up(par, j) \subseteq Within(par, i) \cup Up(par, i)
      BY <2>2, WithinAbove
    <3> QED
      BY <3>1, <3>2
  <2> QED
    BY <2>1, <2>2
<1>4. Within(to, o) = Within(par, o)
  BY <1>3 DEF Within
<1> QED
  BY <1>1, <1>2, <1>4

\* After the move everything has one place again; what is in i ends where d does.
LEMMA RootedMove ==
  ASSUME NEW par, Rooted(par), NEW to, NEW d \in Cylinder, NEW i \in Item,
         \A k \in Item : k # i => to[k] = par[k], to[i] = d,
         d \notin Within(par, i), d \in Item => par[d] # None
  PROVE  /\ Rooted(to)
         /\ \E r : /\ Root(to, i, r) /\ (IF d \in Item THEN Root(par, d, r) ELSE r = d)
                   /\ \A j \in Within(par, i) : Root(to, j, r)
<1>1. PICK r : r \in Player \cup Cell /\ Onto(par, d) \ Item = {r} /\ (IF d \in Item THEN Root(par, d, r) ELSE r = d)
  <2>1. CASE d \in Item
    <3>1. PICK r : Root(par, d, r)
      BY <2>1 DEF Rooted
    <3> QED
      BY <2>1, <3>1 DEF Root, Onto
  <2>2. CASE d \notin Item
    BY <2>2, TradeAssumption DEF Onto, Cylinder
  <2> QED
    BY <2>1, <2>2
<1>2. ASSUME NEW j \in Within(par, i) PROVE Root(to, j, r)
  <2>1. Up(to, j) = (Up(par, j) \cap Within(par, i)) \cup Onto(par, d)
    BY InsideStay
  <2>2. Within(par, i) \subseteq Item
    BY DEF Within
  <2> QED
    BY <2>1, <2>2, <1>1 DEF Root
<1>3. i \in Within(par, i)
  BY DEF Within
<1>4. Rooted(to)
  <2> SUFFICES ASSUME NEW j \in Item, to[j] # None PROVE \E s : Root(to, j, s)
    BY DEF Rooted
  <2>1. CASE j \in Within(par, i)
    BY <2>1, <1>2
  <2>2. CASE j \notin Within(par, i)
    <3>1. Up(to, j) = Up(par, j)
      BY <2>2, OthersStay
    <3>2. par[j] # None
      BY <2>2, <1>3
    <3> QED
      BY <3>1, <3>2 DEF Rooted, Root
  <2> QED
    BY <2>1, <2>2
<1> QED
  BY <1>1, <1>2, <1>3, <1>4

-----------------------------------------------------------------------------
(* Places and the notifications.                                           *)

PlaceAt(up, at) ==
    IF up \cap Cell # {} THEN CHOOSE c \in Cell : c \in up
    ELSE at[CHOOSE p \in Player : p \in up]

LEMMA PlaceIs == \A i : Place(i) = PlaceAt(Up(parent, i), pos)
<1> SUFFICES ASSUME NEW i PROVE Place(i) = PlaceAt(Up(parent, i), pos)
  OBVIOUS
<1>1. Place(i) = PlaceAt(Above(i), pos)
  BY DEF Place, PlaceAt
<1>2. Above(i) = Up(parent, i)
  BY AboveIsUp
<1> QED
  BY <1>1, <1>2

LEMMA PlaceIsPrimed == \A i : Place(i)' = PlaceAt(Up(parent', i), pos')
<1> SUFFICES ASSUME NEW i PROVE Place(i)' = PlaceAt(Up(parent', i), pos')
  OBVIOUS
<1>1. Place(i)' = PlaceAt(Above(i)', pos')
  BY DEF Place, PlaceAt
<1>2. Above(i)' = Up(parent', i)
  BY AboveIsUpPrimed
<1> QED
  BY <1>1, <1>2

\* An item is where its root is.
LEMMA PlaceOfRoot ==
  ASSUME NEW par, NEW at, NEW i, NEW r, Root(par, i, r)
  PROVE  PlaceAt(Up(par, i), at) = IF r \in Cell THEN r ELSE at[r]
<1>1. Up(par, i) \cap (Player \cup Cell) = {r} /\ r \in Player \cup Cell
  BY TradeAssumption DEF Root
<1>2. CASE r \in Cell
  <2>1. \A c \in Cell : c \in Up(par, i) <=> c = r
    BY <1>1, <1>2
  <2> QED
    BY <2>1, <1>2 DEF PlaceAt
<1>3. CASE r \notin Cell
  <2>1. Up(par, i) \cap Cell = {}
    BY <1>1, <1>3
  <2>2. \A p \in Player : p \in Up(par, i) <=> p = r
    BY <1>1, <1>3
  <2> QED
    BY <2>1, <2>2, <1>1, <1>3 DEF PlaceAt
<1> QED
  BY <1>2, <1>3

LEMMA ReachesIs ==
  \A p, i : Reaches(p, i) <=> /\ parent[i] # None
                              /\ Up(parent, i) \cap Player \subseteq {p}
                              /\ InRange(PlaceAt(Up(parent, i), pos), pos[p], 1)
BY AboveIsUp, PlaceIs DEF Reaches, InWorld

LEMMA ReachesIsPrimed ==
  \A p, i : Reaches(p, i)' <=> /\ parent'[i] # None
                               /\ Up(parent', i) \cap Player \subseteq {p}
                               /\ InRange(PlaceAt(Up(parent', i), pos'), pos'[p], 1)
BY AboveIsUpPrimed, PlaceIsPrimed DEF Reaches, InWorld, InRange

LEMMA HoldsIs == \A c, i : Holds(c, i) <=> c \in Item /\ i \in Item /\ c \in Up(parent, i)
BY AboveIsUp DEF Holds

LEMMA HoldsIsPrimed == \A c, i : Holds(c, i)' <=> c \in Item /\ i \in Item /\ c \in Up(parent', i)
BY AboveIsUpPrimed DEF Holds

LEMMA ContentsIs == \A i \in Item : Contents(i) = Within(parent, i)
BY HoldsIs DEF Contents, Within

LEMMA ContentsIsPrimed == \A i \in Item : Contents(i)' = Within(parent', i)
BY HoldsIsPrimed DEF Contents, Within

\* What p reaches is where p's notifications come from.
LEMMA ReachedRoot ==
  ASSUME TypeOK, Rooted(parent), NEW p \in Player, NEW o \in Item, Reaches(p, o)
  PROVE  \E r : /\ Root(parent, o, r) /\ r \in Cell \cup {p}
                /\ \A i \in Item : Root(parent, i, r) =>
                     /\ Place(i) = Place(o) /\ InRange(pos[p], Place(i), 2)
                     /\ Reaches(p, i) \/ parent[i] = None
<1>1. /\ parent[o] # None
      /\ Up(parent, o) \cap Player \subseteq {p}
      /\ InRange(PlaceAt(Up(parent, o), pos), pos[p], 1)
  BY ReachesIs
<1>2. PICK r : Root(parent, o, r)
  BY <1>1 DEF Rooted
<1>3. r \in Cell \cup {p}
  BY <1>1, <1>2 DEF Root
<1>4. PICK at : at = IF r \in Cell THEN r ELSE pos[r]
  OBVIOUS
<1>5. at \in Int /\ pos[p] \in Int
  BY <1>3, <1>4, TradeAssumption DEF TypeOK
<1>6. PlaceAt(Up(parent, o), pos) = at
  BY <1>2, <1>4, PlaceOfRoot
<1>7. InRange(at, pos[p], 1)
  BY <1>1, <1>6
<1>8. InRange(pos[p], at, 2)
  BY <1>5, <1>7 DEF InRange
<1>9. ASSUME NEW i \in Item, Root(parent, i, r)
      PROVE  /\ Place(i) = Place(o) /\ InRange(pos[p], Place(i), 2)
             /\ Reaches(p, i) \/ parent[i] = None
  <2>1. PlaceAt(Up(parent, i), pos) = at
    BY <1>4, <1>9, PlaceOfRoot
  <2>2. Place(i) = at /\ Place(o) = at
    BY <2>1, <1>6, PlaceIs
  <2>3. Up(parent, i) \cap Player \subseteq {p}
    BY <1>3, <1>9, TradeAssumption DEF Root
  <2>4. Reaches(p, i) \/ parent[i] = None
    BY <2>1, <2>3, <1>7, ReachesIs
  <2> QED
    BY <2>2, <2>4, <1>8
<1> QED
  BY <1>2, <1>3, <1>9

\* Where an item is that is in something is a player, a tile or a container.
LEMMA ParentKind ==
  ASSUME TypeOK, NEW i \in Item, parent[i] # None
  PROVE  /\ parent[i] \in Player \cup Cell \cup Container
         /\ parent[i] \in Item <=> parent[i] \in Container
         /\ parent[i] \notin Item => Up(parent, i) = {parent[i]}
<1>1. parent[i] \in Player \cup Cell \cup Container
  BY DEF TypeOK, Cylinder
<1>2. parent[i] \in Item <=> parent[i] \in Container
  BY <1>1, TradeAssumption
<1>3. parent[i] \notin Item => Up(parent, i) = {parent[i]}
  BY ONLY UpOne
<1> QED
  BY <1>1, <1>2, <1>3

\* An offer that is moved, in what is moved, or around it is closed.
LEMMA LeaveNotices ==
  ASSUME TypeOK, Rooted(parent), NEW p \in online, NEW o \in Item, tradeItem[p] = o, Reaches(p, o),
         NEW i \in Item, parent[i] # None, p \notin LeaveCloses(i)
  PROVE  o \notin Within(parent, i) /\ o \notin Up(parent, i)
<1>0. p \in Player /\ o # None
  BY TradeAssumption DEF TypeOK
<1>1. PICK r : /\ Root(parent, o, r) /\ r \in Cell \cup {p}
               /\ \A k \in Item : Root(parent, k, r) =>
                    /\ Place(k) = Place(o) /\ InRange(pos[p], Place(k), 2)
                    /\ Reaches(p, k) \/ parent[k] = None
  BY <1>0, ReachedRoot
<1>2. ASSUME Root(parent, i, r) PROVE Told(p, i)
  <2>1. /\ parent[i] \in Player \cup Cell \cup Container
        /\ parent[i] \in Item <=> parent[i] \in Container
        /\ parent[i] \notin Item => Up(parent, i) = {parent[i]}
    BY ONLY ParentKind, TypeOK, i \in Item, parent[i] # None
  <2>2. CASE parent[i] \in Container
    BY <2>2, <1>1, <1>2 DEF Told
  <2>3. CASE parent[i] \notin Container
    <3>1. parent[i] = r
      BY <2>1, <2>3, <1>2 DEF Root
    <3> QED
      BY <3>1, <1>1 DEF Told
  <2> QED
    BY <2>2, <2>3
<1>3. ~ (Told(p, i) /\ (IsOffered(p, i) \/ Holds(i, o)))
  BY <1>0 DEF LeaveCloses
<1>4. o # i
  BY <1>1, <1>2, <1>3 DEF IsOffered
<1>5. i \notin Up(parent, o)
  <2> SUFFICES ASSUME i \in Up(parent, o) PROVE FALSE
    OBVIOUS
  <2>1. Root(parent, i, r)
    BY <1>1, RootOfUp
  <2>2. Holds(i, o)
    BY HoldsIs
  <2> QED
    BY <2>1, <2>2, <1>2, <1>3
<1>6. o \notin Up(parent, i)
  <2> SUFFICES ASSUME o \in Up(parent, i) PROVE FALSE
    OBVIOUS
  <2>1. PICK s : Root(parent, i, s)
    BY DEF Rooted
  <2>2. Root(parent, o, s)
    BY <2>1, RootOfUp
  <2>3. r = s
    BY <2>2, <1>1 DEF Root
  <2>4. Holds(o, i)
    BY HoldsIs
  <2> QED
    BY <2>1, <2>3, <2>4, <1>2, <1>3 DEF IsOffered
<1> QED
  BY <1>4, <1>5, <1>6 DEF Within

\* An offer that something is put into is closed.
LEMMA EnterNotices ==
  ASSUME TypeOK, Rooted(parent), NEW p \in online, NEW o \in Item, tradeItem[p] = o, Reaches(p, o),
         NEW d \in Cylinder, d \in Item => parent[d] # None, p \notin EnterCloses(d)
  PROVE  o \notin Onto(parent, d)
<1>0. p \in Player
  BY DEF TypeOK
<1> SUFFICES ASSUME o \in Onto(parent, d) PROVE FALSE
  OBVIOUS
<1>1. d \in Container /\ d \in Item
  BY TradeAssumption DEF Onto, Cylinder
<1>2. o = d \/ o \in Up(parent, d)
  BY <1>1 DEF Onto
<1>3. PICK r : /\ Root(parent, o, r) /\ r \in Cell \cup {p}
               /\ \A k \in Item : Root(parent, k, r) =>
                    /\ Place(k) = Place(o) /\ InRange(pos[p], Place(k), 2)
                    /\ Reaches(p, k) \/ parent[k] = None
  BY <1>0, ReachedRoot
<1>4. PICK s : Root(parent, d, s)
  BY <1>1 DEF Rooted
<1>5. Root(parent, o, s)
  BY <1>2, <1>4, RootOfUp
<1>6. r = s
  BY <1>3, <1>5 DEF Root
<1>7. InRange(pos[p], Place(d), 2)
  BY <1>1, <1>3, <1>4, <1>6
<1>8. IsOffered(p, d)
  BY <1>1, <1>2, HoldsIs DEF IsOffered
<1> QED
  BY <1>1, <1>7, <1>8 DEF EnterCloses

-----------------------------------------------------------------------------
(* The invariant, and what closing trades keeps of it.                     *)

\* The book of offers.
Book ==
    /\ \A o \in Offer, p \in Player : tradeItems[o] = p <=> tradeItem[p] = o
    /\ transferItem = {tradeItem[p] : p \in Player} \cap House

Apart == \A p, q \in Player : ~Holds(tradeItem[p], tradeItem[q])

\* With OffersHold, everything is in one place, nothing on offer was made into
\* something else, and only an item has a content to show.
TradeInv ==
    /\ TypeOK
    /\ Rooted(parent)
    /\ PartnersAgree
    /\ Book
    /\ Apart
    /\ OfferAtHand
    /\ OfferAsShown
    /\ LettersOwn
    /\ altered = {}
    /\ \A p \in Player : tradeItem[p] \notin Item => shown[p] = {}

LEMMA InvHolds == TradeInv => TypeOK /\ OffersHold
BY DEF TradeInv, Book, Apart, OffersHold, TradesAgree, OffersExact, OffersStand

\* A trade ends on both sides.
LEMMA EndedBoth ==
  ASSUME TypeOK, PartnersAgree, NEW S \in SUBSET Player
  PROVE  /\ Ended(S) \in SUBSET Player /\ S \subseteq Ended(S)
         /\ \A p \in Player \ Ended(S) : tradePartner[p] \notin Ended(S)
<1>1. \A p \in Player : /\ tradePartner[p] \in Player \cup {None}
                        /\ tradePartner[p] # None => tradePartner[tradePartner[p]] = p
  BY DEF TypeOK, PartnersAgree
<1> QED
  BY <1>1, TradeAssumption DEF Ended

\* Who keeps a trade keeps the offer; the others have neither.
LEMMA ClosedSides ==
  ASSUME TypeOK, NEW E \in SUBSET Player, EndTrades(E)
  PROVE  /\ tradeState' \in [Player -> TradeState]
         /\ tradePartner' \in [Player -> Player \cup {None}]
         /\ tradeItem' \in [Player -> Offer \cup {None}]
         /\ tradeItems' \in [Offer -> Player \cup {None}]
         /\ shown' \in [Player -> SUBSET Item]
         /\ writer' \in [Item -> Player \cup {None}]
         /\ \A i \in Item : writer'[i] \in {None, writer[i]}
         /\ \A p \in E : /\ tradeState'[p] = "none" /\ tradePartner'[p] = None
                         /\ tradeItem'[p] = None /\ shown'[p] = {}
         /\ \A p \in Player \ E : /\ tradeState'[p] = tradeState[p]
                                  /\ tradePartner'[p] = tradePartner[p]
                                  /\ tradeItem'[p] = tradeItem[p] /\ shown'[p] = shown[p]
         /\ \A o \in Offer : tradeItems'[o] = IF \E p \in E : tradeItem[p] = o THEN None ELSE tradeItems[o]
<1>1. "none" \in TradeState
  BY DEF TradeState
<1>2. /\ tradeState' \in [Player -> TradeState]
      /\ tradePartner' \in [Player -> Player \cup {None}]
      /\ tradeItem' \in [Player -> Offer \cup {None}]
  BY <1>1 DEF EndTrades, TypeOK
<1>3. /\ tradeItems' \in [Offer -> Player \cup {None}]
      /\ shown' \in [Player -> SUBSET Item]
  BY DEF EndTrades, TypeOK
<1>4. \A p \in E : /\ tradeState'[p] = "none" /\ tradePartner'[p] = None
                   /\ tradeItem'[p] = None /\ shown'[p] = {}
  BY DEF EndTrades
<1>5. \A p \in Player \ E : /\ tradeState'[p] = tradeState[p]
                            /\ tradePartner'[p] = tradePartner[p]
                            /\ tradeItem'[p] = tradeItem[p] /\ shown'[p] = shown[p]
  BY DEF EndTrades
<1>6. \A o \in Offer : tradeItems'[o] = IF \E p \in E : tradeItem[p] = o THEN None ELSE tradeItems[o]
  BY DEF EndTrades
<1>7. /\ writer' \in [Item -> Player \cup {None}]
      /\ \A i \in Item : writer'[i] \in {None, writer[i]}
  BY DEF EndTrades, TypeOK
<1> QED
  BY <1>2, <1>3, <1>4, <1>5, <1>6, <1>7

LEMMA ClosedBooks ==
  ASSUME TypeOK, PartnersAgree, Book, NEW S \in SUBSET Player, CloseTrades(S),
         \A p \in Player \ Ended(S) : tradePartner[p] # None => p \in online'
  PROVE  PartnersAgree' /\ Book'
<1>1. PICK E \in SUBSET Player : /\ E = Ended(S)
                                 /\ \A p \in Player \ E : tradePartner[p] \notin E
  BY EndedBoth
<1>2. EndTrades(E) /\ transferItem' = transferItem \ {tradeItem[p] : p \in E}
  BY <1>1 DEF CloseTrades
<1>3. /\ \A p \in E : /\ tradeState'[p] = "none" /\ tradePartner'[p] = None
                      /\ tradeItem'[p] = None /\ shown'[p] = {}
      /\ \A p \in Player \ E : /\ tradeState'[p] = tradeState[p]
                               /\ tradePartner'[p] = tradePartner[p]
                               /\ tradeItem'[p] = tradeItem[p] /\ shown'[p] = shown[p]
      /\ \A o \in Offer : tradeItems'[o] = IF \E p \in E : tradeItem[p] = o THEN None ELSE tradeItems[o]
  BY <1>2, ClosedSides
<1>4. PartnersAgree'
  <2> SUFFICES ASSUME NEW p \in Player, NEW q, q = tradePartner'[p]
               PROVE  /\ q = None <=> tradeState'[p] = "none"
                      /\ q = None => tradeItem'[p] = None
                      /\ q # None => /\ p \in online' /\ q \in online' \ {p}
                                     /\ tradePartner'[q] = p
                                     /\ tradeItem'[p] # None \/ tradeItem'[q] # None
                                     /\ ~(tradeState'[p] = "accept" /\ tradeState'[q] = "accept")
                      /\ tradeState'[p] = "initiated" => tradeItem'[p] # None
                      /\ tradeState'[p] = "acknowledge" => tradeItem'[p] = None
    BY DEF PartnersAgree
  <2>1. CASE p \in E
    BY <2>1, <1>3
  <2>2. CASE p \notin E
    <3>1. /\ tradeState'[p] = tradeState[p] /\ q = tradePartner[p]
          /\ tradeItem'[p] = tradeItem[p]
      BY <2>2, <1>3
    <3>2. /\ q = None <=> tradeState[p] = "none"
          /\ q = None => tradeItem[p] = None
          /\ q # None => /\ p \in online /\ q \in online \ {p}
                         /\ tradePartner[q] = p
                         /\ tradeItem[p] # None \/ tradeItem[q] # None
                         /\ ~(tradeState[p] = "accept" /\ tradeState[q] = "accept")
          /\ tradeState[p] = "initiated" => tradeItem[p] # None
          /\ tradeState[p] = "acknowledge" => tradeItem[p] = None
      BY <3>1 DEF PartnersAgree
    <3>3. ASSUME q # None
          PROVE  /\ q \in Player \ E /\ tradePartner[q] = p
                 /\ tradeState'[q] = tradeState[q] /\ tradePartner'[q] = tradePartner[q]
                 /\ tradeItem'[q] = tradeItem[q]
      <4>1. q \in Player \ E
        BY <3>1, <3>2, <3>3, <2>2, <1>1 DEF TypeOK
      <4> QED
        BY <4>1, <3>2, <3>3, <1>3
    <3>4. q # None => p \in online' /\ q \in online'
      BY <3>1, <3>3, <2>2, <1>1, TradeAssumption
    <3> QED
      BY <3>1, <3>2, <3>3, <3>4
  <2> QED
    BY <2>1, <2>2
<1>5. Book'
  <2>1. ASSUME NEW o \in Offer, NEW p \in Player
        PROVE  tradeItems'[o] = p <=> tradeItem'[p] = o
    <3>1. o # None /\ p # None
      BY TradeAssumption DEF Offer
    <3>2. \A q \in Player : tradeItems[o] = q <=> tradeItem[q] = o
      BY DEF Book
    <3> QED
      BY <3>1, <3>2, <1>3
  <2>2. transferItem' = {tradeItem'[p] : p \in Player} \cap House
    <3>1. ASSUME NEW h \in House
          PROVE  (h \in transferItem /\ ~ \E p \in E : tradeItem[p] = h)
                   <=> \E p \in Player : tradeItem'[p] = h
      <4>1. h # None /\ h \in Offer
        BY TradeAssumption DEF Offer
      <4>2. \A p \in Player : tradeItems[h] = p <=> tradeItem[p] = h
        BY <4>1 DEF Book
      <4>3. h \in transferItem <=> \E p \in Player : tradeItem[p] = h
        BY DEF Book
      <4> QED
        BY <4>1, <4>2, <4>3, <1>3
    <3>2. transferItem \subseteq House
      BY DEF TypeOK
    <3> QED
      BY <3>1, <3>2, <1>2
  <2> QED
    BY <2>1, <2>2 DEF Book
<1> QED
  BY <1>4, <1>5

\* Whose trade goes on has the same offer, in the same place and with the same content.
LEMMA ClosedKeeps ==
  ASSUME TradeInv, NEW S \in SUBSET Player, CloseTrades(S),
         online' \in SUBSET Player, pos' \in [Player -> Cell], parent' \in Parents,
         houseOwner' \in [House -> Player \cup {None}], crashed' \in BOOLEAN,
         Rooted(parent'), altered' = {},
         \A p \in Player \ Ended(S) : tradePartner[p] # None =>
             p \in online' /\ InRange(pos'[p], pos'[tradePartner[p]], 2),
         \A p \in Player \ Ended(S) : \A o \in Item : tradeItem[p] = o =>
             /\ Reaches(p, o)'
             /\ Up(parent', o) = Up(parent, o)
             /\ Within(parent', o) = Within(parent, o)
  PROVE  TradeInv'
<1>0. /\ TypeOK /\ Rooted(parent) /\ PartnersAgree /\ Book /\ Apart /\ OfferAtHand /\ OfferAsShown
      /\ \A p \in Player : tradeItem[p] \notin Item => shown[p] = {}
  BY DEF TradeInv
<1>1. PICK E \in SUBSET Player : E = Ended(S)
  BY <1>0, EndedBoth
<1>2. EndTrades(E) /\ transferItem' = transferItem \ {tradeItem[p] : p \in E}
  BY <1>1 DEF CloseTrades
<1>3. /\ tradeState' \in [Player -> TradeState]
      /\ tradePartner' \in [Player -> Player \cup {None}]
      /\ tradeItem' \in [Player -> Offer \cup {None}]
      /\ tradeItems' \in [Offer -> Player \cup {None}]
      /\ shown' \in [Player -> SUBSET Item]
      /\ writer' \in [Item -> Player \cup {None}]
      /\ \A i \in Item : writer'[i] \in {None, writer[i]}
      /\ \A p \in E : /\ tradeState'[p] = "none" /\ tradePartner'[p] = None
                      /\ tradeItem'[p] = None /\ shown'[p] = {}
      /\ \A p \in Player \ E : /\ tradeState'[p] = tradeState[p]
                               /\ tradePartner'[p] = tradePartner[p]
                               /\ tradeItem'[p] = tradeItem[p] /\ shown'[p] = shown[p]
  BY <1>0, <1>2, ClosedSides
<1>4. PartnersAgree' /\ Book'
  BY <1>0, ClosedBooks
<1>5. TypeOK'
  <2>1. transferItem' \subseteq House
    BY <1>0, <1>2 DEF TypeOK
  <2> QED
    BY <2>1, <1>3 DEF TypeOK, Parents
<1>6. \A p \in Player : tradeItem'[p] \in Item => p \notin E /\ tradeItem'[p] = tradeItem[p] /\ shown'[p] = shown[p]
  BY <1>3, TradeAssumption
<1>7. Apart'
  <2> SUFFICES ASSUME NEW p \in Player, NEW q \in Player, Holds(tradeItem[p], tradeItem[q])'
               PROVE  FALSE
    BY DEF Apart, Holds
  <2>1. tradeItem'[p] \in Item /\ tradeItem'[q] \in Item /\ tradeItem'[p] \in Up(parent', tradeItem'[q])
    BY AboveIsUpPrimed DEF Holds
  <2>2. tradeItem[p] \in Item /\ tradeItem[q] \in Item /\ tradeItem[p] \in Up(parent, tradeItem[q])
    BY <2>1, <1>1, <1>6
  <2>3. Holds(tradeItem[p], tradeItem[q])
    BY <2>2, HoldsIs
  <2> QED
    BY <2>3, <1>0 DEF Apart
<1>8. OfferAtHand'
  <2>1. \A p \in Player : \A o \in Item : tradeItem'[p] = o => Reaches(p, o)'
    BY <1>1, <1>6
  <2>2. \A p \in Player : (tradeItem[p] \in Item => Reaches(p, tradeItem[p]))'
    <3> SUFFICES ASSUME NEW p \in Player, NEW o \in Item, o = tradeItem'[p]
                 PROVE  Reaches(p, tradeItem[p])'
      OBVIOUS
    <3>1. Reaches(p, o)'
      BY <2>1
    <3>2. /\ parent'[o] # None
          /\ Up(parent', o) \cap Player \subseteq {p}
          /\ InRange(PlaceAt(Up(parent', o), pos'), pos'[p], 1)
      BY <3>1, ReachesIsPrimed
    <3>3. /\ parent'[tradeItem'[p]] # None
          /\ Above(tradeItem[p])' \cap Player \subseteq {p}
          /\ InRange(Place(tradeItem[p])', pos'[p], 1)
      BY <3>2, AboveIsUpPrimed, PlaceIsPrimed
    <3> QED
      BY <3>3 DEF Reaches, InWorld, InRange
  <2>3. \A p \in Player : tradePartner'[p] # None => InRange(pos'[p], pos'[tradePartner'[p]], 2)
    BY <1>1, <1>3
  <2> QED
    BY <2>2, <2>3 DEF OfferAtHand, InRange
<1>9. OfferAsShown'
  <2> SUFFICES ASSUME NEW p \in Player, NEW o \in Item, o = tradeItem'[p]
               PROVE  Contents(o)' = shown'[p]
    BY DEF OfferAsShown
  <2>1. o = tradeItem[p] /\ p \notin E /\ shown'[p] = shown[p]
    BY <1>6
  <2>2. Contents(o) = shown[p]
    BY <2>1, <1>0 DEF OfferAsShown
  <2>3. Contents(o)' = Within(parent', o) /\ Contents(o) = Within(parent, o)
    BY ContentsIs, ContentsIsPrimed
  <2> QED
    BY <2>1, <2>2, <2>3, <1>1
<1>10. \A p \in Player : tradeItem'[p] \notin Item => shown'[p] = {}
  BY <1>0, <1>3
<1>11. LettersOwn'
  <2> SUFFICES ASSUME NEW p \in Player, NEW o \in Item, o = tradeItem'[p], p \in Up(parent', o),
                      NEW i \in shown'[p]
               PROVE  writer'[i] \in {None, p}
    BY AboveIsUpPrimed DEF LettersOwn
  <2>1. o = tradeItem[p] /\ p \notin E /\ i \in shown[p] /\ i \in Item
    BY <1>0, <1>6 DEF TypeOK
  <2>2. p \in Above(o)
    BY <2>1, <1>1, AboveIsUp
  <2>3. writer[i] \in {None, p}
    BY <2>1, <2>2 DEF TradeInv, LettersOwn
  <2> QED
    BY <2>1, <2>3, <1>3
<1> QED
  BY <1>4, <1>5, <1>7, <1>8, <1>9, <1>10, <1>11 DEF TradeInv

-----------------------------------------------------------------------------
(* Every step keeps the invariant.                                         *)

LEMMA InvInit == Init => TradeInv
<1> SUFFICES ASSUME Init PROVE TradeInv
  OBVIOUS
<1>1. TypeOK
  BY TradeAssumption DEF Init, TypeOK, TradeState, Cylinder, Offer
<1>2. \A i \in Item : Up(parent, i) = {parent[i]} /\ parent[i] \in Cell
  <2>1. \A i \in Item : parent[i] \in Cell /\ parent[i] \notin Item
    BY TradeAssumption DEF Init
  <2> QED
    BY <2>1, UpOne
<1>3. Rooted(parent)
  <2>1. \A i \in Item : Root(parent, i, parent[i])
    BY <1>2, TradeAssumption DEF Root
  <2> QED
    BY <2>1 DEF Rooted
<1>4. \A p \in Player : tradeItem[p] = None /\ tradePartner[p] = None /\ tradeState[p] = "none" /\ shown[p] = {}
  BY DEF Init
<1>5. PartnersAgree
  BY <1>4 DEF PartnersAgree
<1>6. Book
  BY <1>4, TradeAssumption DEF Book, Init, Offer
<1>7. Apart /\ OfferAtHand /\ OfferAsShown /\ LettersOwn
  BY <1>4, TradeAssumption DEF Apart, Holds, OfferAtHand, OfferAsShown, LettersOwn
<1> QED
  BY <1>1, <1>3, <1>4, <1>5, <1>6, <1>7 DEF TradeInv, Init

\* Who offers something is in the game, with a partner.
LEMMA OffererPlays ==
  ASSUME TypeOK, PartnersAgree, NEW p \in Player, tradeItem[p] # None
  PROVE  p \in online /\ tradePartner[p] \in Player /\ tradePartner[p] # p
BY DEF PartnersAgree, TypeOK

\* Where nothing moves, offers stay.
LEMMA StaysStill ==
  ASSUME TradeInv, parent' = parent, pos' = pos, NEW p \in Player, NEW o \in Item, tradeItem[p] = o
  PROVE  /\ Reaches(p, o)'
         /\ Up(parent', o) = Up(parent, o)
         /\ Within(parent', o) = Within(parent, o)
<1>1. Reaches(p, o)
  BY DEF TradeInv, OfferAtHand
<1>2. /\ parent[o] # None
      /\ Up(parent, o) \cap Player \subseteq {p}
      /\ InRange(PlaceAt(Up(parent, o), pos), pos[p], 1)
  BY <1>1, ReachesIs
<1>3. Reaches(p, o)'
  BY <1>2, ReachesIsPrimed
<1> QED
  BY <1>3

LEMMA StillCloses ==
  ASSUME TradeInv, NEW S \in SUBSET Player, CloseTrades(S), UNCHANGED worldVars,
         houseOwner' = houseOwner, crashed' = crashed, altered' = {}
  PROVE  TradeInv'
<1>1. /\ TypeOK /\ Rooted(parent) /\ PartnersAgree /\ OfferAtHand
  BY DEF TradeInv
<1>2. /\ online' \in SUBSET Player /\ pos' \in [Player -> Cell] /\ parent' \in Parents
      /\ houseOwner' \in [House -> Player \cup {None}] /\ crashed' \in BOOLEAN
  BY <1>1 DEF TypeOK, worldVars, Parents
<1>3. parent' = parent /\ pos' = pos /\ online' = online
  BY DEF worldVars
<1>4. Rooted(parent')
  BY <1>1, <1>3
<1>5. \A p \in Player \ Ended(S) : tradePartner[p] # None =>
             p \in online' /\ InRange(pos'[p], pos'[tradePartner[p]], 2)
  BY <1>1, <1>3 DEF PartnersAgree, OfferAtHand
<1>6. \A p \in Player \ Ended(S) : \A o \in Item : tradeItem[p] = o =>
             /\ Reaches(p, o)'
             /\ Up(parent', o) = Up(parent, o)
             /\ Within(parent', o) = Within(parent, o)
  BY <1>3, StaysStill
<1> QED
  BY ONLY <1>2, <1>4, <1>5, <1>6, ClosedKeeps, TradeInv, S \in SUBSET Player, CloseTrades(S), altered' = {}

LEMMA WalkKeeps ==
  ASSUME TradeInv, NEW p \in Player, NEW c \in Cell, Walk(p, c)
  PROVE  TradeInv'
<1>0. /\ TypeOK /\ Rooted(parent) /\ PartnersAgree /\ OfferAtHand /\ altered = {}
  BY DEF TradeInv
<1> DEFINE o == tradeItem[p]
           q == tradePartner[p]
           here == IF o \in Item /\ p \notin Above(o) THEN Place(o) ELSE c
           far == \/ o # None /\ ~InRange(here, c, 1)
                  \/ q # None /\ ~InRange(pos[q], c, 2)
<1>1. PICK S \in SUBSET Player : S = IF far THEN {p} ELSE {}
  OBVIOUS
<1>2. /\ pos' = [pos EXCEPT ![p] = c] /\ CloseTrades(S)
      /\ online' = online /\ parent' = parent /\ houseOwner' = houseOwner
      /\ altered' = altered /\ crashed' = crashed
  BY <1>1 DEF Walk
<1>3. PICK E \in SUBSET Player : /\ E = Ended(S) /\ S \subseteq E
                                 /\ \A r \in Player \ E : tradePartner[r] \notin E
  BY <1>0, EndedBoth
<1>4. /\ online' \in SUBSET Player /\ pos' \in [Player -> Cell] /\ parent' \in Parents
      /\ houseOwner' \in [House -> Player \cup {None}] /\ crashed' \in BOOLEAN
  BY <1>0, <1>2 DEF TypeOK, Parents
<1>5. Rooted(parent') /\ altered' = {}
  BY <1>0, <1>2
<1>6. p \notin E => ~far
  BY <1>1, <1>3
<1>7. ASSUME NEW r \in Player \ E, tradePartner[r] # None
      PROVE  r \in online' /\ InRange(pos'[r], pos'[tradePartner[r]], 2)
  <2>1. PICK s \in Player : /\ s = tradePartner[r] /\ s # r /\ tradePartner[s] = r
                            /\ InRange(pos[r], pos[s], 2) /\ r \in online
    BY <1>0, <1>7 DEF PartnersAgree, OfferAtHand, TypeOK
  <2>2. pos[r] \in Int /\ pos[s] \in Int /\ c \in Int
    BY <1>0, TradeAssumption DEF TypeOK
  <2>3. CASE r = p
    <3>1. InRange(pos[s], c, 2)
      BY <2>1, <2>3, <1>6, <1>7
    <3>2. pos'[r] = c /\ pos'[s] = pos[s]
      BY <2>1, <2>3, <1>0, <1>2 DEF TypeOK
    <3> QED
      BY <3>1, <3>2, <2>1, <2>2, <1>2 DEF InRange
  <2>4. CASE s = p
    <3>1. p \notin E
      BY <2>1, <2>4, <1>3
    <3>2. InRange(pos[r], c, 2)
      BY <3>1, <2>1, <2>4, <1>6, TradeAssumption
    <3>3. pos'[s] = c /\ pos'[r] = pos[r]
      BY <2>1, <2>4, <1>0, <1>2 DEF TypeOK
    <3> QED
      BY <3>2, <3>3, <2>1, <1>2
  <2>5. CASE r # p /\ s # p
    BY <2>1, <2>5, <1>0, <1>2 DEF TypeOK
  <2> QED
    BY <2>3, <2>4, <2>5
<1>8. ASSUME NEW r \in Player \ E, NEW k \in Item, tradeItem[r] = k
      PROVE  Reaches(r, k)'
  <2>1. /\ parent[k] # None
        /\ Up(parent, k) \cap Player \subseteq {r}
        /\ InRange(PlaceAt(Up(parent, k), pos), pos[r], 1)
    BY <1>0, <1>8, ReachesIs DEF OfferAtHand
  <2>2. PICK s : Root(parent, k, s)
    BY <2>1, <1>0 DEF Rooted
  <2>3. s \in Cell \cup {r}
    BY <2>1, <2>2 DEF Root
  <2>4. /\ PlaceAt(Up(parent, k), pos) = IF s \in Cell THEN s ELSE pos[s]
        /\ PlaceAt(Up(parent, k), pos') = IF s \in Cell THEN s ELSE pos'[s]
    BY <2>2, PlaceOfRoot
  <2>5. InRange(PlaceAt(Up(parent, k), pos'), pos'[r], 1)
    <3>1. CASE r # p
      <4>1. pos'[r] = pos[r]
        BY <3>1, <1>0, <1>2 DEF TypeOK
      <4> QED
        BY <4>1, <2>1, <2>3, <2>4
    <3>2. CASE r = p
      <4>1. pos'[r] = c /\ c \in Int
        BY <3>2, <1>0, <1>2, TradeAssumption DEF TypeOK
      <4>2. k = o /\ o # None /\ InRange(here, c, 1)
        BY <3>2, <1>6, <1>8, TradeAssumption
      <4>3. CASE s = r
        <5>1. s \notin Cell
          BY <4>3, TradeAssumption
        <5> QED
          BY <5>1, <4>1, <4>3, <2>4 DEF InRange
      <4>4. CASE s # r
        <5>1. s \in Cell /\ p \notin Up(parent, k)
          BY <4>4, <3>2, <2>2, <2>3, TradeAssumption DEF Root
        <5>2. here = s
          BY <5>1, <4>2, <2>4, AboveIsUp, PlaceIs
        <5> QED
          BY <5>1, <5>2, <4>1, <4>2, <2>4
      <4> QED
        BY <4>3, <4>4
    <3> QED
      BY <3>1, <3>2
  <2> QED
    BY <2>1, <2>5, <1>2, ReachesIsPrimed
<1>9. \A r \in Player \ Ended(S) : tradePartner[r] # None =>
             r \in online' /\ InRange(pos'[r], pos'[tradePartner[r]], 2)
  BY <1>3, <1>7
<1>10. \A r \in Player \ Ended(S) : \A k \in Item : tradeItem[r] = k =>
             /\ Reaches(r, k)'
             /\ Up(parent', k) = Up(parent, k)
             /\ Within(parent', k) = Within(parent, k)
  BY <1>2, <1>3, <1>8
<1> QED
  BY ONLY <1>2, <1>4, <1>5, <1>9, <1>10, ClosedKeeps, TradeInv

LEMMA LogoutKeeps ==
  ASSUME TradeInv, NEW p \in Player, Logout(p)
  PROVE  TradeInv'
<1>0. /\ TypeOK /\ Rooted(parent) /\ PartnersAgree /\ OfferAtHand /\ altered = {}
  BY DEF TradeInv
<1>1. PICK S \in SUBSET Player : S = IF tradePartner[p] # None THEN {p} ELSE {}
  OBVIOUS
<1>2. /\ CloseTrades(S) /\ online' = online \ {p}
      /\ parent' = parent /\ pos' = pos /\ houseOwner' = houseOwner
      /\ altered' = altered /\ crashed' = crashed
  BY <1>1 DEF Logout
<1>3. /\ online' \in SUBSET Player /\ pos' \in [Player -> Cell] /\ parent' \in Parents
      /\ houseOwner' \in [House -> Player \cup {None}] /\ crashed' \in BOOLEAN
      /\ Rooted(parent') /\ altered' = {}
  BY <1>0, <1>2 DEF TypeOK, Parents
<1>4. \A r \in Player \ Ended(S) : tradePartner[r] # None =>
             r \in online' /\ InRange(pos'[r], pos'[tradePartner[r]], 2)
  BY <1>0, <1>1, <1>2, EndedBoth DEF PartnersAgree, OfferAtHand
<1>5. \A r \in Player \ Ended(S) : \A k \in Item : tradeItem[r] = k =>
             /\ Reaches(r, k)'
             /\ Up(parent', k) = Up(parent, k)
             /\ Within(parent', k) = Within(parent, k)
  BY <1>2, StaysStill
<1> QED
  BY ONLY <1>2, <1>3, <1>4, <1>5, ClosedKeeps, TradeInv

\* Where no trade changes, nor what it is about, nor who plays, the invariant stays.
LEMMA OtherKeeps ==
  ASSUME TradeInv, UNCHANGED <<pos, parent, bookVars, transferItem, altered>>,
         writer' \in [Item -> Player \cup {None}],
         \A p \in Player : \A o \in Item : tradeItem[p] = o /\ p \in Up(parent, o) =>
             \A i \in shown[p] : writer'[i] \in {None, p},
         online \subseteq online', online' \subseteq Player,
         houseOwner' \in [House -> Player \cup {None}], crashed' \in BOOLEAN
  PROVE  TradeInv'
<1>0. TypeOK /\ Rooted(parent) /\ PartnersAgree /\ Book /\ Apart /\ OfferAtHand /\ OfferAsShown
  BY DEF TradeInv
<1>1. /\ pos' = pos /\ parent' = parent /\ tradeState' = tradeState /\ tradePartner' = tradePartner
      /\ tradeItem' = tradeItem /\ tradeItems' = tradeItems /\ shown' = shown
      /\ transferItem' = transferItem /\ altered' = altered
  BY DEF bookVars
<1>2. TypeOK'
  BY <1>0, <1>1 DEF TypeOK
<1>3. PartnersAgree' /\ Book' /\ Rooted(parent')
  BY <1>0, <1>1 DEF PartnersAgree, Book
<1>4. Apart'
  <2>1. \A p, q \in Player : ~ (/\ tradeItem[p] \in Item /\ tradeItem[q] \in Item
                               /\ tradeItem[p] \in Up(parent, tradeItem[q]))
    BY <1>0, HoldsIs DEF Apart
  <2>2. \A p, q \in Player : ~ (/\ tradeItem'[p] \in Item /\ tradeItem'[q] \in Item
                               /\ tradeItem'[p] \in Up(parent', tradeItem'[q]))
    BY <2>1, <1>1
  <2>3. \A p, q \in Player : ~ (/\ tradeItem'[p] \in Item /\ tradeItem'[q] \in Item
                               /\ tradeItem'[p] \in Above(tradeItem[q])')
    BY <2>2, AboveIsUpPrimed
  <2> QED
    BY <2>3 DEF Apart, Holds
<1>5. OfferAtHand'
  <2>2. \A p \in Player : tradeItem'[p] \in Item => Reaches(p, tradeItem[p])'
    <3> SUFFICES ASSUME NEW p \in Player, NEW o, o = tradeItem'[p], o \in Item
                 PROVE  Reaches(p, tradeItem[p])'
      OBVIOUS
    <3>1. Reaches(p, o)
      BY <1>0, <1>1 DEF OfferAtHand
    <3>2. Reaches(p, tradeItem[p])
      BY <3>1, <1>1
    <3>3. /\ parent[tradeItem[p]] # None
          /\ Up(parent, tradeItem[p]) \cap Player \subseteq {p}
          /\ InRange(PlaceAt(Up(parent, tradeItem[p]), pos), pos[p], 1)
      BY <3>2, ReachesIs
    <3>4. /\ parent'[tradeItem'[p]] # None
          /\ Above(tradeItem[p])' \cap Player \subseteq {p}
          /\ InRange(Place(tradeItem[p])', pos'[p], 1)
      BY <3>3, <1>1, AboveIsUpPrimed, PlaceIsPrimed
    <3> QED
      BY <3>4 DEF Reaches, InWorld, InRange
  <2>3. \A p \in Player : tradePartner'[p] # None => InRange(pos'[p], pos'[tradePartner'[p]], 2)
    BY <1>0, <1>1 DEF OfferAtHand
  <2> QED
    BY <2>2, <2>3 DEF OfferAtHand, InRange
<1>6. OfferAsShown'
  <2> SUFFICES ASSUME NEW p \in Player, NEW o \in Item, o = tradeItem'[p]
               PROVE  Contents(o)' = shown'[p] /\ altered' \cap shown'[p] = {}
    BY DEF OfferAsShown
  <2>1. Contents(o) = shown[p] /\ altered \cap shown[p] = {}
    BY <1>0, <1>1 DEF OfferAsShown
  <2>2. Contents(o)' = Within(parent', o) /\ Contents(o) = Within(parent, o)
    BY ContentsIs, ContentsIsPrimed
  <2> QED
    BY <2>1, <2>2, <1>1
<1>7. (\A p \in Player : tradeItem[p] \notin Item => shown[p] = {})' /\ altered' = {}
  BY <1>1 DEF TradeInv
<1>8. LettersOwn'
  BY <1>1, AboveIsUpPrimed DEF LettersOwn
<1> QED
  BY <1>2, <1>3, <1>4, <1>5, <1>6, <1>7, <1>8 DEF TradeInv

\* The same where nothing is written either.
LEMMA LettersAsBefore ==
  ASSUME TradeInv, UNCHANGED <<pos, parent, tradeVars, transferItem, altered>>,
         online \subseteq online', online' \subseteq Player,
         houseOwner' \in [House -> Player \cup {None}], crashed' \in BOOLEAN
  PROVE  TradeInv'
<1>1. UNCHANGED <<pos, parent, bookVars, transferItem, altered>> /\ writer' = writer
  BY DEF tradeVars
<1>2. writer' \in [Item -> Player \cup {None}]
  BY <1>1 DEF TradeInv, TypeOK
<1>3. \A p \in Player : \A o \in Item : tradeItem[p] = o /\ p \in Up(parent, o) =>
             \A i \in shown[p] : writer'[i] \in {None, p}
  BY <1>1, AboveIsUp DEF TradeInv, LettersOwn
<1> QED
  BY <1>1, <1>2, <1>3, OtherKeeps

\* Who writes on what another one carries does not reach it.
LEMMA WriteItemKeeps ==
  ASSUME TradeInv, NEW p \in Player, NEW i \in Item, WriteItem(p, i)
  PROVE  TradeInv'
<1>0. /\ TypeOK /\ OfferAsShown /\ LettersOwn
  BY DEF TradeInv
<1>1. /\ UNCHANGED <<pos, parent, bookVars, transferItem, altered>>
      /\ online' = online /\ houseOwner' = houseOwner /\ crashed' = crashed
      /\ writer' = [writer EXCEPT ![i] = IF \E q \in Player : i \in shown[q] THEN p ELSE @]
      /\ Reaches(p, i)
  BY DEF WriteItem, worldVars, houseVars
<1>2. /\ online \subseteq online' /\ online' \subseteq Player
      /\ houseOwner' \in [House -> Player \cup {None}] /\ crashed' \in BOOLEAN
      /\ writer' \in [Item -> Player \cup {None}]
  BY <1>0, <1>1 DEF TypeOK
<1>3. ASSUME NEW q \in Player, NEW o \in Item, tradeItem[q] = o, q \in Up(parent, o), NEW j \in shown[q]
      PROVE  writer'[j] \in {None, q}
  <2>1. writer[j] \in {None, q} /\ j \in Item
    BY <1>0, <1>3, AboveIsUp DEF LettersOwn, TypeOK
  <2>2. CASE j # i
    BY <2>1, <2>2, <1>0, <1>1 DEF TypeOK
  <2>3. CASE j = i
    <3>1. i \in Within(parent, o)
      BY <2>3, <1>0, <1>3, ContentsIs DEF OfferAsShown
    <3>2. q \in Up(parent, i)
      BY ONLY <3>1, <1>3, UpOfUp, i \in Item, o \in Item DEF Within
    <3>3. q = p
      BY <3>2, <1>1, ReachesIs
    <3> QED
      BY <2>3, <3>3, <1>0, <1>1 DEF TypeOK
  <2> QED
    BY <2>2, <2>3
<1>4. \A q \in Player : \A o \in Item : tradeItem[q] = o /\ q \in Up(parent, o) =>
             \A j \in shown[q] : writer'[j] \in {None, q}
  BY <1>3
<1> QED
  BY ONLY <1>1, <1>2, <1>4, OtherKeeps, TradeInv

\* An offer that is not told of a move stays.
LEMMA OfferStays ==
  ASSUME TradeInv, NEW i \in Item, parent[i] # None, NEW d, d \notin Within(parent, i),
         parent' = [parent EXCEPT ![i] = d], pos' = pos,
         NEW p \in Player, p \notin LeaveCloses(i),
         NEW o \in Item, tradeItem[p] = o, o \notin Onto(parent, d)
  PROVE  /\ Reaches(p, o)'
         /\ Up(parent', o) = Up(parent, o)
         /\ Within(parent', o) = Within(parent, o)
<1>1. TypeOK /\ Rooted(parent) /\ PartnersAgree /\ OfferAtHand
  BY DEF TradeInv
<1>2. p \in online /\ Reaches(p, o)
  BY <1>1, TradeAssumption, OffererPlays DEF OfferAtHand
<1>3. o \notin Within(parent, i) /\ o \notin Up(parent, i)
  BY ONLY <1>1, <1>2, LeaveNotices, o \in Item, tradeItem[p] = o, i \in Item, parent[i] # None, p \notin LeaveCloses(i)
<1>4. (\A k \in Item : k # i => parent'[k] = parent[k]) /\ parent'[i] = d
  BY <1>1 DEF TypeOK
<1>5. parent'[o] = parent[o] /\ Up(parent', o) = Up(parent, o) /\ Within(parent', o) = Within(parent, o)
  <2>1. PICK to : to = parent'
    OBVIOUS
  <2>2. PICK par : par = parent
    OBVIOUS
  <2>3. /\ Rooted(par) /\ (\A k \in Item : k # i => to[k] = par[k]) /\ to[i] = d
        /\ d \notin Within(par, i) /\ o \notin Within(par, i) /\ o \notin Up(par, i) /\ o \notin Onto(par, d)
    BY <2>1, <2>2, <1>1, <1>3, <1>4
  <2>4. to[o] = par[o] /\ Up(to, o) = Up(par, o) /\ Within(to, o) = Within(par, o)
    BY ONLY <2>3, ContentStays, i \in Item, o \in Item
  <2> QED
    BY <2>1, <2>2, <2>4
<1>6. Reaches(p, o)'
  BY <1>2, <1>5, ReachesIs, ReachesIsPrimed
<1> QED
  BY <1>5, <1>6

LEMMA PartnersStay ==
  ASSUME TradeInv, online' = online, pos' = pos
  PROVE  \A p \in Player : tradePartner[p] # None =>
             p \in online' /\ InRange(pos'[p], pos'[tradePartner[p]], 2)
BY DEF TradeInv, PartnersAgree, OfferAtHand

LEMMA MoveItemKeeps ==
  ASSUME TradeInv, NEW p \in Player, NEW i \in Item, NEW d \in Cylinder, MoveItem(p, i, d)
  PROVE  TradeInv'
<1>0. /\ TypeOK /\ Rooted(parent) /\ PartnersAgree /\ OfferAtHand /\ altered = {}
  BY DEF TradeInv
<1>1. PICK S \in SUBSET Player : S = LeaveCloses(i) \cup EnterCloses(d)
  BY <1>0 DEF LeaveCloses, EnterCloses, TypeOK
<1>2. /\ CloseTrades(S) /\ parent' = [parent EXCEPT ![i] = d]
      /\ online' = online /\ pos' = pos /\ houseOwner' = houseOwner
      /\ altered' = altered /\ crashed' = crashed
      /\ Reaches(p, i)
  BY <1>1 DEF MoveItem
<1>3. /\ \/ d \in Player \cup Cell
         \/ d \in Container /\ Reaches(p, d) /\ d # i /\ ~Holds(i, d)
      /\ parent[i] # None
  BY DEF MoveItem, Reaches, InWorld
<1>4. d \in Item => parent[d] # None /\ d \in Container /\ d # i /\ ~Holds(i, d)
  BY <1>3, TradeAssumption DEF Reaches, InWorld
<1>5. d \notin Within(parent, i)
  BY <1>4, HoldsIs DEF Within
<1>6. (\A k \in Item : k # i => parent'[k] = parent[k]) /\ parent'[i] = d
  BY <1>0, <1>2 DEF TypeOK
<1>7. Rooted(parent')
  <2>1. PICK to : to = parent'
    OBVIOUS
  <2>2. PICK par : par = parent
    OBVIOUS
  <2>3. /\ Rooted(par) /\ (\A k \in Item : k # i => to[k] = par[k]) /\ to[i] = d
        /\ d \notin Within(par, i) /\ (d \in Item => par[d] # None)
    BY <2>1, <2>2, <1>0, <1>4, <1>5, <1>6
  <2>4. Rooted(to)
    BY ONLY <2>3, RootedMove, i \in Item, d \in Cylinder
  <2> QED
    BY <2>1, <2>4
<1>8. /\ online' \in SUBSET Player /\ pos' \in [Player -> Cell] /\ parent' \in Parents
      /\ houseOwner' \in [House -> Player \cup {None}] /\ crashed' \in BOOLEAN /\ altered' = {}
  BY <1>0, <1>2 DEF TypeOK, Parents
<1>9. \A r \in Player \ Ended(S) : tradePartner[r] # None =>
             r \in online' /\ InRange(pos'[r], pos'[tradePartner[r]], 2)
  BY <1>2, PartnersStay
<1>10. ASSUME NEW r \in Player \ Ended(S), NEW k \in Item, tradeItem[r] = k
      PROVE  /\ Reaches(r, k)'
             /\ Up(parent', k) = Up(parent, k)
             /\ Within(parent', k) = Within(parent, k)
  <2>1. r \notin LeaveCloses(i) /\ r \notin EnterCloses(d)
    BY <1>0, <1>1, EndedBoth
  <2>2. r \in online /\ Reaches(r, k)
    BY <1>0, <1>10, TradeAssumption, OffererPlays DEF OfferAtHand
  <2>3. k \notin Onto(parent, d)
    BY <2>1, <2>2, <1>0, <1>4, <1>10, EnterNotices
  <2> QED
    BY <2>1, <2>3, <1>2, <1>3, <1>5, <1>10, OfferStays
<1>11. \A r \in Player \ Ended(S) : \A k \in Item : tradeItem[r] = k =>
             /\ Reaches(r, k)'
             /\ Up(parent', k) = Up(parent, k)
             /\ Within(parent', k) = Within(parent, k)
  BY <1>10
<1> QED
  BY ONLY <1>2, <1>7, <1>8, <1>9, <1>11, ClosedKeeps, TradeInv

\* What nothing is in is above nothing.
LEMMA EmptyHolds ==
  ASSUME NEW par, NEW i \in Item, \A j \in Item : par[j] # i
  PROVE  Within(par, i) = {i}
<1>1. ASSUME NEW j \in Item PROVE i \notin Up(par, j)
  <2>1. PICK X : X = {par[k] : k \in Item}
    OBVIOUS
  <2>2. \A Y : par[j] \in Y /\ (\A k \in Y \cap Item : par[k] \in Y) => Up(par, j) \subseteq Y
    BY ONLY UpLeast
  <2>3. par[j] \in X /\ \A k \in X \cap Item : par[k] \in X
    BY <2>1
  <2>4. Up(par, j) \subseteq X
    BY <2>2, <2>3
  <2> QED
    BY <2>1, <2>4
<1> QED
  BY <1>1 DEF Within

LEMMA RemoveItemKeeps ==
  ASSUME TradeInv, NEW i \in Item, RemoveItem(i)
  PROVE  TradeInv'
<1>0. /\ TypeOK /\ Rooted(parent) /\ PartnersAgree /\ OfferAtHand /\ altered = {}
  BY DEF TradeInv
<1>1. PICK S \in SUBSET Player : S = LeaveCloses(i)
  BY DEF LeaveCloses
<1>2. /\ CloseTrades(S) /\ parent' = [parent EXCEPT ![i] = None]
      /\ online' = online /\ pos' = pos /\ houseOwner' = houseOwner
      /\ altered' = altered /\ crashed' = crashed
      /\ parent[i] # None /\ \A j \in Item : parent[j] # i
  BY <1>1 DEF RemoveItem, InWorld
<1>3. Within(parent, i) = {i}
  BY <1>2, EmptyHolds
<1>4. None \notin Within(parent, i) /\ None \notin Item
  BY <1>3, TradeAssumption
<1>5. (\A k \in Item : k # i => parent'[k] = parent[k]) /\ parent'[i] = None
  BY <1>0, <1>2 DEF TypeOK
<1>6. Rooted(parent')
  <2> SUFFICES ASSUME NEW j \in Item, parent'[j] # None PROVE \E s : Root(parent', j, s)
    BY DEF Rooted
  <2>1. j # i /\ j \notin Within(parent, i) /\ parent[j] # None
    BY <1>3, <1>5
  <2>2. Up(parent', j) = Up(parent, j)
    <3>1. PICK to : to = parent'
      OBVIOUS
    <3>2. \A k \in Item : k # i => to[k] = parent[k]
      BY <3>1, <1>5
    <3>3. Up(to, j) = Up(parent, j)
      BY ONLY <3>2, <2>1, OthersStay, i \in Item, j \in Item
    <3> QED
      BY <3>1, <3>3
  <2> QED
    BY <2>1, <2>2, <1>0 DEF Rooted, Root
<1>7. /\ online' \in SUBSET Player /\ pos' \in [Player -> Cell] /\ parent' \in Parents
      /\ houseOwner' \in [House -> Player \cup {None}] /\ crashed' \in BOOLEAN /\ altered' = {}
  BY <1>0, <1>2 DEF TypeOK, Parents
<1>8. \A r \in Player \ Ended(S) : tradePartner[r] # None =>
             r \in online' /\ InRange(pos'[r], pos'[tradePartner[r]], 2)
  BY <1>2, PartnersStay
<1>9. ASSUME NEW r \in Player \ Ended(S), NEW k \in Item, tradeItem[r] = k
      PROVE  /\ Reaches(r, k)'
             /\ Up(parent', k) = Up(parent, k)
             /\ Within(parent', k) = Within(parent, k)
  <2>1. r \notin LeaveCloses(i)
    BY <1>0, <1>1, EndedBoth
  <2>2. k \notin Onto(parent, None)
    BY <1>4 DEF Onto
  <2> QED
    BY <2>1, <2>2, <1>2, <1>4, <1>9, OfferStays
<1>10. \A r \in Player \ Ended(S) : \A k \in Item : tradeItem[r] = k =>
             /\ Reaches(r, k)'
             /\ Up(parent', k) = Up(parent, k)
             /\ Within(parent', k) = Within(parent, k)
  BY <1>9
<1> QED
  BY ONLY <1>2, <1>6, <1>7, <1>8, <1>10, ClosedKeeps, TradeInv

\* What is in an offer is not made into something else without the offer being closed.
LEMMA TransformItemKeeps ==
  ASSUME TradeInv, NEW i \in Item, TransformItem(i)
  PROVE  TradeInv'
<1>0. /\ TypeOK /\ Rooted(parent) /\ PartnersAgree /\ OfferAtHand /\ OfferAsShown /\ altered = {}
      /\ \A p \in Player : tradeItem[p] \notin Item => shown[p] = {}
  BY DEF TradeInv
<1>1. PICK S \in SUBSET Player : S = UpdateCloses(i)
  BY DEF UpdateCloses
<1>2. /\ CloseTrades(S) /\ parent[i] # None
      /\ altered' = {j \in altered \cup {i} : \E p \in Player : j \in shown'[p]}
      /\ UNCHANGED worldVars /\ houseOwner' = houseOwner /\ crashed' = crashed
  BY <1>1 DEF TransformItem, InWorld
<1>3. PICK E \in SUBSET Player : E = Ended(S) /\ S \subseteq E
  BY <1>0, EndedBoth
<1>4. /\ \A p \in E : shown'[p] = {}
      /\ \A p \in Player \ E : shown'[p] = shown[p]
  BY <1>0, <1>2, <1>3, ClosedSides DEF CloseTrades
<1>5. ASSUME NEW p \in Player \ E, i \in shown[p] PROVE FALSE
  <2>1. PICK o \in Item : o = tradeItem[p]
    BY <1>0, <1>5
  <2>2. i \in Within(parent, o) /\ Reaches(p, o)
    BY <2>1, <1>0, <1>5, ContentsIs DEF OfferAsShown, OfferAtHand
  <2>3. PICK r : /\ Root(parent, o, r) /\ r \in Cell \cup {p}
                 /\ \A k \in Item : Root(parent, k, r) =>
                      /\ Place(k) = Place(o) /\ InRange(pos[p], Place(k), 2)
                      /\ Reaches(p, k) \/ parent[k] = None
    BY <2>2, <1>0, ReachedRoot
  <2>4. PICK s : Root(parent, i, s)
    BY <1>0, <1>2 DEF Rooted
  <2>5. Root(parent, o, s)
    BY <2>2, <2>3, <2>4, <1>0, RootOfUp DEF Within
  <2>6. r = s
    BY <2>3, <2>5 DEF Root
  <2>7. /\ parent[i] \in Player \cup Cell \cup Container
        /\ parent[i] \in Item <=> parent[i] \in Container
        /\ parent[i] \notin Item => Up(parent, i) = {parent[i]}
    BY ONLY ParentKind, <1>0, i \in Item, <1>2
  <2>8. p \in online
    BY <2>1, <1>0, TradeAssumption, OffererPlays
  <2>9. IsOffered(p, i)
    BY <2>1, <2>2, HoldsIs DEF IsOffered, Within
  <2>10. CASE parent[i] \in Item
    <3>1. Told(p, i)
      BY <2>3, <2>4, <2>6, <2>7, <2>8, <2>10 DEF Told
    <3>2. parent[i] \notin Cell
      BY <2>10, TradeAssumption
    <3> QED
      BY <3>1, <3>2, <2>9, <1>1, <1>3, <1>5 DEF UpdateCloses
  <2>11. CASE parent[i] \notin Item
    <3>1. parent[i] = r
      BY <2>4, <2>6, <2>7, <2>11 DEF Root
    <3>2. Told(p, i)
      BY <3>1, <2>3, <2>8 DEF Told
    <3>3. o = i
      BY <2>2, <2>7, <2>11 DEF Within
    <3> QED
      BY <3>2, <3>3, <2>1, <2>9, <1>1, <1>3, <1>5 DEF UpdateCloses
  <2> QED
    BY <2>10, <2>11
<1>6. altered' = {}
  BY <1>0, <1>2, <1>4, <1>5
<1> QED
  BY ONLY <1>2, <1>6, StillCloses, TradeInv

\* Whatever happens to the books, the offers of who has the same one stay.
LEMMA OffersAsBefore ==
  ASSUME TradeInv, UNCHANGED worldVars, altered' = {},
         tradeItem' \in [Player -> Offer \cup {None}], shown' \in [Player -> SUBSET Item],
         \A p, q \in Player : ~ (/\ tradeItem'[p] \in Item /\ tradeItem'[q] \in Item
                                 /\ tradeItem'[p] \in Up(parent, tradeItem'[q])),
         \A p \in Player : tradeItem'[p] \in Item =>
             Reaches(p, tradeItem'[p]) /\ shown'[p] = Within(parent, tradeItem'[p]),
         \A p \in Player : tradePartner'[p] # None => InRange(pos[p], pos[tradePartner'[p]], 2)
  PROVE  Rooted(parent') /\ Apart' /\ OfferAtHand' /\ OfferAsShown'
<1>1. parent' = parent /\ pos' = pos /\ online' = online
  BY DEF worldVars
<1>2. Rooted(parent')
  BY <1>1 DEF TradeInv
<1>3. Apart'
  <2>1. \A p, q \in Player : ~ (/\ tradeItem'[p] \in Item /\ tradeItem'[q] \in Item
                               /\ tradeItem'[p] \in Above(tradeItem[q])')
    BY <1>1, AboveIsUpPrimed
  <2> QED
    BY <2>1 DEF Apart, Holds
<1>4. OfferAtHand'
  <2>1. \A p \in Player : tradeItem'[p] \in Item => Reaches(p, tradeItem[p])'
    <3> SUFFICES ASSUME NEW p \in Player, NEW o, o = tradeItem'[p], o \in Item
                 PROVE  Reaches(p, tradeItem[p])'
      OBVIOUS
    <3>1. /\ parent[o] # None
          /\ Up(parent, o) \cap Player \subseteq {p}
          /\ InRange(PlaceAt(Up(parent, o), pos), pos[p], 1)
      BY ReachesIs
    <3>2. /\ parent'[tradeItem'[p]] # None
          /\ Above(tradeItem[p])' \cap Player \subseteq {p}
          /\ InRange(Place(tradeItem[p])', pos'[p], 1)
      BY <3>1, <1>1, AboveIsUpPrimed, PlaceIsPrimed
    <3> QED
      BY <3>2 DEF Reaches, InWorld, InRange
  <2>2. \A p \in Player : tradePartner'[p] # None => InRange(pos'[p], pos'[tradePartner'[p]], 2)
    BY <1>1
  <2> QED
    BY <2>1, <2>2 DEF OfferAtHand, InRange
<1>5. OfferAsShown'
  <2> SUFFICES ASSUME NEW p \in Player, NEW o \in Item, o = tradeItem'[p]
               PROVE  Contents(o)' = shown'[p]
    BY DEF OfferAsShown
  <2> QED
    BY <1>1, ContentsIsPrimed
<1> QED
  BY <1>2, <1>3, <1>4, <1>5

LEMMA AcceptKeeps ==
  ASSUME TradeInv, NEW p \in Player, AcceptFirst(p)
  PROVE  TradeInv'
<1>0. /\ TypeOK /\ Rooted(parent) /\ PartnersAgree /\ Book /\ Apart /\ OfferAtHand /\ OfferAsShown /\ altered = {}
      /\ \A r \in Player : tradeItem[r] \notin Item => shown[r] = {}
  BY DEF TradeInv
<1>1. /\ tradeState[p] \in {"acknowledge", "initiated"}
      /\ \A q \in Player : tradePartner[p] = q => tradeState[q] # "accept"
      /\ tradeState' = [tradeState EXCEPT ![p] = "accept"]
      /\ UNCHANGED worldVars /\ tradePartner' = tradePartner /\ tradeItem' = tradeItem
      /\ tradeItems' = tradeItems /\ shown' = shown /\ writer' = writer /\ houseOwner' = houseOwner
      /\ transferItem' = transferItem /\ altered' = altered /\ crashed' = crashed
  BY DEF AcceptFirst, houseVars
<1>2. online' = online
  BY <1>1 DEF worldVars
<1>3. TypeOK'
  BY <1>0, <1>1 DEF TypeOK, TradeState, worldVars
<1>4. tradePartner[p] # None /\ tradePartner[p] \in Player
  BY <1>0, <1>1 DEF PartnersAgree, TypeOK
<1>5. \A r \in Player : tradeState'[r] = IF r = p THEN "accept" ELSE tradeState[r]
  BY <1>0, <1>1 DEF TypeOK
<1>6. PartnersAgree'
  <2> SUFFICES ASSUME NEW r \in Player, NEW q, q = tradePartner[r]
               PROVE  /\ q = None <=> tradeState'[r] = "none"
                      /\ q = None => tradeItem[r] = None
                      /\ q # None => /\ r \in online /\ q \in online \ {r}
                                     /\ tradePartner[q] = r
                                     /\ tradeItem[r] # None \/ tradeItem[q] # None
                                     /\ ~(tradeState'[r] = "accept" /\ tradeState'[q] = "accept")
                      /\ tradeState'[r] = "initiated" => tradeItem[r] # None
                      /\ tradeState'[r] = "acknowledge" => tradeItem[r] = None
    BY <1>1, <1>2 DEF PartnersAgree
  <2>1. /\ q = None <=> tradeState[r] = "none"
        /\ q = None => tradeItem[r] = None
        /\ q # None => /\ r \in online /\ q \in online \ {r}
                       /\ tradePartner[q] = r
                       /\ tradeItem[r] # None \/ tradeItem[q] # None
                       /\ ~(tradeState[r] = "accept" /\ tradeState[q] = "accept")
        /\ tradeState[r] = "initiated" => tradeItem[r] # None
        /\ tradeState[r] = "acknowledge" => tradeItem[r] = None
    BY <1>0 DEF PartnersAgree
  <2>2. q # None => q \in Player
    BY <1>0 DEF TypeOK
  <2>3. r # p => tradeState'[r] = tradeState[r]
    BY <1>5
  <2>4. q # None => ~(tradeState'[r] = "accept" /\ tradeState'[q] = "accept")
    BY <2>1, <2>2, <1>1, <1>5
  <2>5. CASE r = p
    BY <2>1, <2>4, <2>5, <1>4, <1>5
  <2>6. CASE r # p
    BY <2>1, <2>3, <2>4, <2>6
  <2> QED
    BY <2>5, <2>6
<1>7. Book'
  BY <1>0, <1>1 DEF Book
<1>8. Rooted(parent') /\ Apart' /\ OfferAtHand' /\ OfferAsShown'
  <2>1. altered' = {} /\ tradeItem' \in [Player -> Offer \cup {None}] /\ shown' \in [Player -> SUBSET Item]
    BY <1>0, <1>1 DEF TypeOK
  <2>2. \A r, q \in Player : ~ (/\ tradeItem'[r] \in Item /\ tradeItem'[q] \in Item
                                /\ tradeItem'[r] \in Up(parent, tradeItem'[q]))
    BY <1>0, <1>1, HoldsIs DEF Apart
  <2>3. \A r \in Player : tradeItem'[r] \in Item =>
             Reaches(r, tradeItem'[r]) /\ shown'[r] = Within(parent, tradeItem'[r])
    BY <1>0, <1>1, ContentsIs DEF OfferAtHand, OfferAsShown
  <2>4. \A r \in Player : tradePartner'[r] # None => InRange(pos[r], pos[tradePartner'[r]], 2)
    BY <1>0, <1>1 DEF OfferAtHand
  <2> QED
    BY ONLY <2>1, <2>2, <2>3, <2>4, <1>1, OffersAsBefore, TradeInv
<1>9. (\A r \in Player : tradeItem[r] \notin Item => shown[r] = {})' /\ altered' = {}
  BY <1>0, <1>1
<1>10. LettersOwn'
  <2>1. parent' = parent
    BY <1>1 DEF worldVars
  <2>2. \A r \in Player : tradeItem[r] \in Item /\ r \in Up(parent, tradeItem[r]) =>
            \A i \in shown[r] : writer[i] \in {None, r}
    BY AboveIsUp DEF TradeInv, LettersOwn
  <2> QED
    BY <2>1, <2>2, <1>1, AboveIsUpPrimed DEF LettersOwn
<1> QED
  BY <1>3, <1>6, <1>7, <1>8, <1>9, <1>10 DEF TradeInv

\* A new offer joins the books, if it is no part of another and no other of it.
LEMMA Started ==
  ASSUME TradeInv, NEW p \in Player, NEW q \in Player, NEW o \in Offer, StartTrade(p, q, o),
         p \in online, q \in online \ {p}, InRange(pos[p], pos[q], 2),
         \A r \in Player : tradeItem[r] # o,
         o \in Item => /\ Reaches(p, o)
                       /\ \A r \in Player : tradeItem[r] \in Item =>
                            ~Holds(o, tradeItem[r]) /\ ~Holds(tradeItem[r], o),
         transferItem' = transferItem \cup ({o} \cap House),
         UNCHANGED worldVars, houseOwner' = houseOwner, altered' = altered, crashed' = crashed
  PROVE  TradeInv'
<1>0. /\ TypeOK /\ Rooted(parent) /\ PartnersAgree /\ Book /\ Apart /\ OfferAtHand /\ OfferAsShown /\ altered = {}
      /\ \A r \in Player : tradeItem[r] \notin Item => shown[r] = {}
  BY DEF TradeInv
<1>1. /\ \/ tradeState[p] = "none"
         \/ tradeState[p] = "acknowledge" /\ tradePartner[p] = q
      /\ tradeState[q] = "none" \/ tradePartner[q] = p
      /\ tradePartner' = [tradePartner EXCEPT ![p] = q, ![q] = IF tradeState[q] = "none" THEN p ELSE @]
      /\ tradeState' = [tradeState EXCEPT ![p] = "initiated", ![q] = IF @ = "none" THEN "acknowledge" ELSE @]
      /\ tradeItem' = [tradeItem EXCEPT ![p] = o]
      /\ tradeItems' = [tradeItems EXCEPT ![o] = p]
      /\ shown' = [shown EXCEPT ![p] = IF o \in Item THEN Contents(o) ELSE {}]
      /\ writer' = [i \in Item |-> IF i \in shown'[p] THEN None ELSE writer[i]]
  BY DEF StartTrade
<1>2. p # q /\ p # None /\ q # None /\ o # None /\ online' = online
  BY TradeAssumption DEF Offer, worldVars
<1>3. /\ tradePartner'[p] = q /\ tradeState'[p] = "initiated" /\ tradeItem'[p] = o
      /\ tradePartner'[q] = p
      /\ tradeState'[q] = IF tradeState[q] = "none" THEN "acknowledge" ELSE tradeState[q]
      /\ tradeItem'[q] = tradeItem[q]
      /\ \A r \in Player \ {p, q} : /\ tradePartner'[r] = tradePartner[r] /\ tradeState'[r] = tradeState[r]
                                    /\ tradeItem'[r] = tradeItem[r]
      /\ \A r \in Player \ {p} : tradeItem'[r] = tradeItem[r] /\ shown'[r] = shown[r]
      /\ shown'[p] = IF o \in Item THEN Contents(o) ELSE {}
      /\ \A k \in Offer : tradeItems'[k] = IF k = o THEN p ELSE tradeItems[k]
  BY <1>0, <1>1, <1>2 DEF TypeOK
<1>4. o \in Item => Contents(o) \in SUBSET Item /\ Contents(o) = Within(parent, o)
  BY ContentsIs DEF Contents
<1>5. TypeOK'
  <2>1. /\ tradePartner' \in [Player -> Player \cup {None}]
        /\ tradeState' \in [Player -> TradeState]
        /\ tradeItem' \in [Player -> Offer \cup {None}]
        /\ tradeItems' \in [Offer -> Player \cup {None}]
    BY <1>0, <1>1 DEF TypeOK, TradeState
  <2>2. shown' \in [Player -> SUBSET Item]
    BY <1>0, <1>1, <1>4 DEF TypeOK
  <2>3. transferItem' \subseteq House
    BY <1>0 DEF TypeOK
  <2>4. writer' \in [Item -> Player \cup {None}]
    BY <1>0, <1>1 DEF TypeOK
  <2> QED
    BY <2>1, <2>2, <2>3, <2>4, <1>0 DEF TypeOK, worldVars
<1>6. \A r \in Player : /\ tradePartner[r] = None <=> tradeState[r] = "none"
                        /\ tradePartner[r] = None => tradeItem[r] = None
                        /\ tradePartner[r] # None => /\ r \in online /\ tradePartner[r] \in online \ {r}
                                                     /\ tradePartner[r] \in Player
                                                     /\ tradePartner[tradePartner[r]] = r
                                                     /\ tradeItem[r] # None \/ tradeItem[tradePartner[r]] # None
                                                     /\ ~(tradeState[r] = "accept" /\ tradeState[tradePartner[r]] = "accept")
                        /\ tradeState[r] = "initiated" => tradeItem[r] # None
                        /\ tradeState[r] = "acknowledge" => tradeItem[r] = None
  BY <1>0 DEF PartnersAgree, TypeOK
<1>7. /\ tradeItem[p] = None
      /\ \A r \in Player \ {p, q} : tradePartner[r] \notin {p, q}
      /\ tradeState[q] = "none" => tradeItem[q] = None
  <2>1. /\ tradePartner[p] \in {None, q} /\ tradePartner[q] \in {None, p}
        /\ tradeItem[p] = None
        /\ tradeState[q] = "none" => tradeItem[q] = None
    BY <1>1, <1>6
  <2>2. ASSUME NEW r \in Player \ {p, q} PROVE tradePartner[r] \notin {p, q}
    <3>1. r # None /\ (tradePartner[r] # None => tradePartner[tradePartner[r]] = r)
      BY <1>6, TradeAssumption
    <3> QED
      BY <3>1, <2>1, <1>2
  <2> QED
    BY <2>1, <2>2
<1>8. PartnersAgree'
  <2> SUFFICES ASSUME NEW r \in Player, NEW s, s = tradePartner'[r]
               PROVE  /\ s = None <=> tradeState'[r] = "none"
                      /\ s = None => tradeItem'[r] = None
                      /\ s # None => /\ r \in online /\ s \in online \ {r}
                                     /\ tradePartner'[s] = r
                                     /\ tradeItem'[r] # None \/ tradeItem'[s] # None
                                     /\ ~(tradeState'[r] = "accept" /\ tradeState'[s] = "accept")
                      /\ tradeState'[r] = "initiated" => tradeItem'[r] # None
                      /\ tradeState'[r] = "acknowledge" => tradeItem'[r] = None
    BY <1>2 DEF PartnersAgree
  <2>1. CASE r = p
    BY <2>1, <1>2, <1>3
  <2>2. CASE r = q
    BY <2>2, <1>2, <1>3, <1>6, <1>7
  <2>3. CASE r \notin {p, q}
    <3>1. s = tradePartner[r] /\ tradeState'[r] = tradeState[r] /\ tradeItem'[r] = tradeItem[r]
      BY <2>3, <1>3
    <3>2. s # None => /\ tradePartner'[s] = tradePartner[s] /\ tradeState'[s] = tradeState[s]
                      /\ tradeItem'[s] = tradeItem[s]
      BY <2>3, <3>1, <1>3, <1>6, <1>7
    <3> QED
      BY <3>1, <3>2, <1>6
  <2> QED
    BY <2>1, <2>2, <2>3
<1>9. Book'
  <2>1. ASSUME NEW k \in Offer, NEW r \in Player
        PROVE  tradeItems'[k] = r <=> tradeItem'[r] = k
    <3>1. /\ tradeItems[k] = r <=> tradeItem[r] = k
          /\ tradeItems[k] = p <=> tradeItem[p] = k
          /\ k # None
      BY <1>0, TradeAssumption DEF Book, Offer
    <3>2. tradeItem'[r] = IF r = p THEN o ELSE tradeItem[r]
      BY <1>3
    <3> QED
      BY <3>1, <3>2, <1>3, <1>7
  <2>2. transferItem = {tradeItem[r] : r \in Player} \cap House
    BY <1>0 DEF Book
  <2>3. \A h \in House : (\E r \in Player : tradeItem'[r] = h) <=> (h = o \/ \E r \in Player : tradeItem[r] = h)
    <3>1. \A h \in House : h # None
      BY TradeAssumption
    <3> QED
      BY <3>1, <1>3, <1>7
  <2>4. transferItem' = {tradeItem'[r] : r \in Player} \cap House
    BY <2>2, <2>3
  <2> QED
    BY <2>1, <2>4 DEF Book
<1>10. Rooted(parent') /\ Apart' /\ OfferAtHand' /\ OfferAsShown'
  <2>1. altered' = {} /\ tradeItem' \in [Player -> Offer \cup {None}] /\ shown' \in [Player -> SUBSET Item]
    BY <1>0, <1>5 DEF TypeOK
  <2>2. \A r, s \in Player : ~ (/\ tradeItem'[r] \in Item /\ tradeItem'[s] \in Item
                                /\ tradeItem'[r] \in Up(parent, tradeItem'[s]))
    <3> SUFFICES ASSUME NEW r \in Player, NEW s \in Player,
                        tradeItem'[r] \in Item, tradeItem'[s] \in Item,
                        tradeItem'[r] \in Up(parent, tradeItem'[s])
                 PROVE  FALSE
      OBVIOUS
    <3>1. CASE r # p /\ s # p
      BY <3>1, <1>0, <1>3, HoldsIs DEF Apart
    <3>2. CASE r = p /\ s # p
      BY <3>2, <1>3, HoldsIs
    <3>3. CASE r # p /\ s = p
      BY <3>3, <1>3, HoldsIs
    <3>4. CASE r = p /\ s = p
      BY <3>4, <1>0, <1>3, NeverInItself
    <3> QED
      BY <3>1, <3>2, <3>3, <3>4
  <2>3. \A r \in Player : tradeItem'[r] \in Item =>
             Reaches(r, tradeItem'[r]) /\ shown'[r] = Within(parent, tradeItem'[r])
    BY <1>0, <1>3, <1>4, ContentsIs DEF OfferAtHand, OfferAsShown
  <2>4. \A r \in Player : tradePartner'[r] # None => InRange(pos[r], pos[tradePartner'[r]], 2)
    <3>1. InRange(pos[q], pos[p], 2)
      <4>1. pos[p] \in Int /\ pos[q] \in Int
        BY <1>0, TradeAssumption DEF TypeOK
      <4> QED
        BY <4>1 DEF InRange
    <3> QED
      BY <3>1, <1>0, <1>3 DEF OfferAtHand
  <2> QED
    BY ONLY <2>1, <2>2, <2>3, <2>4, OffersAsBefore, TradeInv, UNCHANGED worldVars
<1>11. (\A r \in Player : tradeItem[r] \notin Item => shown[r] = {})' /\ altered' = {}
  BY <1>0, <1>3
<1>12. LettersOwn'
  <2> SUFFICES ASSUME NEW r \in Player, NEW k \in Item, k = tradeItem'[r], r \in Up(parent', k),
                      NEW i \in shown'[r]
               PROVE  writer'[i] \in {None, r}
    BY AboveIsUpPrimed DEF LettersOwn
  <2>1. i \in Item
    BY <1>5 DEF TypeOK
  <2>2. CASE r = p
    BY <2>1, <2>2, <1>1
  <2>3. CASE r # p
    <3>1. k = tradeItem[r] /\ i \in shown[r] /\ r \in Up(parent, k)
      BY <2>3, <1>3 DEF worldVars
    <3>2. writer[i] \in {None, r}
      BY <3>1, AboveIsUp DEF TradeInv, LettersOwn
    <3> QED
      BY <2>1, <3>2, <1>1
  <2> QED
    BY <2>2, <2>3
<1> QED
  BY <1>5, <1>8, <1>9, <1>10, <1>11, <1>12 DEF TradeInv

LEMMA RequestKeeps ==
  ASSUME TradeInv, NEW p \in Player, NEW q \in Player, NEW i \in Item, RequestTrade(p, q, i)
  PROVE  TradeInv'
<1>1. /\ p \in online /\ q \in online \ {p} /\ InRange(pos[p], pos[q], 2) /\ Reaches(p, i)
      /\ \A o \in Item : tradeItems[o] # None => o # i /\ ~Holds(i, o) /\ ~Holds(o, i)
      /\ StartTrade(p, q, i) /\ UNCHANGED worldVars /\ houseOwner' = houseOwner
      /\ transferItem' = transferItem /\ altered' = altered /\ crashed' = crashed
  BY DEF RequestTrade, Playing, houseVars
<1>2. \A r \in Player : tradeItem[r] \in Item => tradeItems[tradeItem[r]] # None
  BY TradeAssumption DEF TradeInv, Book, Offer
<1>3. /\ \A r \in Player : tradeItem[r] # i
      /\ i \in Item => /\ Reaches(p, i)
                       /\ \A r \in Player : tradeItem[r] \in Item =>
                            ~Holds(i, tradeItem[r]) /\ ~Holds(tradeItem[r], i)
  BY <1>1, <1>2
<1>4. i \in Offer /\ transferItem' = transferItem \cup ({i} \cap House)
  BY <1>1, TradeAssumption DEF Offer
<1> QED
  BY ONLY <1>1, <1>3, <1>4, Started, TradeInv, p \in Player, q \in Player

LEMMA SellKeeps ==
  ASSUME TradeInv, NEW p \in Player, NEW q \in Player, NEW h \in House, SellHouse(p, q, h)
  PROVE  TradeInv'
<1>1. /\ p \in online /\ q \in online \ {p} /\ InRange(pos[p], pos[q], 2)
      /\ h \notin transferItem
      /\ StartTrade(p, q, h) /\ UNCHANGED worldVars /\ houseOwner' = houseOwner
      /\ transferItem' = transferItem \cup {h} /\ altered' = altered /\ crashed' = crashed
  BY DEF SellHouse, Playing
<1>2. \A r \in Player : tradeItem[r] # h
  BY <1>1 DEF TradeInv, Book
<1>3. h \in Offer /\ h \notin Item /\ transferItem' = transferItem \cup ({h} \cap House)
  BY <1>1, TradeAssumption DEF Offer
<1> QED
  BY ONLY <1>1, <1>2, <1>3, Started, TradeInv, p \in Player, q \in Player

-----------------------------------------------------------------------------
(* The exchange: two moves, one after the other.                           *)

\* From par, offer o is brought to q, though never into x.
Brought(par, to, q, o, x) ==
    \/ to = par /\ (o \in House \/ Stuck(o))
    \/ /\ o \in Item
       /\ \E d \in {q} \cup {c \in Container : par[c] = q /\ c # x} : to = [par EXCEPT ![o] = d]

LEMMA MovedIs ==
  ASSUME NEW par, NEW q, NEW o \in Offer, NEW to \in Moved(par, q, o)
  PROVE  Brought(par, to, q, o, tradeItem[q])
BY DEF Brought, Moved, Destinations, Offer

\* What is brought to q is then q's, with all that is in it; the rest stays.
LEMMA BroughtOne ==
  ASSUME NEW par \in Parents, Rooted(par), NEW to, NEW q \in Player, NEW o \in Offer, NEW x,
         Brought(par, to, q, o, x),
         o \in Item => q \notin Up(par, o)
  PROVE  /\ to \in Parents /\ Rooted(to)
         /\ \A j \in Item : \/ Up(to, j) = Up(par, j)
                            \/ o \in Item /\ j \in Within(par, o) /\ Root(to, j, q)
         /\ \A j \in Item : ~ (o \in Item /\ j \in Within(par, o)) => Up(to, j) = Up(par, j)
         /\ o \in Item /\ ~Stuck(o) => Root(to, o, q)
         /\ \A k \in Item :
              /\ o \in Item => k \notin Within(par, o) /\ k \notin Up(par, o)
              /\ q \notin Up(par, k) \/ k = x
              => to[k] = par[k] /\ Up(to, k) = Up(par, k) /\ Within(to, k) = Within(par, k)
<1>1. CASE to = par /\ (o \in House \/ Stuck(o))
  BY <1>1, TradeAssumption
<1>2. ASSUME o \in Item, NEW d \in {q} \cup {c \in Container : par[c] = q /\ c # x},
             to = [par EXCEPT ![o] = d]
      PROVE  /\ to \in Parents /\ Rooted(to)
             /\ \A j \in Item : j \notin Within(par, o) => Up(to, j) = Up(par, j)
             /\ \A j \in Within(par, o) : Root(to, j, q)
             /\ o \in Within(par, o)
             /\ \A k \in Item :
                  /\ k \notin Within(par, o) /\ k \notin Up(par, o)
                  /\ q \notin Up(par, k) \/ k = x
                  => to[k] = par[k] /\ Up(to, k) = Up(par, k) /\ Within(to, k) = Within(par, k)
  <2>0. o \in Item
    BY <1>2
  <2>1. q \notin Item /\ q # None /\ q \in Cylinder
    BY TradeAssumption DEF Cylinder
  <2>2. d \in Cylinder /\ (d \in Item => par[d] = q /\ d # x) /\ (d \notin Item => d = q)
    BY <1>2, TradeAssumption DEF Cylinder
  <2>3. to \in Parents /\ (\A k \in Item : k # o => to[k] = par[k]) /\ to[o] = d
    BY <1>2, <2>2 DEF Parents
  <2>4. d \in Item => Up(par, d) = {q}
    BY <2>1, <2>2, UpOne
  <2>5. par[o] \in Up(par, o)
    BY UpLeast
  <2>6. d \notin Within(par, o)
    BY <1>2, <2>1, <2>2, <2>4, <2>5 DEF Within
  <2>7. d \in Item => par[d] # None
    BY <2>1, <2>2
  <2>8. /\ Rooted(to)
        /\ \E r : /\ Root(to, o, r) /\ (IF d \in Item THEN Root(par, d, r) ELSE r = d)
                  /\ \A j \in Within(par, o) : Root(to, j, r)
    BY ONLY <2>0, <2>2, <2>3, <2>6, <2>7, RootedMove, Rooted(par)
  <2>9. \A j \in Within(par, o) : Root(to, j, q)
    BY <2>2, <2>4, <2>8 DEF Root
  <2>10. \A j \in Item : j \notin Within(par, o) => Up(to, j) = Up(par, j)
    BY ONLY <2>0, <2>3, OthersStay
  <2>11. ASSUME NEW k \in Item, k \notin Within(par, o), k \notin Up(par, o), q \notin Up(par, k) \/ k = x
         PROVE  to[k] = par[k] /\ Up(to, k) = Up(par, k) /\ Within(to, k) = Within(par, k)
    <3>1. par[k] \in Up(par, k)
      BY UpLeast
    <3>2. k # d
      BY <2>1, <2>2, <2>11, <3>1
    <3>3. k \notin Onto(par, d)
      BY <2>1, <2>4, <3>2 DEF Onto
    <3> QED
      BY ONLY <2>0, <2>3, <2>6, <2>11, <3>3, ContentStays, Rooted(par)
  <2>12. o \in Within(par, o)
    BY <1>2 DEF Within
  <2> QED
    BY <2>3, <2>8, <2>9, <2>10, <2>11, <2>12
<1>3. CASE o \in Item /\ \E d \in {q} \cup {c \in Container : par[c] = q /\ c # x} : to = [par EXCEPT ![o] = d]
  <2>1. PICK d \in {q} \cup {c \in Container : par[c] = q /\ c # x} : to = [par EXCEPT ![o] = d]
    BY <1>3
  <2>2. /\ to \in Parents /\ Rooted(to)
        /\ \A j \in Item : j \notin Within(par, o) => Up(to, j) = Up(par, j)
        /\ \A j \in Within(par, o) : Root(to, j, q)
        /\ o \in Within(par, o)
        /\ \A k \in Item :
             /\ k \notin Within(par, o) /\ k \notin Up(par, o)
             /\ q \notin Up(par, k) \/ k = x
             => to[k] = par[k] /\ Up(to, k) = Up(par, k) /\ Within(to, k) = Within(par, k)
    BY <1>2, <1>3, <2>1
  <2> QED
    BY <2>2, <1>3
<1> QED
  BY <1>1, <1>3 DEF Brought

\* Two who trade, and what each has on offer.
LEMMA Bargain ==
  ASSUME TradeInv, NEW p \in Player, NEW q \in Player, BothAccept(p, q),
         NEW o1, o1 = tradeItem[p], NEW o2, o2 = tradeItem[q], None \notin {o1, o2}
  PROVE  /\ o1 \in Offer /\ o2 \in Offer /\ o1 # o2 /\ p # q
         /\ p \in online /\ q \in online /\ tradePartner[p] = q /\ tradePartner[q] = p
         /\ o1 \in Item => Reaches(p, o1) /\ q \notin Up(parent, o1) /\ shown[p] = Within(parent, o1)
         /\ o2 \in Item => Reaches(q, o2) /\ p \notin Up(parent, o2) /\ shown[q] = Within(parent, o2)
         /\ o1 \in Item /\ o2 \in Item => /\ o1 \notin Within(parent, o2) /\ o2 \notin Within(parent, o1)
                                          /\ o1 \notin Up(parent, o2) /\ o2 \notin Up(parent, o1)
<1>0. /\ TypeOK /\ PartnersAgree /\ Book /\ Apart /\ OfferAtHand /\ OfferAsShown
  BY DEF TradeInv
<1>1. /\ p # q /\ p \in online /\ q \in online /\ tradePartner[p] = q /\ tradePartner[q] = p
  BY <1>0, TradeAssumption DEF BothAccept, PartnersAgree
<1>2. o1 \in Offer /\ o2 \in Offer
  BY <1>0 DEF TypeOK
<1>3. o1 # o2
  BY <1>0, <1>1, <1>2 DEF Book
<1>4. /\ o1 \in Item => Reaches(p, o1) /\ q \notin Up(parent, o1) /\ shown[p] = Within(parent, o1)
      /\ o2 \in Item => Reaches(q, o2) /\ p \notin Up(parent, o2) /\ shown[q] = Within(parent, o2)
  BY <1>0, <1>1, ReachesIs, ContentsIs DEF OfferAtHand, OfferAsShown
<1>5. o1 \in Item /\ o2 \in Item => /\ o1 \notin Up(parent, o2) /\ o2 \notin Up(parent, o1)
  BY <1>0, HoldsIs DEF Apart
<1>6. o1 \in Item /\ o2 \in Item => /\ o1 \notin Within(parent, o2) /\ o2 \notin Within(parent, o1)
  BY <1>3, <1>5 DEF Within
<1> QED
  BY <1>1, <1>2, <1>3, <1>4, <1>5, <1>6

\* After the exchange everything is where it was, but for what was on offer: that is
\* the other's, or stays where it is stuck.
LEMMA Exchanged ==
  ASSUME TradeInv, NEW p \in Player, NEW q \in Player, BothAccept(p, q),
         NEW o1, o1 = tradeItem[p], NEW o2, o2 = tradeItem[q], None \notin {o1, o2},
         NEW par, par \in Moved(parent, q, o1), parent' \in Moved(par, p, o2)
  PROVE  /\ parent' \in Parents /\ Rooted(parent')
         /\ \A i \in Item : \/ Up(parent', i) = Up(parent, i)
                            \/ o1 \in Item /\ i \in Within(parent, o1) /\ Root(parent', i, q)
                            \/ o2 \in Item /\ i \in Within(parent, o2) /\ Root(parent', i, p)
         /\ o1 \in Item /\ ~Stuck(o1) => Root(parent', o1, q)
         /\ o2 \in Item /\ ~Stuck(o2) => Root(parent', o2, p)
         /\ \A k \in Item :
              /\ o1 \in Item => k \notin Within(parent, o1) /\ k \notin Up(parent, o1)
              /\ o2 \in Item => k \notin Within(parent, o2) /\ k \notin Up(parent, o2)
              /\ p \notin Up(parent, k) /\ q \notin Up(parent, k)
              => /\ parent'[k] = parent[k] /\ Up(parent', k) = Up(parent, k)
                 /\ Within(parent', k) = Within(parent, k)
<1>0. /\ o1 \in Offer /\ o2 \in Offer /\ o1 # o2 /\ p # q
      /\ p \in online /\ q \in online /\ tradePartner[p] = q /\ tradePartner[q] = p
      /\ o1 \in Item => Reaches(p, o1) /\ q \notin Up(parent, o1) /\ shown[p] = Within(parent, o1)
      /\ o2 \in Item => Reaches(q, o2) /\ p \notin Up(parent, o2) /\ shown[q] = Within(parent, o2)
      /\ o1 \in Item /\ o2 \in Item => /\ o1 \notin Within(parent, o2) /\ o2 \notin Within(parent, o1)
                                       /\ o1 \notin Up(parent, o2) /\ o2 \notin Up(parent, o1)
  BY Bargain
<1>1. PICK u : u = parent
  OBVIOUS
<1>2. PICK v : v = parent'
  OBVIOUS
<1>3. u \in Parents /\ Rooted(u)
  BY <1>1 DEF TradeInv, TypeOK, Parents
<1>4. Brought(u, par, q, o1, o2)
  <2>1. Brought(parent, par, q, o1, tradeItem[q])
    BY ONLY <1>0, MovedIs, par \in Moved(parent, q, o1)
  <2> QED
    BY <2>1, <1>1
<1>5. Brought(par, v, p, o2, o1)
  <2>1. v \in Moved(par, p, o2)
    BY <1>2
  <2>2. Brought(par, v, p, o2, tradeItem[p])
    BY ONLY <1>0, <2>1, MovedIs
  <2> QED
    BY <2>2
<1>6. /\ par \in Parents /\ Rooted(par)
      /\ \A j \in Item : \/ Up(par, j) = Up(u, j)
                         \/ o1 \in Item /\ j \in Within(u, o1) /\ Root(par, j, q)
      /\ \A j \in Item : ~ (o1 \in Item /\ j \in Within(u, o1)) => Up(par, j) = Up(u, j)
      /\ o1 \in Item /\ ~Stuck(o1) => Root(par, o1, q)
      /\ \A k \in Item :
           /\ o1 \in Item => k \notin Within(u, o1) /\ k \notin Up(u, o1)
           /\ q \notin Up(u, k) \/ k = o2
           => par[k] = u[k] /\ Up(par, k) = Up(u, k) /\ Within(par, k) = Within(u, k)
  <2>1. o1 \in Item => q \notin Up(u, o1)
    BY <1>0, <1>1
  <2> QED
    BY ONLY <1>0, <1>3, <1>4, <2>1, BroughtOne, q \in Player
<1>7. o2 \in Item => Up(par, o2) = Up(u, o2) /\ Within(par, o2) = Within(u, o2)
  BY <1>0, <1>1, <1>6
<1>8. /\ v \in Parents /\ Rooted(v)
      /\ \A j \in Item : \/ Up(v, j) = Up(par, j)
                         \/ o2 \in Item /\ j \in Within(par, o2) /\ Root(v, j, p)
      /\ \A j \in Item : ~ (o2 \in Item /\ j \in Within(par, o2)) => Up(v, j) = Up(par, j)
      /\ o2 \in Item /\ ~Stuck(o2) => Root(v, o2, p)
      /\ \A k \in Item :
           /\ o2 \in Item => k \notin Within(par, o2) /\ k \notin Up(par, o2)
           /\ p \notin Up(par, k) \/ k = o1
           => v[k] = par[k] /\ Up(v, k) = Up(par, k) /\ Within(v, k) = Within(par, k)
  <2>1. o2 \in Item => p \notin Up(par, o2)
    BY <1>0, <1>1, <1>7
  <2> QED
    BY ONLY <1>0, <1>5, <1>6, <2>1, BroughtOne, p \in Player
<1>9. \A i \in Item : \/ Up(v, i) = Up(u, i)
                      \/ o1 \in Item /\ i \in Within(u, o1) /\ Root(v, i, q)
                      \/ o2 \in Item /\ i \in Within(u, o2) /\ Root(v, i, p)
  BY <1>6, <1>7, <1>8 DEF Root
<1>10. o1 \in Item /\ ~Stuck(o1) => Root(v, o1, q)
  BY <1>0, <1>1, <1>6, <1>7, <1>8 DEF Root
<1>11. ASSUME NEW k \in Item,
              o1 \in Item => k \notin Within(u, o1) /\ k \notin Up(u, o1),
              o2 \in Item => k \notin Within(u, o2) /\ k \notin Up(u, o2),
              p \notin Up(u, k) /\ q \notin Up(u, k)
       PROVE  v[k] = u[k] /\ Up(v, k) = Up(u, k) /\ Within(v, k) = Within(u, k)
  <2>1. par[k] = u[k] /\ Up(par, k) = Up(u, k) /\ Within(par, k) = Within(u, k)
    BY <1>6, <1>11
  <2> QED
    BY <2>1, <1>7, <1>8, <1>11
<1> QED
  BY <1>1, <1>2, <1>8, <1>9, <1>10, <1>11

LEMMA TransferKeeps ==
  ASSUME TradeInv, NEW p \in Player, NEW q \in Player, TransferTrade(p, q)
  PROVE  TradeInv'
<1>0. /\ TypeOK /\ Rooted(parent) /\ PartnersAgree /\ OfferAtHand /\ altered = {}
  BY DEF TradeInv
<1>1. PICK o1 : o1 = tradeItem[p]
  OBVIOUS
<1>2. PICK o2 : o2 = tradeItem[q]
  OBVIOUS
<1>3. PICK S \in SUBSET Player : S = {p} \cup ((UNION {LeaveCloses(o) : o \in {o1, o2} \cap Item}) \ {p, q})
  BY DEF LeaveCloses
<1>4. /\ BothAccept(p, q) /\ None \notin {o1, o2}
      /\ \E par \in Moved(parent, q, o1) : parent' \in Moved(par, p, o2)
      /\ houseOwner' = NewOwner(p, q) /\ CloseTrades(S)
      /\ online' = online /\ pos' = pos /\ altered' = altered /\ crashed' = crashed
  BY <1>1, <1>2, <1>3 DEF TransferTrade
<1>5. PICK par \in Moved(parent, q, o1) : parent' \in Moved(par, p, o2)
  BY <1>4
<1>6. /\ o1 \in Offer /\ o2 \in Offer /\ o1 # o2 /\ p # q
      /\ p \in online /\ q \in online /\ tradePartner[p] = q /\ tradePartner[q] = p
      /\ o1 \in Item => Reaches(p, o1) /\ q \notin Up(parent, o1) /\ shown[p] = Within(parent, o1)
      /\ o2 \in Item => Reaches(q, o2) /\ p \notin Up(parent, o2) /\ shown[q] = Within(parent, o2)
      /\ o1 \in Item /\ o2 \in Item => /\ o1 \notin Within(parent, o2) /\ o2 \notin Within(parent, o1)
                                       /\ o1 \notin Up(parent, o2) /\ o2 \notin Up(parent, o1)
  BY ONLY TradeInv, p \in Player, q \in Player, <1>1, <1>2, <1>4, Bargain
<1>7. /\ parent' \in Parents /\ Rooted(parent')
      /\ \A k \in Item :
           /\ o1 \in Item => k \notin Within(parent, o1) /\ k \notin Up(parent, o1)
           /\ o2 \in Item => k \notin Within(parent, o2) /\ k \notin Up(parent, o2)
           /\ p \notin Up(parent, k) /\ q \notin Up(parent, k)
           => /\ parent'[k] = parent[k] /\ Up(parent', k) = Up(parent, k)
              /\ Within(parent', k) = Within(parent, k)
  BY ONLY TradeInv, p \in Player, q \in Player, <1>1, <1>2, <1>4, <1>5, Exchanged
<1>8. houseOwner' \in [House -> Player \cup {None}]
  BY <1>0, <1>4 DEF NewOwner, TypeOK
<1>9. /\ online' \in SUBSET Player /\ pos' \in [Player -> Cell] /\ crashed' \in BOOLEAN /\ altered' = {}
  BY <1>0, <1>4 DEF TypeOK
<1>10. \A r \in Player \ Ended(S) : tradePartner[r] # None =>
             r \in online' /\ InRange(pos'[r], pos'[tradePartner[r]], 2)
  BY <1>4, PartnersStay
<1>11. ASSUME NEW r \in Player \ Ended(S), NEW k \in Item, tradeItem[r] = k
      PROVE  /\ Reaches(r, k)'
             /\ Up(parent', k) = Up(parent, k)
             /\ Within(parent', k) = Within(parent, k)
  <2>1. p \in Ended(S) /\ q \in Ended(S)
    BY <1>0, <1>3, <1>6, EndedBoth
  <2>2. r \notin S /\ r # p /\ r # q
    BY <2>1, <1>0, EndedBoth
  <2>3. r \in online /\ Reaches(r, k)
    BY <1>0, <1>11, TradeAssumption, OffererPlays DEF OfferAtHand
  <2>4. ASSUME NEW o \in Item, o \in {o1, o2}, parent[o] # None
        PROVE  k \notin Within(parent, o) /\ k \notin Up(parent, o)
    <3>1. r \notin LeaveCloses(o)
      BY <2>2, <2>4, <1>3
    <3> QED
      BY ONLY <1>0, <1>11, <2>3, <2>4, <3>1, LeaveNotices, k \in Item, o \in Item
  <2>5. /\ o1 \in Item => parent[o1] # None
        /\ o2 \in Item => parent[o2] # None
    BY <1>6, ReachesIs
  <2>6. p \notin Up(parent, k) /\ q \notin Up(parent, k)
    BY <2>2, <2>3, ReachesIs
  <2>7. parent'[k] = parent[k] /\ Up(parent', k) = Up(parent, k) /\ Within(parent', k) = Within(parent, k)
    BY <2>4, <2>5, <2>6, <1>7
  <2> QED
    BY <2>3, <2>7, <1>4, ReachesIs, ReachesIsPrimed
<1>12. \A r \in Player \ Ended(S) : \A k \in Item : tradeItem[r] = k =>
             /\ Reaches(r, k)'
             /\ Up(parent', k) = Up(parent, k)
             /\ Within(parent', k) = Within(parent, k)
  BY <1>11
<1> QED
  BY ONLY <1>4, <1>7, <1>8, <1>9, <1>10, <1>12, ClosedKeeps, TradeInv, S \in SUBSET Player

\* Every step of the specification keeps the invariant.
LEMMA InvNext == TradeInv /\ [Next]_vars => TradeInv'
<1> SUFFICES ASSUME TradeInv, [Next]_vars PROVE TradeInv'
  OBVIOUS
<1>0. TypeOK /\ altered = {}
  BY DEF TradeInv
<1>1. ASSUME NEW p \in Player, NEW c \in Cell, Walk(p, c) PROVE TradeInv'
  BY <1>1, WalkKeeps
<1>2. ASSUME NEW p \in Player, Logout(p) PROVE TradeInv'
  BY <1>2, LogoutKeeps
<1>3. ASSUME NEW p \in Player, Login(p) PROVE TradeInv'
  <2>1. UNCHANGED <<pos, parent, tradeVars, transferItem, altered>> /\ online' = online \cup {p}
        /\ houseOwner' = houseOwner /\ crashed' = crashed
    BY <1>3 DEF Login, houseVars
  <2>2. /\ online \subseteq online' /\ online' \subseteq Player
        /\ houseOwner' \in [House -> Player \cup {None}] /\ crashed' \in BOOLEAN
    BY <2>1, <1>0 DEF TypeOK
  <2> QED
    BY ONLY <2>1, <2>2, LettersAsBefore, TradeInv
<1>4. ASSUME NEW p \in Player, NEW i \in Item, NEW d \in Cylinder, MoveItem(p, i, d) PROVE TradeInv'
  BY <1>4, MoveItemKeeps
<1>5. ASSUME NEW i \in Item, RemoveItem(i) \/ TransformItem(i) PROVE TradeInv'
  BY <1>5, RemoveItemKeeps, TransformItemKeeps
<1>18. ASSUME NEW p \in Player, NEW i \in Item, WriteItem(p, i) PROVE TradeInv'
  BY <1>18, WriteItemKeeps
<1>6. ASSUME NEW p \in Player, AcceptFirst(p) PROVE TradeInv'
  BY <1>6, AcceptKeeps
<1>7. ASSUME NEW p \in Player, CloseTrade(p) PROVE TradeInv'
  <2>1. PICK S \in SUBSET Player : S = {p}
    OBVIOUS
  <2>2. CloseTrades(S) /\ UNCHANGED worldVars /\ houseOwner' = houseOwner /\ crashed' = crashed /\ altered' = {}
    BY <2>1, <1>0, <1>7 DEF CloseTrade
  <2> QED
    BY ONLY <2>2, StillCloses, TradeInv, S \in SUBSET Player
<1>8. ASSUME NEW p \in Player, NEW q \in Player, CancelTrade(p, q) PROVE TradeInv'
  <2>1. PICK S \in SUBSET Player : S = {p}
    OBVIOUS
  <2>2. CloseTrades(S) /\ UNCHANGED worldVars /\ houseOwner' = houseOwner /\ crashed' = crashed /\ altered' = {}
    BY <2>1, <1>0, <1>8 DEF CancelTrade
  <2> QED
    BY ONLY <2>2, StillCloses, TradeInv, S \in SUBSET Player
<1>9. ASSUME NEW p \in Player, NEW q \in Player, CrashTrade(p, q) PROVE TradeInv'
  <2>1. UNCHANGED <<worldVars, tradeVars, houseVars, altered>> /\ crashed' = TRUE
    BY <1>9 DEF CrashTrade
  <2>2. /\ UNCHANGED <<pos, parent, tradeVars, transferItem, altered>>
        /\ online \subseteq online' /\ online' \subseteq Player
        /\ houseOwner' \in [House -> Player \cup {None}] /\ crashed' \in BOOLEAN
    BY <2>1, <1>0 DEF TypeOK, worldVars, houseVars
  <2> QED
    BY ONLY <2>2, LettersAsBefore, TradeInv
<1>10. ASSUME NEW p \in Player, NEW q \in Player, TransferTrade(p, q) PROVE TradeInv'
  BY <1>10, TransferKeeps
<1>11. ASSUME NEW p \in Player, NEW q \in Player, NEW i \in Item, RequestTrade(p, q, i) PROVE TradeInv'
  BY <1>11, RequestKeeps
<1>12. ASSUME NEW p \in Player, NEW q \in Player, NEW h \in House, SellHouse(p, q, h) PROVE TradeInv'
  BY <1>12, SellKeeps
<1>13. ASSUME NEW p \in Player, NEW h \in House, BuyHouse(p, h) \/ LeaveHouse(p, h) PROVE TradeInv'
  <2>1. /\ UNCHANGED <<pos, parent, tradeVars, transferItem, altered>> /\ online' = online
        /\ houseOwner' \in [House -> Player \cup {None}] /\ crashed' = crashed
    BY <1>0, <1>13 DEF BuyHouse, LeaveHouse, worldVars, TypeOK
  <2>2. online \subseteq online' /\ online' \subseteq Player /\ crashed' \in BOOLEAN
    BY <2>1, <1>0 DEF TypeOK
  <2> QED
    BY ONLY <2>1, <2>2, LettersAsBefore, TradeInv
<1>14. ASSUME UNCHANGED vars PROVE TradeInv'
  <2>1. /\ UNCHANGED <<pos, parent, tradeVars, transferItem, altered>>
        /\ online \subseteq online' /\ online' \subseteq Player
        /\ houseOwner' \in [House -> Player \cup {None}] /\ crashed' \in BOOLEAN
    BY <1>0, <1>14 DEF vars, worldVars, houseVars, TypeOK
  <2> QED
    BY ONLY <2>1, LettersAsBefore, TradeInv
<1>15. ASSUME World PROVE TradeInv'
  BY <1>1, <1>2, <1>3, <1>4, <1>5, <1>15, <1>18 DEF World
<1>16. ASSUME Trading PROVE TradeInv'
  BY <1>6, <1>7, <1>8, <1>9, <1>10, <1>11, <1>12, <1>16 DEF Trading
<1>17. ASSUME Housing PROVE TradeInv'
  BY <1>13, <1>17 DEF Housing
<1> QED
  BY <1>14, <1>15, <1>16, <1>17 DEF Next

LEMMA InvAlways == Spec => []TradeInv
<1>1. Init => TradeInv
  BY InvInit
<1>2. TradeInv /\ [Next]_vars => TradeInv'
  BY InvNext
<1> QED
  BY <1>1, <1>2, PTL DEF Spec

-----------------------------------------------------------------------------
(* What is proved.                                                         *)

\* Every part of the state of trades has its type (game.cpp, player.h).
THEOREM TypeCorrect == Spec => []TypeOK
<1>1. TradeInv => TypeOK
  BY DEF TradeInv
<1> QED
  BY <1>1, InvAlways, PTL

\* However items, players and houses come and go, what both partners, tradeItems and
\* the documents say of a trade agrees, and what was shown is at hand and the same, but
\* for the text of letters, which nobody but the one who carries them writes anew
\* (game.cpp:2280, game.cpp:1999, player.cpp:1278).
THEOREM OffersHoldAlways == Spec => []OffersHold
<1>1. TradeInv => OffersHold
  BY InvHolds
<1> QED
  BY <1>1, InvAlways, PTL

\* What one carried is carried by another after a step only where the two exchanged
\* it for what the other offered.
Fair(p, q, i) ==
    /\ tradePartner[p] = q
    /\ i \in shown[p]
    /\ \/ tradeItem[q] \in House /\ houseOwner'[tradeItem[q]] = p
       \/ \E j \in Item : j = tradeItem[q] /\ (Stuck(j) \/ p \in Above(j)')

LEMMA OneCarries ==
  ASSUME NEW par, Rooted(par), NEW i \in Item, NEW p \in Player, NEW q \in Player,
         p \in Up(par, i), q \in Up(par, i)
  PROVE  p = q
<1>1. par[i] # None
  <2>1. par[i] \notin Item => Up(par, i) = {par[i]}
    BY ONLY UpOne
  <2> QED
    BY <2>1, TradeAssumption
<1>2. PICK r : Root(par, i, r)
  BY <1>1 DEF Rooted
<1> QED
  BY <1>2, TradeAssumption DEF Root

LEMMA TransferFair ==
  ASSUME TradeInv, NEW p \in Player, NEW q \in Player, TransferTrade(p, q),
         NEW a \in Player, NEW b \in Player, a # b, NEW i \in Item,
         a \in Up(parent, i), b \in Up(parent', i)
  PROVE  Fair(a, b, i)
<1>1. PICK o1 : o1 = tradeItem[p]
  OBVIOUS
<1>2. PICK o2 : o2 = tradeItem[q]
  OBVIOUS
<1>3. /\ BothAccept(p, q) /\ None \notin {o1, o2}
      /\ \E par \in Moved(parent, q, o1) : parent' \in Moved(par, p, o2)
      /\ houseOwner' = NewOwner(p, q)
  BY <1>1, <1>2 DEF TransferTrade
<1>4. PICK par \in Moved(parent, q, o1) : parent' \in Moved(par, p, o2)
  BY <1>3
<1>5. /\ o1 \in Offer /\ o2 \in Offer /\ o1 # o2 /\ p # q
      /\ p \in online /\ q \in online /\ tradePartner[p] = q /\ tradePartner[q] = p
      /\ o1 \in Item => Reaches(p, o1) /\ q \notin Up(parent, o1) /\ shown[p] = Within(parent, o1)
      /\ o2 \in Item => Reaches(q, o2) /\ p \notin Up(parent, o2) /\ shown[q] = Within(parent, o2)
      /\ o1 \in Item /\ o2 \in Item => /\ o1 \notin Within(parent, o2) /\ o2 \notin Within(parent, o1)
                                       /\ o1 \notin Up(parent, o2) /\ o2 \notin Up(parent, o1)
  BY ONLY TradeInv, p \in Player, q \in Player, <1>1, <1>2, <1>3, Bargain
<1>6. /\ parent' \in Parents /\ Rooted(parent')
      /\ \A k \in Item : \/ Up(parent', k) = Up(parent, k)
                         \/ o1 \in Item /\ k \in Within(parent, o1) /\ Root(parent', k, q)
                         \/ o2 \in Item /\ k \in Within(parent, o2) /\ Root(parent', k, p)
      /\ o1 \in Item /\ ~Stuck(o1) => Root(parent', o1, q)
      /\ o2 \in Item /\ ~Stuck(o2) => Root(parent', o2, p)
  BY ONLY TradeInv, p \in Player, q \in Player, <1>1, <1>2, <1>3, <1>4, Exchanged
<1>7. Rooted(parent)
  BY DEF TradeInv
<1>8. /\ o1 \in House => houseOwner'[o1] = q
      /\ o2 \in House => houseOwner'[o2] = p
  BY <1>1, <1>2, <1>3, <1>5 DEF NewOwner
\* Who has something in an offer above it is who made the offer.
<1>9. ASSUME NEW r \in Player, NEW o \in Item, Reaches(r, o), i \in Within(parent, o)
      PROVE  a = r
  <2>1. parent[o] # None /\ Up(parent, o) \cap Player \subseteq {r}
    BY <1>9, ReachesIs
  <2>2. PICK s : Root(parent, o, s)
    BY <2>1, <1>7 DEF Rooted
  <2>3. Up(parent, i) \subseteq Within(parent, o) \cup Up(parent, o)
    BY <1>9, WithinAbove
  <2>4. a \notin Within(parent, o)
    BY TradeAssumption DEF Within
  <2> QED
    BY <2>1, <2>3, <2>4
<1>10. CASE Up(parent', i) = Up(parent, i)
  BY <1>7, <1>10, OneCarries
<1>11. CASE o1 \in Item /\ i \in Within(parent, o1) /\ Root(parent', i, q)
  <2>1. a = p
    BY <1>5, <1>9, <1>11
  <2>2. b = q
    BY <1>11, TradeAssumption DEF Root
  <2>3. o2 \in Item /\ ~Stuck(o2) => p \in Above(o2)'
    BY <1>6, AboveIsUpPrimed DEF Root
  <2> QED
    BY <2>1, <2>2, <2>3, <1>2, <1>5, <1>8, <1>11 DEF Fair, Offer
<1>12. CASE o2 \in Item /\ i \in Within(parent, o2) /\ Root(parent', i, p)
  <2>1. a = q
    BY <1>5, <1>9, <1>12
  <2>2. b = p
    BY <1>12, TradeAssumption DEF Root
  <2>3. o1 \in Item /\ ~Stuck(o1) => q \in Above(o1)'
    BY <1>6, AboveIsUpPrimed DEF Root
  <2> QED
    BY <2>1, <2>2, <2>3, <1>1, <1>5, <1>8, <1>12 DEF Fair, Offer
<1> QED
  BY <1>6, <1>10, <1>11, <1>12

\* No other step passes anything from one player to another.
LEMMA MovePasses ==
  ASSUME TradeInv, NEW i \in Item, parent[i] # None, NEW d, d \notin Within(parent, i),
         parent' = [parent EXCEPT ![i] = d],
         NEW r \in Player, Up(parent, i) \cap Player \subseteq {r}, Onto(parent, d) \cap Player \subseteq {r},
         NEW a \in Player, NEW b \in Player, NEW j \in Item,
         a \in Up(parent, j), b \in Up(parent', j)
  PROVE  a = b
<1>1. PICK par : par = parent
  OBVIOUS
<1>2. PICK to : to = parent'
  OBVIOUS
<1>3. /\ Rooted(par) /\ (\A k \in Item : k # i => to[k] = par[k]) /\ to[i] = d /\ d \notin Within(par, i)
  BY <1>1, <1>2 DEF TradeInv, TypeOK
<1>4. CASE j \notin Within(par, i)
  <2>1. Up(to, j) = Up(par, j)
    BY <1>3, <1>4, OthersStay
  <2> QED
    BY <2>1, <1>1, <1>2, <1>3, OneCarries
<1>5. CASE j \in Within(par, i)
  <2>1. Up(to, j) = (Up(par, j) \cap Within(par, i)) \cup Onto(par, d)
    BY ONLY <1>3, <1>5, InsideStay, i \in Item
  <2>2. Up(par, j) \subseteq Within(par, i) \cup Up(par, i)
    BY <1>5, WithinAbove
  <2>3. a \notin Within(par, i) /\ b \notin Within(par, i)
    BY TradeAssumption DEF Within
  <2>4. a \in Up(par, i)
    BY <2>2, <2>3, <1>1
  <2>5. b \in Onto(par, d)
    BY <2>1, <2>3, <1>2
  <2> QED
    BY <2>4, <2>5, <1>1
<1> QED
  BY <1>4, <1>5

LEMMA FairStep ==
  ASSUME TradeInv, [Next]_vars,
         NEW a \in Player, NEW b \in Player, a # b, NEW j \in Item,
         a \in Up(parent, j), b \in Up(parent', j)
  PROVE  Fair(a, b, j)
<1>0. TypeOK /\ Rooted(parent)
  BY DEF TradeInv
<1>1. CASE parent' = parent
  BY <1>0, <1>1, OneCarries
<1>2. ASSUME NEW p \in Player, NEW i \in Item, NEW d \in Cylinder, MoveItem(p, i, d) PROVE FALSE
  <2>1. /\ parent' = [parent EXCEPT ![i] = d] /\ Reaches(p, i)
        /\ \/ d \in Cell
           \/ d = p
           \/ d \in Container /\ Reaches(p, d) /\ d # i /\ ~Holds(i, d)
    BY <1>2 DEF MoveItem
  <2>2. parent[i] # None /\ Up(parent, i) \cap Player \subseteq {p}
    BY <2>1, ReachesIs
  <2>3. d \notin Within(parent, i) /\ Onto(parent, d) \cap Player \subseteq {p}
    BY <2>1, TradeAssumption, HoldsIs, ReachesIs DEF Within, Onto
  <2>4. a = b
    BY ONLY <2>1, <2>2, <2>3, MovePasses, TradeInv, i \in Item, p \in Player, a \in Player, b \in Player,
            j \in Item, a \in Up(parent, j), b \in Up(parent', j)
  <2> QED
    BY <2>4
<1>3. ASSUME NEW i \in Item, RemoveItem(i) PROVE FALSE
  <2>1. parent' = [parent EXCEPT ![i] = None] /\ parent[i] # None /\ \A k \in Item : parent[k] # i
    BY <1>3 DEF RemoveItem, InWorld
  <2>2. None \notin Item /\ None \notin Player
    BY TradeAssumption
  <2>3. Within(parent, i) = {i}
    BY <2>1, EmptyHolds
  <2>4. None \notin Within(parent, i) /\ Onto(parent, None) \cap Player = {}
    BY <2>2, <2>3 DEF Onto
  <2>5. PICK r \in Player : Up(parent, i) \cap Player \subseteq {r}
    <3>1. \A p, q \in Up(parent, i) \cap Player : p = q
      BY <1>0, OneCarries
    <3>2. CASE Up(parent, i) \cap Player = {}
      BY <3>2
    <3>3. CASE Up(parent, i) \cap Player # {}
      BY <3>1, <3>3
    <3> QED
      BY <3>2, <3>3
  <2>6. a = b
    BY ONLY <2>1, <2>4, <2>5, MovePasses, TradeInv, i \in Item, a \in Player, b \in Player,
            j \in Item, a \in Up(parent, j), b \in Up(parent', j)
  <2> QED
    BY <2>6
<1>4. ASSUME NEW p \in Player, NEW q \in Player, TransferTrade(p, q) PROVE Fair(a, b, j)
  BY <1>4, TransferFair
<1>5. ASSUME World PROVE parent' = parent
  BY <1>2, <1>3, <1>5 DEF World, Walk, Logout, Login, TransformItem, WriteItem, worldVars
<1>6. ASSUME Trading PROVE parent' = parent \/ Fair(a, b, j)
  BY <1>4, <1>6 DEF Trading, AcceptFirst, CloseTrade, CrashTrade, CancelTrade, RequestTrade, SellHouse, worldVars
<1>7. ASSUME Housing PROVE parent' = parent
  BY <1>7 DEF Housing, BuyHouse, LeaveHouse, worldVars
<1>8. ASSUME UNCHANGED vars PROVE parent' = parent
  BY <1>8 DEF vars, worldVars
<1> QED
  BY <1>1, <1>5, <1>6, <1>7, <1>8 DEF Next

\* What a player carries gets into the hands of another only in a trade of the two, as
\* what was shown, and for the other's offer (game.cpp:2195-2330).
THEOREM ExchangeHolds == Spec => Exchange
<1>1. TradeInv /\ [Next]_vars =>
        [\A p, q \in Player, i \in Item :
            p # q /\ p \in Above(i) /\ q \in Above(i)' =>
              /\ tradePartner[p] = q
              /\ i \in shown[p]
              /\ \/ tradeItem[q] \in House /\ houseOwner'[tradeItem[q]] = p
                 \/ \E j \in Item : j = tradeItem[q] /\ (Stuck(j) \/ p \in Above(j)')]_vars
  <2> SUFFICES ASSUME TradeInv, [Next]_vars,
                      NEW p \in Player, NEW q \in Player, NEW i \in Item,
                      p # q, p \in Above(i), q \in Above(i)'
               PROVE  Fair(p, q, i)
    BY DEF Fair
  <2>1. p \in Up(parent, i) /\ q \in Up(parent', i)
    BY AboveIsUp, AboveIsUpPrimed
  <2> QED
    BY <2>1, FairStep
<1> QED
  BY <1>1, InvAlways, PTL DEF Spec, Exchange
=============================================================================
