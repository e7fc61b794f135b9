----------------------------- MODULE ZSetLemmas -----------------------------
(***************************************************************************)
(* What the operators of module ZSet return, for every finite sorted set:  *)
(* what each function of redis.rs does to the weights its scores stand     *)
(* for, when it is called as it expects, and what it leaves alone when it  *)
(* is not.                                                                 *)
(***************************************************************************)
EXTENDS ZSet, FiniteSetTheorems, TLAPS

(* A sorted set over finitely many integer-named members. *)
FiniteZSet(z) ==
    /\ IsFiniteSet(DOMAIN z)
    /\ DOMAIN z \subseteq Nat
    /\ z \in [DOMAIN z -> Int]

(* Every non-empty part of a finite sorted set has a highest score. *)
LEMMA HighestExists ==
    ASSUME NEW z, FiniteZSet(z), NEW S \in SUBSET DOMAIN z, S # {}
    PROVE  \E m \in S : \A k \in S : z[k] <= z[m]
<1> DEFINE Topped(T) == \E m \in T : \A k \in T : z[k] <= z[m]
           Bad == {T \in SUBSET S : T # {} /\ ~Topped(T)}
<1>1. SUFFICES ASSUME ~Topped(S) PROVE FALSE
  OBVIOUS
<1>2. IsFiniteSet(S)
  BY FS_Subset DEF FiniteZSet
<1>3. Bad \subseteq FiniteSubsetsOf(S) /\ Bad # {}
  BY <1>1, <1>2, FS_Subset DEF FiniteSubsetsOf
<1>4. IsWellFoundedOn(StrictSubsetOrdering(S), FiniteSubsetsOf(S))
  BY FS_StrictSubsetOrderingWellFounded
<1>5. PICK T \in Bad : \A U \in Bad : ~(<<U, T>> \in StrictSubsetOrdering(S))
  <2> HIDE DEF Bad
  <2> QED BY <1>3, <1>4, WFMin
<1>6. PICK x : x \in T
  BY <1>5
<1> DEFINE U == T \ {x}
<1>7. U \in SUBSET S /\ U # T
  BY <1>5, <1>6
<1>8. U \notin Bad
  BY <1>5, <1>7 DEF StrictSubsetOrdering
<1>9. \A m \in T : z[m] \in Int
  BY <1>5 DEF FiniteZSet
<1>10. CASE U = {}
  BY <1>5, <1>6, <1>9, <1>10
<1>11. CASE U # {}
  <2>1. PICK m \in U : \A k \in U : z[k] <= z[m]
    BY <1>7, <1>8, <1>11
  <2>2. CASE z[m] <= z[x]
    BY <2>1, <2>2, <1>5, <1>6, <1>9
  <2>3. CASE ~(z[m] <= z[x])
    BY <2>1, <2>3, <1>5, <1>6, <1>9
  <2> QED BY <2>2, <2>3
<1> QED BY <1>10, <1>11

(* TopScore is the score of a member, and no member scores more. *)
LEMMA TopScoreIsHighest ==
    ASSUME NEW z, FiniteZSet(z), NEW S \in SUBSET DOMAIN z, S # {}
    PROVE  /\ \E m \in S : TopScore(z, S) = z[m]
           /\ \A k \in S : z[k] <= TopScore(z, S)
           /\ TopScore(z, S) \in Int
<1> DEFINE R == {z[m] : m \in S}
<1>1. \E x \in R : \A y \in R : x >= y
  BY HighestExists DEF FiniteZSet
<1>2. Max(R) \in R /\ \A y \in R : Max(R) >= y
  BY <1>1 DEF Max
<1>3. TopScore(z, S) = Max(R)
  BY DEF TopScore
<1>4. \A m \in S : z[m] \in Int
  BY DEF FiniteZSet
<1> QED BY <1>2, <1>3, <1>4

---------------------------------------------------------------------------
(* t is the score on top of which n's own weight is added. *)
Floor(z, n, t) ==
    \/ Before(z, n) = {} /\ t = 0
    \/ \E k \in Before(z, n) : z[k] = t /\ \A j \in Before(z, n) : z[j] <= t

(* The weight of a member is its score less its floor, and there is one    *)
(* floor.                                                                  *)
LEMMA FloorGivesWeight ==
    ASSUME NEW z, FiniteZSet(z), NEW n \in DOMAIN z
    PROVE  /\ \E t \in Int : Floor(z, n, t) /\ WeightOf(z, n) = z[n] - t
           /\ \A t : Floor(z, n, t) => WeightOf(z, n) = z[n] - t
           /\ WeightOf(z, n) \in Int
<1> DEFINE B == Before(z, n)
           top == TopScore(z, B)
<1>1. B \in SUBSET DOMAIN z /\ \A m \in DOMAIN z : z[m] \in Int
  BY DEF Before, FiniteZSet
<1>2. Floor(z, n, top) /\ top \in Int
  <2>1. CASE B = {}
    BY <2>1 DEF Floor, TopScore
  <2>2. CASE B # {}
    BY <2>2, <1>1, TopScoreIsHighest DEF Floor
  <2> QED BY <2>1, <2>2
<1>3. \A t : Floor(z, n, t) => t = top
  <2>1. SUFFICES ASSUME NEW t, Floor(z, n, t) PROVE t = top
    OBVIOUS
  <2> QED BY <1>1, <1>2, <2>1 DEF Floor
<1> QED BY <1>1, <1>2, <1>3 DEF WeightOf

(* When no two members share a score, rank is the order of the scores. *)
LEMMA RankIsScoreOrder ==
    ASSUME NEW z, FiniteZSet(z), Cumulative(z),
           NEW m \in DOMAIN z, NEW n \in DOMAIN z
    PROVE  /\ Precedes(z, m, n) <=> z[m] < z[n]
           /\ m \in Before(z, n) <=> z[m] < z[n]
           /\ m \in After(z, n) <=> z[n] < z[m]
BY DEF FiniteZSet, Cumulative, Precedes, Before, After

(* Every member of a cumulative set has a positive weight. *)
LEMMA WeightsPositive ==
    ASSUME NEW z, FiniteZSet(z), Cumulative(z), NEW n \in DOMAIN z
    PROVE  WeightOf(z, n) \in Nat \ {0}
<1>1. PICK t \in Int : Floor(z, n, t) /\ WeightOf(z, n) = z[n] - t
  BY FloorGivesWeight
<1>2. t < z[n]
  <2>1. CASE Before(z, n) = {} /\ t = 0
    BY <2>1 DEF Cumulative, FiniteZSet
  <2>2. CASE \E k \in Before(z, n) : z[k] = t
    BY <2>2, RankIsScoreOrder DEF Before
  <2> QED BY <1>1, <2>1, <2>2 DEF Floor
<1> QED BY <1>1, <1>2 DEF FiniteZSet

---------------------------------------------------------------------------
(* There is a score to append to, also when the list is empty. *)
LEMMA LastScoreIsInt ==
    ASSUME NEW z, FiniteZSet(z) PROVE LastScore(z) \in Int
<1>1. CASE DOMAIN z = {}
  BY <1>1 DEF LastScore, TopScore
<1>2. CASE DOMAIN z # {}
  BY <1>2, TopScoreIsHighest DEF LastScore
<1> QED BY <1>1, <1>2

(* Whatever weight a function of redis.rs is called with, it leaves a      *)
(* sorted set, with no member that is neither old nor the one it is for.   *)
LEMMA ListsKeepType ==
    ASSUME NEW N, N \subseteq Nat, IsFiniteSet(N),
           NEW z, IsZSet(z, N), NEW n \in N, NEW w \in Int
    PROVE  /\ IsZSet(NodesJoin(z, n, w), N)
           /\ DOMAIN NodesJoin(z, n, w) = DOMAIN z \cup {n}
           /\ IsZSet(NodesUpjoin(z, n, w), N)
           /\ DOMAIN NodesUpjoin(z, n, w) = DOMAIN z \cup {n}
           /\ IsZSet(NodeLefts(z, n, w), N)
           /\ DOMAIN NodeLefts(z, n, w) \subseteq DOMAIN z
<1>1. FiniteZSet(z)
  BY FS_Subset DEF IsZSet, FiniteZSet
<1>2. LastScore(z) \in Int
  BY <1>1, LastScoreIsInt
<1>3. \A m \in DOMAIN z : z[m] \in Int
  BY DEF IsZSet
<1>4. /\ IsZSet(NodesJoin(z, n, w), N)
      /\ DOMAIN NodesJoin(z, n, w) = DOMAIN z \cup {n}
  BY <1>2, <1>3 DEF NodesJoin, ZAdd, IsZSet
<1>5. /\ IsZSet(NodesUpjoin(z, n, w), N)
      /\ DOMAIN NodesUpjoin(z, n, w) = DOMAIN z \cup {n}
  <2>1. CASE n \in DOMAIN z
    <3>1. WeightOf(z, n) \in Int
      BY <1>1, <2>1, FloorGivesWeight
    <3>2. ASSUME NEW S, NEW delta \in Int
          PROVE  DOMAIN Shift(z, S, delta) = DOMAIN z /\ IsZSet(Shift(z, S, delta), N)
      BY <1>3 DEF Shift, IsZSet
    <3>3. NodesUpjoin(z, n, w) = Shift(z, {n} \cup After(z, n), w - WeightOf(z, n))
      BY <2>1 DEF NodesUpjoin
    <3>4. w - WeightOf(z, n) \in Int
      BY <3>1
    <3>5. DOMAIN z = DOMAIN z \cup {n}
      BY <2>1
    <3> QED BY <3>2, <3>3, <3>4, <3>5
  <2>2. CASE n \notin DOMAIN z
    BY <1>4, <2>2 DEF NodesUpjoin
  <2> QED BY <2>1, <2>2
<1>6. /\ IsZSet(NodeLefts(z, n, w), N)
      /\ DOMAIN NodeLefts(z, n, w) \subseteq DOMAIN z
  BY <1>3 DEF NodeLefts, ZRem, Shift, IsZSet
<1> QED BY <1>4, <1>5, <1>6

(* nodes_join of a node that is no member gives it the weight asked for    *)
(* and leaves the others' weights alone.                                   *)
LEMMA NodesJoinAppends ==
    ASSUME NEW z, FiniteZSet(z), Cumulative(z),
           NEW n \in Nat, n \notin DOMAIN z, NEW w \in Nat \ {0}
    PROVE  /\ FiniteZSet(NodesJoin(z, n, w))
           /\ Cumulative(NodesJoin(z, n, w))
           /\ \A m \in DOMAIN z : NodesJoin(z, n, w)[m] = z[m]
           /\ Weights(NodesJoin(z, n, w)) =
                 [m \in DOMAIN z \cup {n} |->
                     IF m = n THEN w ELSE Weights(z)[m]]
<1> DEFINE y == NodesJoin(z, n, w)
           last == LastScore(z)
<1>1. last \in Int /\ last >= 0 /\ \A m \in DOMAIN z : z[m] <= last
  <2>1. CASE DOMAIN z = {}
    BY <2>1 DEF LastScore, TopScore
  <2>2. CASE DOMAIN z # {}
    BY <2>2, TopScoreIsHighest DEF LastScore, Cumulative, FiniteZSet
  <2> QED BY <2>1, <2>2
<1>2. DOMAIN y = DOMAIN z \cup {n} /\ y[n] = last + w
        /\ \A m \in DOMAIN z : y[m] = z[m] /\ y[m] \in Int
  BY DEF NodesJoin, ZAdd, FiniteZSet
<1>3. FiniteZSet(y)
  <2>1. IsFiniteSet(DOMAIN z \cup {n})
    BY FS_AddElement DEF FiniteZSet
  <2>2. y \in [DOMAIN z \cup {n} -> Int]
    BY <1>1 DEF NodesJoin, ZAdd, FiniteZSet
  <2> QED BY <1>2, <2>1, <2>2 DEF FiniteZSet
<1>4. Cumulative(y)
  BY <1>1, <1>2 DEF Cumulative, FiniteZSet
<1>5. WeightOf(y, n) = w
  <2>1. Before(y, n) = DOMAIN z
    BY <1>1, <1>2 DEF Before, Precedes, FiniteZSet
  <2>2. Floor(y, n, last)
    <3>1. CASE DOMAIN z = {}
      BY <3>1, <2>1 DEF Floor, LastScore, TopScore
    <3>2. CASE DOMAIN z # {}
      BY <3>2, <1>2, <2>1, TopScoreIsHighest DEF Floor, LastScore
    <3> QED BY <3>1, <3>2
  <2> QED BY <1>1, <1>2, <1>3, <2>2, FloorGivesWeight
<1>6. ASSUME NEW m \in DOMAIN z PROVE WeightOf(y, m) = WeightOf(z, m)
  <2>1. Before(y, m) = Before(z, m)
    BY <1>1, <1>2 DEF Before, Precedes, FiniteZSet
  <2>2. PICK t \in Int : Floor(z, m, t) /\ WeightOf(z, m) = z[m] - t
    BY FloorGivesWeight
  <2>3. Floor(y, m, t)
    BY <1>2, <2>1, <2>2 DEF Floor, Before
  <2> QED BY <1>2, <1>3, <2>2, <2>3, FloorGivesWeight
<1> QED BY <1>2, <1>3, <1>4, <1>5, <1>6 DEF Weights

(* nodes_upjoin of a member changes its weight to the one asked for and    *)
(* leaves the others' weights alone: the followers move with the node.     *)
LEMMA NodesUpjoinMoves ==
    ASSUME NEW z, FiniteZSet(z), Cumulative(z),
           NEW n \in DOMAIN z, NEW w \in Nat \ {0}
    PROVE  LET y == NodesUpjoin(z, n, w)
           IN  /\ FiniteZSet(y)
               /\ Cumulative(y)
               /\ \A m, k \in DOMAIN z : y[m] < y[k] <=> z[m] < z[k]
               /\ Weights(y) = [m \in DOMAIN z |->
                                   IF m = n THEN w ELSE Weights(z)[m]]
<1> DEFINE y == NodesUpjoin(z, n, w)
           old == WeightOf(z, n)
           floor == z[n] - old
<1>1. /\ old \in Int /\ old > 0
      /\ floor \in Int /\ floor >= 0 /\ Floor(z, n, floor)
  <2>1. PICK t \in Int : Floor(z, n, t) /\ WeightOf(z, n) = z[n] - t
    BY FloorGivesWeight
  <2>2. t = floor
    BY <2>1 DEF FiniteZSet
  <2>3. t >= 0
    BY <2>1 DEF Floor, Cumulative, Before
  <2> QED BY <2>1, <2>2, <2>3, WeightsPositive
<1>2. \A m \in DOMAIN z : z[m] \in Int
  BY DEF FiniteZSet
<1>3. DOMAIN y = DOMAIN z
  BY DEF NodesUpjoin, Shift
<1>4. \A m \in DOMAIN z :
         y[m] = IF z[m] < z[n] THEN z[m] ELSE z[m] + (w - old)
  <2>1. \A m \in DOMAIN z : m \in {n} \cup After(z, n) <=> ~(z[m] < z[n])
    BY <1>2, RankIsScoreOrder DEF Cumulative
  <2> QED BY <2>1 DEF NodesUpjoin, Shift
<1>5. \A m \in DOMAIN z : z[m] < z[n] => z[m] <= floor
  BY <1>1, <1>2, RankIsScoreOrder DEF Floor
<1> HIDE DEF y, old, floor
<1>6. floor = z[n] - old
  BY DEF floor
<1>7. FiniteZSet(y)
  <2>1. y \in [DOMAIN y -> Int]
    BY <1>1, <1>2, <1>3 DEF y, NodesUpjoin, Shift, old
  <2> QED BY <1>3, <2>1 DEF FiniteZSet
<1>8. \A m, k \in DOMAIN z : y[m] < y[k] <=> z[m] < z[k]
  BY <1>1, <1>2, <1>4, <1>5, <1>6
<1>9. Cumulative(y)
  <2>1. \A m \in DOMAIN y : y[m] > 0
    BY <1>1, <1>2, <1>3, <1>4, <1>6 DEF Cumulative
  <2>2. \A m, k \in DOMAIN y : m # k => y[m] # y[k]
    BY <1>2, <1>3, <1>7, <1>8 DEF Cumulative, FiniteZSet
  <2> QED BY <2>1, <2>2 DEF Cumulative
<1>10. \A m \in DOMAIN z : Before(y, m) = Before(z, m)
  BY <1>3, <1>7, <1>8, <1>9, RankIsScoreOrder DEF Before
<1>11. WeightOf(y, n) = w
  <2>1. Floor(y, n, floor)
    <3>1. \A j \in Before(z, n) : y[j] = z[j]
      BY <1>4, RankIsScoreOrder DEF Before
    <3> QED BY <3>1, <1>1, <1>10 DEF Floor
  <2>2. y[n] - floor = w
    BY <1>1, <1>2, <1>4, <1>6
  <2> QED BY <2>1, <2>2, <1>3, <1>7, FloorGivesWeight
<1>12. ASSUME NEW m \in DOMAIN z, m # n PROVE WeightOf(y, m) = WeightOf(z, m)
  <2>1. PICK t \in Int : Floor(z, m, t) /\ WeightOf(z, m) = z[m] - t
    BY FloorGivesWeight
  <2>2. CASE z[m] < z[n]
    <3>1. \A k \in Before(z, m) : y[k] = z[k]
      BY <2>2, <1>2, <1>4, RankIsScoreOrder DEF Before
    <3>2. Floor(y, m, t)
      BY <3>1, <2>1, <1>10 DEF Floor
    <3> QED BY <3>2, <2>1, <2>2, <1>3, <1>4, <1>7, FloorGivesWeight
  <2>3. CASE z[n] < z[m]
    <3>1. n \in Before(z, m)
      BY <2>3, RankIsScoreOrder
    <3>2. PICK k \in Before(z, m) : z[k] = t /\ \A j \in Before(z, m) : z[j] <= t
      BY <3>1, <2>1 DEF Floor
    <3>3. k \in DOMAIN z /\ y[k] = t + (w - old)
      BY <3>1, <3>2, <1>2, <1>4 DEF Before
    <3>4. \A j \in Before(z, m) : y[j] <= y[k]
      BY <3>2, <3>3, <1>2, <1>3, <1>7, <1>8 DEF Before, FiniteZSet
    <3>5. Floor(y, m, t + (w - old))
      BY <3>2, <3>3, <3>4, <1>10 DEF Floor
    <3>6. y[m] - (t + (w - old)) = z[m] - t
      BY <2>1, <2>3, <1>1, <1>2, <1>4
    <3> QED BY <3>5, <3>6, <2>1, <1>1, <1>3, <1>7, FloorGivesWeight
  <2> QED BY <2>2, <2>3, <1>2, <1>12 DEF Cumulative
<1>13. Weights(y) = [m \in DOMAIN z |-> IF m = n THEN w ELSE Weights(z)[m]]
  BY <1>3, <1>11, <1>12 DEF Weights
<1> QED BY <1>7, <1>8, <1>9, <1>13 DEF y

(* node_lefts, told the member's weight, removes it and leaves the others' *)
(* weights alone: the followers close the gap of scores it leaves.         *)
LEMMA NodeLeftsRemoves ==
    ASSUME NEW z, FiniteZSet(z), Cumulative(z), NEW n \in DOMAIN z
    PROVE  LET y == NodeLefts(z, n, WeightOf(z, n))
           IN  /\ FiniteZSet(y)
               /\ Cumulative(y)
               /\ \A m, k \in DOMAIN z \ {n} : y[m] < y[k] <=> z[m] < z[k]
               /\ Weights(y) = [m \in DOMAIN z \ {n} |-> Weights(z)[m]]
<1> DEFINE w == WeightOf(z, n)
           y == NodeLefts(z, n, w)
           floor == z[n] - w
<1>1. /\ w \in Int /\ w > 0
      /\ floor \in Int /\ floor >= 0 /\ Floor(z, n, floor)
  <2>1. PICK t \in Int : Floor(z, n, t) /\ WeightOf(z, n) = z[n] - t
    BY FloorGivesWeight
  <2>2. t = floor
    BY <2>1 DEF FiniteZSet
  <2>3. t >= 0
    BY <2>1 DEF Floor, Cumulative, Before
  <2> QED BY <2>1, <2>2, <2>3, WeightsPositive
<1>2. \A m \in DOMAIN z : z[m] \in Int
  BY DEF FiniteZSet
<1>3. DOMAIN y = DOMAIN z \ {n}
  BY DEF NodeLefts, ZRem, Shift
<1>4. \A m \in DOMAIN y : y[m] = IF z[n] < z[m] THEN z[m] - w ELSE z[m]
  BY RankIsScoreOrder DEF NodeLefts, ZRem, Shift
<1>5. \A m \in DOMAIN y : z[m] < z[n] => z[m] <= floor
  BY <1>1, <1>2, <1>3, RankIsScoreOrder DEF Floor
<1>6. \A m \in DOMAIN y : z[m] < z[n] \/ z[n] < z[m]
  BY <1>2, <1>3 DEF Cumulative
<1> HIDE DEF y, w, floor
<1>7. floor = z[n] - w
  BY DEF floor
<1>8. FiniteZSet(y)
  <2>1. IsFiniteSet(DOMAIN y)
    BY <1>3, FS_RemoveElement DEF FiniteZSet
  <2>2. y \in [DOMAIN y -> Int]
    BY <1>1, <1>2, <1>3 DEF y, NodeLefts, ZRem, Shift
  <2> QED BY <1>3, <2>1, <2>2 DEF FiniteZSet
<1>9. \A m, k \in DOMAIN y : y[m] < y[k] <=> z[m] < z[k]
  BY <1>1, <1>2, <1>3, <1>4, <1>5, <1>6, <1>7
<1>10. Cumulative(y)
  <2>1. \A m \in DOMAIN y : y[m] > 0
    BY <1>1, <1>2, <1>3, <1>4, <1>7 DEF Cumulative
  <2>2. \A m, k \in DOMAIN y : m # k => y[m] # y[k]
    BY <1>2, <1>3, <1>8, <1>9 DEF Cumulative, FiniteZSet
  <2> QED BY <2>1, <2>2 DEF Cumulative
<1>11. \A m \in DOMAIN y : Before(y, m) = Before(z, m) \ {n}
  BY <1>3, <1>8, <1>9, <1>10, RankIsScoreOrder DEF Before
<1>12. ASSUME NEW m \in DOMAIN y PROVE WeightOf(y, m) = WeightOf(z, m)
  <2>1. PICK t \in Int : Floor(z, m, t) /\ WeightOf(z, m) = z[m] - t
    BY <1>3, FloorGivesWeight
  <2>2. CASE z[m] < z[n]
    <3>1. n \notin Before(z, m)
      BY <2>2, <1>2, <1>3, RankIsScoreOrder
    <3>2. \A k \in Before(z, m) : k \in DOMAIN y /\ y[k] = z[k]
      BY <3>1, <2>2, <1>2, <1>3, <1>4, RankIsScoreOrder DEF Before
    <3>3. Floor(y, m, t)
      BY <3>1, <3>2, <2>1, <1>11 DEF Floor
    <3>4. y[m] = z[m]
      BY <2>2, <1>2, <1>3, <1>4
    <3> QED BY <3>3, <3>4, <2>1, <1>8, FloorGivesWeight
  <2>3. CASE z[n] < z[m]
    <3>1. n \in Before(z, m) /\ y[m] = z[m] - w
      BY <2>3, <1>3, <1>4, RankIsScoreOrder
    <3>2. PICK k \in Before(z, m) : z[k] = t /\ \A j \in Before(z, m) : z[j] <= t
      BY <3>1, <2>1 DEF Floor
    <3>3. CASE k = n
      <4>1. Before(y, m) = Before(z, n)
        BY <3>1, <3>2, <3>3, <2>3, <1>2, <1>3, <1>6, <1>11, RankIsScoreOrder
           DEF Before
      <4>2. \A j \in Before(z, n) : j \in DOMAIN y /\ y[j] = z[j]
        BY <1>2, <1>3, <1>4, RankIsScoreOrder DEF Before
      <4>3. Floor(y, m, floor)
        BY <4>1, <4>2, <1>1 DEF Floor
      <4>4. y[m] - floor = z[m] - t
        BY <3>1, <3>2, <3>3, <1>1, <1>2, <1>3, <1>7
      <4> QED BY <4>3, <4>4, <2>1, <1>1, <1>8, FloorGivesWeight
    <3>4. CASE k # n
      <4>1. k \in DOMAIN y /\ k \in Before(y, m) /\ z[n] < z[k]
        BY <3>1, <3>2, <3>4, <1>2, <1>3, <1>6, <1>11 DEF Before
      <4>2. y[k] = t - w
        BY <4>1, <3>2, <1>4
      <4>3. \A j \in Before(y, m) : y[j] <= t - w
        BY <4>1, <4>2, <3>2, <1>2, <1>3, <1>8, <1>9, <1>11, <2>1, <1>1
           DEF Before, FiniteZSet
      <4>4. Floor(y, m, t - w)
        BY <4>1, <4>2, <4>3 DEF Floor
      <4> QED BY <4>4, <3>1, <2>1, <1>1, <1>2, <1>3, <1>8, FloorGivesWeight
    <3> QED BY <3>3, <3>4
  <2> QED BY <2>2, <2>3, <1>6
<1> QED BY <1>3, <1>8, <1>9, <1>10, <1>12 DEF Weights, y, w

---------------------------------------------------------------------------
(* A part of a list that ranks before the rest: what the functions of      *)
(* redis.rs do to it when they are not called as they expect, but for      *)
(* nodes of the rest.                                                      *)
Part(z, P) == [m \in DOMAIN z \cap P |-> z[m]]

Leads(z, P) == \A p \in DOMAIN z \cap P, m \in DOMAIN z \ P : z[p] < z[m]

LEMMA PartIsZSet ==
    ASSUME NEW z, FiniteZSet(z), NEW P \in SUBSET Nat
    PROVE  FiniteZSet(Part(z, P))
<1>1. IsFiniteSet(DOMAIN z \cap P) /\ DOMAIN Part(z, P) = DOMAIN z \cap P
  BY FS_Subset DEF FiniteZSet, Part
<1> QED BY <1>1 DEF FiniteZSet, Part

(* nodes_join puts a node above all others, wherever it was.  y is the     *)
(* list afterwards.                                                        *)
JoinsRear(z, P, n, y) ==
    /\ DOMAIN y = DOMAIN z \cup {n}
    /\ Part(y, P) = Part(z, P)
    /\ \A m \in DOMAIN z : y[m] >= z[m]

LEMMA JoinLeavesPart ==
    ASSUME NEW z, FiniteZSet(z), NEW P \in SUBSET Nat,
           NEW n \in Nat, n \notin P, NEW w \in Nat \ {0}
    PROVE  JoinsRear(z, P, n, NodesJoin(z, n, w))
<1> DEFINE y == NodesJoin(z, n, w)
<1>1. LastScore(z) \in Int /\ \A m \in DOMAIN z : z[m] \in Int /\ z[m] <= LastScore(z)
  BY LastScoreIsInt, TopScoreIsHighest DEF LastScore, FiniteZSet
<1>2. /\ DOMAIN y = DOMAIN z \cup {n}
      /\ \A m \in DOMAIN z \cup {n} : y[m] = IF m = n THEN LastScore(z) + w ELSE z[m]
  BY DEF NodesJoin, ZAdd
<1>3. Part(y, P) = Part(z, P)
  BY <1>2 DEF Part
<1> HIDE DEF y
<1>4. \A m \in DOMAIN z : y[m] >= z[m]
  BY <1>1, <1>2
<1>5. JoinsRear(z, P, n, y)
  BY <1>2, <1>3, <1>4 DEF JoinsRear
<1> QED BY <1>5 DEF y

(* node_lefts of a node behind the part, told any weight, leaves the part  *)
(* alone.                                                                  *)
LeavesRear(z, P, n, w, y) ==
    /\ DOMAIN y = DOMAIN z \ {n}
    /\ Part(y, P) = Part(z, P)
    /\ \A m \in DOMAIN z \ {n} : y[m] >= z[m] - w

LEMMA LeftLeavesPart ==
    ASSUME NEW z, FiniteZSet(z), NEW P \in SUBSET Nat, Leads(z, P),
           NEW n \in Nat, n \in DOMAIN z, n \notin P, NEW w \in Nat
    PROVE  LeavesRear(z, P, n, w, NodeLefts(z, n, w))
<1> DEFINE y == NodeLefts(z, n, w)
<1>1. /\ DOMAIN y = DOMAIN z \ {n}
      /\ \A m \in DOMAIN z \ {n} : y[m] = IF m \in After(z, n) THEN z[m] + (-w) ELSE z[m]
  BY DEF NodeLefts, ZRem, Shift
<1>2. \A m \in DOMAIN z : z[m] \in Int
  BY DEF FiniteZSet
<1>3. \A p \in DOMAIN z \cap P : p \notin After(z, n)
  BY <1>2 DEF Leads, After, Precedes
<1> HIDE DEF y
<1>4. Part(y, P) = Part(z, P)
  BY <1>1, <1>3 DEF Part
<1>5. \A m \in DOMAIN z \ {n} : y[m] >= z[m] - w
  BY <1>1, <1>2
<1>6. LeavesRear(z, P, n, w, y)
  BY <1>1, <1>4, <1>5 DEF LeavesRear
<1> QED BY <1>6 DEF y

(* node_lefts of a node of the part does to it what it would do without    *)
(* the rest, which follows.                                                *)
ClosesUp(z, P, n, w, y) ==
    /\ DOMAIN y = DOMAIN z \ {n}
    /\ Part(y, P) = NodeLefts(Part(z, P), n, w)
    /\ \A m \in DOMAIN z : m \notin P => y[m] = z[m] - w
    /\ \A m \in DOMAIN z : m # n => y[m] = z[m] - w \/ (y[m] = z[m] /\ z[m] <= z[n])

LEMMA LeftOfPart ==
    ASSUME NEW z, FiniteZSet(z), NEW P \in SUBSET Nat, Leads(z, P),
           NEW n \in Nat, n \in DOMAIN z, n \in P, NEW w \in Nat
    PROVE  ClosesUp(z, P, n, w, NodeLefts(z, n, w))
<1> DEFINE y == NodeLefts(z, n, w)
           K == Part(z, P)
           k == NodeLefts(K, n, w)
<1>1. /\ DOMAIN y = DOMAIN z \ {n}
      /\ \A m \in DOMAIN z \ {n} : y[m] = IF m \in After(z, n) THEN z[m] + (-w) ELSE z[m]
  BY DEF NodeLefts, ZRem, Shift
<1>2. \A m \in DOMAIN z : z[m] \in Int
  BY DEF FiniteZSet
<1>3. \A m \in DOMAIN z \ P : m \in After(z, n)
  BY <1>2 DEF Leads, After, Precedes
<1>4. \A p \in DOMAIN z : p \in After(z, n) \/ z[p] <= z[n]
  BY <1>2 DEF After, Precedes
<1>5. DOMAIN K = DOMAIN z \cap P /\ \A p \in DOMAIN z \cap P : K[p] = z[p]
  BY DEF Part
<1>6. \A p \in DOMAIN K : p \in After(K, n) <=> p \in After(z, n)
  BY <1>5 DEF After, Precedes
<1>7. k = [m \in DOMAIN K \ {n} |-> IF m \in After(K, n) THEN K[m] + (-w) ELSE K[m]]
  BY <1>5 DEF NodeLefts, ZRem, Shift
<1>8. Part(y, P) = [m \in (DOMAIN z \ {n}) \cap P |-> y[m]]
  BY <1>1 DEF Part
<1> HIDE DEF y, K, k
<1>9. Part(y, P) = k
  BY <1>1, <1>5, <1>6, <1>7, <1>8
<1> QED BY <1>1, <1>2, <1>3, <1>4, <1>9 DEF ClosesUp, y, K, k

(* In a part that leads, members weigh what they weigh in the whole list.  *)
LEMMA PartWeighs ==
    ASSUME NEW z, FiniteZSet(z), NEW P \in SUBSET Nat, Leads(z, P), NEW n \in DOMAIN z \cap P
    PROVE  WeightOf(Part(z, P), n) = WeightOf(z, n)
<1> DEFINE K == Part(z, P)
           B == Before(z, n)
<1>1. DOMAIN K = DOMAIN z \cap P /\ \A m \in DOMAIN z \cap P : K[m] = z[m]
  BY DEF Part
<1>2. \A m \in B : m \in DOMAIN z \cap P
  BY DEF Before, Precedes, Leads, FiniteZSet
<1>3. Before(K, n) = B
  BY <1>1, <1>2 DEF Before, Precedes
<1>4. {K[m] : m \in B} = {z[m] : m \in B}
  BY <1>1, <1>2
<1> HIDE DEF K, B
<1> QED BY <1>1, <1>3, <1>4 DEF WeightOf, TopScore, B, K

(* A member's weight is at most its distance from any member before it. *)
LEMMA WeightsFit ==
    ASSUME NEW z, FiniteZSet(z), Cumulative(z),
           NEW m \in DOMAIN z, NEW n \in DOMAIN z, z[m] < z[n]
    PROVE  z[n] - WeightOf(z, n) >= z[m]
<1>1. PICK t \in Int : Floor(z, n, t) /\ WeightOf(z, n) = z[n] - t
  BY FloorGivesWeight
<1>2. m \in Before(z, n)
  BY RankIsScoreOrder
<1> QED BY <1>1, <1>2 DEF Floor, FiniteZSet
=============================================================================
