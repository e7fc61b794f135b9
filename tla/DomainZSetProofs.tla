-------------------------- MODULE DomainZSetProofs --------------------------
(***************************************************************************)
(* For any finite set of nodes and any positive weights, the sorted set of *)
(* a domain keeps its shape and implements DomainWeights.                  *)
(***************************************************************************)
EXTENDS DomainZSet, ZSetLemmas

(* The inductive invariant.  Cumulative alone is not inductive: it says    *)
(* nothing of a sorted set whose members are infinite or not ordered.      *)
IInv == FiniteZSet(zset) /\ TypeOK /\ ScoresCumulative

LEMMA InitIInv ==
    Init => IInv
<1> SUFFICES ASSUME Init PROVE IInv
  OBVIOUS
<1>1. DOMAIN zset = {} /\ zset = [m \in {} |-> 0]
  BY DEF Init, EmptyZSet
<1>2. FiniteZSet(zset)
  BY <1>1, FS_EmptySet DEF FiniteZSet
<1> QED BY <1>1, <1>2 DEF IInv, TypeOK, IsZSet, ScoresCumulative, Cumulative, FiniteZSet

(* What a step does to the weights, and that it keeps the invariant and    *)
(* the order of the members that stay.                                     *)
Preserved ==
    /\ IInv'
    /\ DW!Next
    /\ \A m, n \in DOMAIN zset \cap DOMAIN zset' :
          zset'[m] < zset'[n] <=> zset[m] < zset[n]

LEMMA JoinPreserves ==
    ASSUME IInv, NEW n \in Node, NEW w \in Weight,
           n \notin DOMAIN zset, zset' = NodesJoin(zset, n, w)
    PROVE  Preserved
<1>1. n \in Nat /\ w \in Nat \ {0}
  BY NodeAssumption, WeightAssumption
<1>2. /\ FiniteZSet(zset') /\ Cumulative(zset')
      /\ \A m \in DOMAIN zset : zset'[m] = zset[m]
      /\ Weights(zset') = [m \in DOMAIN zset \cup {n} |->
                              IF m = n THEN w ELSE Weights(zset)[m]]
  BY <1>1, NodesJoinAppends DEF IInv, ScoresCumulative
<1>3. DOMAIN Weights(zset) = DOMAIN zset
  BY DEF Weights
<1>4. DOMAIN zset' = DOMAIN zset \cup {n}
  BY DEF NodesJoin, ZAdd
<1>5. IInv'
  BY <1>2, <1>4 DEF IInv, TypeOK, IsZSet, ScoresCumulative, FiniteZSet
<1>6. DW!Next
  <2>1. DW!Set(n, w)
    BY <1>2, <1>3 DEF DW!Set
  <2> QED BY <2>1 DEF DW!Next
<1> QED BY <1>2, <1>5, <1>6 DEF Preserved

LEMMA UpjoinPreserves ==
    ASSUME IInv, NEW n \in Node, NEW w \in Weight, n \in DOMAIN zset,
           zset' = NodesUpjoin(zset, n, w)
    PROVE  Preserved
<1>1. w \in Nat \ {0}
  BY WeightAssumption
<1>2. /\ FiniteZSet(zset') /\ Cumulative(zset')
      /\ \A m, k \in DOMAIN zset : zset'[m] < zset'[k] <=> zset[m] < zset[k]
      /\ Weights(zset') = [m \in DOMAIN zset |->
                              IF m = n THEN w ELSE Weights(zset)[m]]
  BY <1>1, NodesUpjoinMoves DEF IInv, ScoresCumulative
<1>3. DOMAIN Weights(zset) = DOMAIN zset /\ DOMAIN zset = DOMAIN zset \cup {n}
  BY DEF Weights
<1>4. DOMAIN zset' = DOMAIN zset
  BY DEF NodesUpjoin, Shift
<1>5. IInv'
  BY <1>2, <1>4 DEF IInv, TypeOK, IsZSet, ScoresCumulative, FiniteZSet
<1>6. DW!Next
  <2>1. DW!Set(n, w)
    BY <1>2, <1>3 DEF DW!Set
  <2> QED BY <2>1 DEF DW!Next
<1> QED BY <1>2, <1>4, <1>5, <1>6 DEF Preserved

LEMMA LeftPreserves ==
    ASSUME IInv, NEW n \in Node, Left(n)
    PROVE  Preserved
<1>1. n \in DOMAIN zset /\ zset' = NodeLefts(zset, n, WeightOf(zset, n))
  BY DEF Left
<1>2. /\ FiniteZSet(zset') /\ Cumulative(zset')
      /\ \A m, k \in DOMAIN zset \ {n} :
            zset'[m] < zset'[k] <=> zset[m] < zset[k]
      /\ Weights(zset') = [m \in DOMAIN zset \ {n} |-> Weights(zset)[m]]
  BY <1>1, NodeLeftsRemoves DEF IInv, ScoresCumulative
<1>3. DOMAIN Weights(zset) = DOMAIN zset
  BY DEF Weights
<1>4. DOMAIN zset' = DOMAIN zset \ {n}
  BY <1>1 DEF NodeLefts, ZRem, Shift
<1>5. IInv'
  BY <1>2, <1>4 DEF IInv, TypeOK, IsZSet, ScoresCumulative, FiniteZSet
<1>6. DW!Next
  <2>1. DW!Drop(n)
    BY <1>2, <1>3 DEF DW!Drop
  <2> QED BY <2>1 DEF DW!Next
<1> QED BY <1>2, <1>4, <1>5, <1>6 DEF Preserved

LEMMA NextPreserves ==
    ASSUME IInv, Next
    PROVE  Preserved
<1>1. CASE \E n \in Node : Left(n)
  BY <1>1, LeftPreserves
<1>2. ASSUME NEW n \in Node, NEW w \in Weight, Join(n, w)
      PROVE  Preserved
  BY <1>2, JoinPreserves DEF Join
<1>3. ASSUME NEW n \in Node, NEW w \in Weight, Upjoin(n, w)
      PROVE  Preserved
  <2>1. CASE n \in DOMAIN zset
    BY <1>3, <2>1, UpjoinPreserves DEF Upjoin
  <2>2. CASE n \notin DOMAIN zset
    BY <1>3, <2>2, JoinPreserves DEF Upjoin, NodesUpjoin
  <2> QED BY <2>1, <2>2
<1> QED BY <1>1, <1>2, <1>3 DEF Next

LEMMA Inductive ==
    Spec => []IInv
<1>1. IInv /\ [Next]_zset => IInv'
  <2>1. CASE Next
    BY <2>1, NextPreserves DEF Preserved
  <2>2. CASE UNCHANGED zset
    BY <2>2 DEF IInv, FiniteZSet, TypeOK, IsZSet, ScoresCumulative, Cumulative
  <2> QED BY <2>1, <2>2
<1> QED BY <1>1, InitIInv, PTL DEF Spec

---------------------------------------------------------------------------
(* Every operation of redis.rs leaves a sorted set of nodes. *)
THEOREM TypeCorrect ==
    Spec => []TypeOK
BY Inductive, PTL DEF IInv

(* No operation of redis.rs lets two members share a score or a score drop *)
(* to 0, so that every member keeps a share.                               *)
THEOREM ScoresStayCumulative ==
    Spec => []ScoresCumulative
BY Inductive, PTL DEF IInv

(* No operation of redis.rs reorders the members that stay. *)
THEOREM RankOrderIsKept ==
    Spec => RankOrderKept
<1>1. IInv /\ [Next]_zset =>
         [\A m, n \in DOMAIN zset \cap DOMAIN zset' :
             Precedes(zset, m, n) <=> Precedes(zset', m, n)]_zset
  <2> SUFFICES ASSUME IInv, Next,
                      NEW m \in DOMAIN zset \cap DOMAIN zset',
                      NEW n \in DOMAIN zset \cap DOMAIN zset'
               PROVE  Precedes(zset, m, n) <=> Precedes(zset', m, n)
    OBVIOUS
  <2>1. Preserved
    BY NextPreserves
  <2>2. Precedes(zset, m, n) <=> zset[m] < zset[n]
    BY RankIsScoreOrder DEF IInv, ScoresCumulative
  <2>3. Precedes(zset', m, n) <=> zset'[m] < zset'[n]
    BY <2>1, RankIsScoreOrder DEF Preserved, IInv, ScoresCumulative
  <2> QED BY <2>1, <2>2, <2>3 DEF Preserved
<1> QED BY <1>1, Inductive, PTL DEF Spec, RankOrderKept

(* The scores of redis.rs implement a map of weights: each operation sets  *)
(* or removes the weight of its own node and of no other.                  *)
THEOREM WeightsImplemented ==
    Spec => ImplementsWeights
<1>1. Init => DW!Init
  BY DEF Init, DW!Init, EmptyZSet, Weights
<1>2. IInv /\ [Next]_zset => [DW!Next]_(Weights(zset))
  BY NextPreserves DEF Preserved
<1> QED BY <1>1, <1>2, Inductive, PTL DEF Spec, DW!Spec, ImplementsWeights
=============================================================================
