----------------------------- MODULE DomainZSet -----------------------------
(***************************************************************************)
(* One domain's sorted set under callers that keep the contract redis.rs   *)
(* relies on without checking it: weights are positive, nodes_join is      *)
(* called for nodes that are not members and node_lefts is told the weight *)
(* the member has in redis.                                                *)
(***************************************************************************)
EXTENDS ZSet

CONSTANTS Node, Weight

ASSUME NodeAssumption   == Node \subseteq Nat /\ IsFiniteSet(Node)
ASSUME WeightAssumption == Weight \subseteq Nat \ {0}

VARIABLE zset

Init == zset = EmptyZSet

Join(n, w) ==
    /\ n \notin DOMAIN zset
    /\ zset' = NodesJoin(zset, n, w)

Upjoin(n, w) == zset' = NodesUpjoin(zset, n, w)

Left(n) ==
    /\ n \in DOMAIN zset
    /\ zset' = NodeLefts(zset, n, WeightOf(zset, n))

Next == \E n \in Node : \/ Left(n)
                        \/ \E w \in Weight : Join(n, w) \/ Upjoin(n, w)

Spec == Init /\ [][Next]_zset

---------------------------------------------------------------------------
(* zset is a sorted set over Node. *)
TypeOK == IsZSet(zset, Node)

(* The scores stay a cumulative sum of positive weights: no operation of   *)
(* redis.rs lets two members share a score or a score drop to 0, so that   *)
(* every member keeps a share of the choices.                              *)
ScoresCumulative == Cumulative(zset)

(* An update or a removal never reorders the members that stay: moving the *)
(* followers by the change of one weight keeps them in rank order.         *)
RankOrderKept ==
    [][\A m, n \in DOMAIN zset \cap DOMAIN zset' :
          Precedes(zset, m, n) <=> Precedes(zset', m, n)]_zset

(* Each operation sets or removes the weight of its own node and leaves    *)
(* the weight of every other node alone.                                   *)
DW == INSTANCE DomainWeights WITH weights <- Weights(zset)

ImplementsWeights == DW!Spec
=============================================================================
