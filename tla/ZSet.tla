-------------------------------- MODULE ZSet --------------------------------
(***************************************************************************)
(* The weighted node list of one domain, as redis.rs keeps it: the sorted  *)
(* set "<domain>_nodes_weights".  The score of a member is the sum of its  *)
(* own weight and the weights of all the members ranked before it, so      *)
(* that the half-open score intervals of the members partition             *)
(* 0 .. (total weight) and a weighted choice is one range lookup.          *)
(*                                                                         *)
(* A sorted set is a function from its members to their scores.  Members   *)
(* are naturals: redis breaks ties of the score by the lexicographic order *)
(* of the member, which here is the order of the naturals.                 *)
(***************************************************************************)
EXTENDS Integers, FiniteSetsExt

EmptyZSet == [m \in {} |-> 0]

(* z is a sorted set over the nodes in S. *)
IsZSet(z, S) == DOMAIN z \subseteq S /\ z \in [DOMAIN z -> Int]

---------------------------------------------------------------------------
(* What the sorted set commands of redis do. *)

(* m is ranked before n. *)
Precedes(z, m, n) == z[m] < z[n] \/ (z[m] = z[n] /\ m < n)

Before(z, n) == {m \in DOMAIN z : Precedes(z, m, n)}
After(z, n)  == {m \in DOMAIN z : Precedes(z, n, m)}

(* Mutant of ZAdd: the score and the member change places. *)
ZAddSwapped(z, n, s) ==
    [m \in DOMAIN z \cup {s} |-> IF m = s THEN n ELSE z[m]]

ZAdd(z, n, s) == [m \in DOMAIN z \cup {n} |-> IF m = n THEN s ELSE z[m]]
ZRem(z, n)    == [m \in DOMAIN z \ {n} |-> z[m]]

(* A pipeline of ZADDs that adds delta to the score of each member in S. *)
Shift(z, S, delta) ==
    [m \in DOMAIN z |-> IF m \in S THEN z[m] + delta ELSE z[m]]

---------------------------------------------------------------------------
(* The functions of redis.rs. *)

(* The highest score among S, 0 when S is empty. *)
TopScore(z, S) == IF S = {} THEN 0 ELSE Max({z[m] : m \in S})

(* The score of the member of rank -1, on top of which a node is appended. *)
LastScore(z) == TopScore(z, DOMAIN z)

(* A member's weight: its score less the score of the member before it.  *)
WeightOf(z, n) == z[n] - TopScore(z, Before(z, n))

(* get_domain_nodes: the weights the scores stand for. *)
Weights(z) == [n \in DOMAIN z |-> WeightOf(z, n)]

(* Mutant of NodesJoin: the last score is not added. *)
NodesJoinUnstacked(z, n, w) == ZAdd(z, n, w)

(* nodes_join appends, and moves a node that is already a member. *)
NodesJoin(z, n, w) == ZAdd(z, n, LastScore(z) + w)

(* Mutant of NodesUpjoin: the followers stay where they are. *)
NodesUpjoinAlone(z, n, w) ==
    IF n \in DOMAIN z
    THEN Shift(z, {n}, w - WeightOf(z, n))
    ELSE NodesJoin(z, n, w)

(* nodes_upjoin moves the node and all that follow it by the change of its *)
(* weight, or appends it.                                                  *)
NodesUpjoin(z, n, w) ==
    IF n \in DOMAIN z
    THEN Shift(z, {n} \cup After(z, n), w - WeightOf(z, n))
    ELSE NodesJoin(z, n, w)

(* Mutant of NodeLefts: the followers keep their scores. *)
NodeLeftsGap(z, n, w) == IF n \in DOMAIN z THEN ZRem(z, n) ELSE z

(* node_lefts takes the weight it is told from all that follow the node. *)
NodeLefts(z, n, w) ==
    IF n \in DOMAIN z
    THEN ZRem(Shift(z, After(z, n), -w), n)
    ELSE z

---------------------------------------------------------------------------
(* Every member has a share: its interval of scores is not empty. *)
Cumulative(z) ==
    /\ \A m \in DOMAIN z : z[m] > 0
    /\ \A m, n \in DOMAIN z : m # n => z[m] # z[n]
=============================================================================
