--------------------------- MODULE DomainWeights ----------------------------
(***************************************************************************)
(* What the weighted node list of a domain promises to whoever routes by   *)
(* it: a map from nodes to weights, changed one node at a time.  Setting   *)
(* or removing one node leaves the weight of every other node alone.       *)
(***************************************************************************)
EXTENDS Integers

CONSTANTS Node, Weight

VARIABLE weights

Init == weights = [n \in {} |-> 0]

Set(n, w) ==
    weights' = [m \in DOMAIN weights \cup {n} |-> IF m = n THEN w ELSE weights[m]]

Drop(n) ==
    weights' = [m \in DOMAIN weights \ {n} |-> weights[m]]

Next == \E n \in Node : Drop(n) \/ \E w \in Weight : Set(n, w)

Spec == Init /\ [][Next]_weights
=============================================================================
