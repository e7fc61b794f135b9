---------------------------- MODULE MCDomainZSet ----------------------------
(* Four nodes and three weights: enough for a member with members before   *)
(* and after it to be removed or changed, and for equal and unequal        *)
(* weights in every order.                                                 *)
EXTENDS DomainZSet

MCNode == 1..4
MCWeight == 1..3
=============================================================================
