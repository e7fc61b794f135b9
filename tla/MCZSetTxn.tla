----------------------------- MODULE MCZSetTxn ------------------------------
(* Two callers over two or three members: a call can lose the node it      *)
(* looks for, its neighbour or a follower between two of its commands,     *)
(* and fail its EXEC twice.                                                *)
EXTENDS ZSetTxn

CONSTANTS c1, c2

MCNode == 1..3
MCWeight == 1..2
MCClient == {c1, c2}
TwoMembers == NodesJoin(NodesJoin(EmptyZSet, 2, 1), 1, 2)
MCInitial == {TwoMembers, NodesJoin(TwoMembers, 3, 1)}
=============================================================================
