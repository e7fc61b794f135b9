------------------------------ MODULE ZSetTxn -------------------------------
(***************************************************************************)
(* The optimistic transactions redis.rs runs on one domain's sorted set.   *)
(* Every caller has a connection of its own and repeats WATCH, its reads   *)
(* (one or two commands) and MULTI .. EXEC until EXEC finds the key        *)
(* untouched since WATCH.  Commands of other callers come between any two  *)
(* commands, so a transaction may read a set its first read did not see.   *)
(***************************************************************************)
EXTENDS ZSet

CONSTANTS
    Node, Weight,
    Client,     \* the callers
    Initial,    \* the sorted sets the run starts from
    MaxOps      \* bound: the calls made in all

ASSUME TxnAssumption ==
    /\ Node \subseteq Nat /\ IsFiniteSet(Node)
    /\ Weight \subseteq Int
    /\ \A z \in Initial : IsZSet(z, Node)
    /\ MaxOps \in Nat

VARIABLES
    zset,       \* the sorted set
    dirty,      \* dirty[c]: the key changed since c's WATCH
    call,       \* call[c]: the call c is in
    pc,         \* pc[c]: the command c sends next
    rank,       \* rank[c]: what ZRANK answered
    pipe,       \* pipe[c]: the commands c has queued for EXEC
    ops         \* the calls made so far

vars == <<zset, dirty, call, pc, rank, pipe, ops>>

Call == [fn : {"nodes_join", "nodes_upjoin", "node_lefts"},
         node : Node, weight : Weight]
NoCall == [fn |-> "none", node |-> 0, weight |-> 0]

NoPipe == [zadd |-> EmptyZSet, zrem |-> {}]

---------------------------------------------------------------------------
(* What the commands answer and do. *)

(* Mutant of RankOf: ranks counted from one. *)
RankFromOne(z, n) == Cardinality(Before(z, n)) + 1

RankOf(z, n) == Cardinality(Before(z, n))

(* The part of z from rank r on. *)
RangeFrom(z, r) == [m \in {k \in DOMAIN z : RankOf(z, k) >= r} |-> z[m]]

ScoreAt(z, r) == z[CHOOSE m \in DOMAIN z : RankOf(z, m) = r]

Applied(z, p) ==
    [m \in (DOMAIN z \cup DOMAIN p.zadd) \ p.zrem |->
        IF m \in DOMAIN p.zadd THEN p.zadd[m] ELSE z[m]]

(* What a call does when nothing comes between its commands. *)
Result(z, k) ==
    CASE k.fn = "nodes_join"   -> NodesJoin(z, k.node, k.weight)
      [] k.fn = "nodes_upjoin" -> NodesUpjoin(z, k.node, k.weight)
      [] k.fn = "node_lefts"   -> NodeLefts(z, k.node, k.weight)

---------------------------------------------------------------------------
Init ==
    /\ zset \in Initial
    /\ dirty = [c \in Client |-> FALSE]
    /\ call = [c \in Client |-> NoCall]
    /\ pc = [c \in Client |-> "idle"]
    /\ rank = [c \in Client |-> 0]
    /\ pipe = [c \in Client |-> NoPipe]
    /\ ops = 0

Goto(c, l) == pc' = [pc EXCEPT ![c] = l]

Begin(c) ==
    /\ pc[c] = "idle"
    /\ ops < MaxOps
    /\ ops' = ops + 1
    /\ \E k \in Call : call' = [call EXCEPT ![c] = k]
    /\ Goto(c, "watch")
    /\ UNCHANGED <<zset, dirty, rank, pipe>>

(* The call returns. *)
Return(c) ==
    /\ Goto(c, "idle")
    /\ dirty' = [dirty EXCEPT ![c] = FALSE]
    /\ call' = [call EXCEPT ![c] = NoCall]
    /\ rank' = [rank EXCEPT ![c] = 0]
    /\ pipe' = [pipe EXCEPT ![c] = NoPipe]

(* Mutant of Watch: a retry does not forget that the last one failed. *)
WatchStale(c) ==
    /\ pc[c] = "watch"
    /\ Goto(c, IF call[c].fn = "nodes_join" THEN "zrange_last" ELSE "zrank")
    /\ UNCHANGED <<zset, dirty, call, rank, pipe, ops>>

Watch(c) ==
    /\ pc[c] = "watch"
    /\ dirty' = [dirty EXCEPT ![c] = FALSE]
    /\ Goto(c, IF call[c].fn = "nodes_join" THEN "zrange_last" ELSE "zrank")
    /\ UNCHANGED <<zset, call, rank, pipe, ops>>

(* ZRANK in nodes_upjoin: a node that is no member is appended. *)
ZrankUpjoin(c) ==
    LET n == call[c].node
    IN  /\ pc[c] = "zrank" /\ call[c].fn = "nodes_upjoin"
        /\ \/ /\ n \in DOMAIN zset
              /\ rank' = [rank EXCEPT ![c] = RankOf(zset, n)]
              /\ Goto(c, "zrange")
           \/ /\ n \notin DOMAIN zset
              /\ Goto(c, "zrange_last")
              /\ UNCHANGED rank
        /\ UNCHANGED <<zset, dirty, call, pipe, ops>>

(* ZRANK in node_lefts: for a node that is no member an empty pipeline is  *)
(* sent, which is not even an EXEC.                                        *)
ZrankLeft(c) ==
    LET n == call[c].node
    IN  /\ pc[c] = "zrank" /\ call[c].fn = "node_lefts"
        /\ \/ /\ n \in DOMAIN zset
              /\ rank' = [rank EXCEPT ![c] = RankOf(zset, n)]
              /\ Goto(c, "zrange")
              /\ UNCHANGED <<dirty, call, pipe>>
           \/ n \notin DOMAIN zset /\ Return(c)
        /\ UNCHANGED <<zset, ops>>

(* ZRANGE -1 -1, for a node to be appended. *)
ZrangeLast(c) ==
    /\ pc[c] = "zrange_last"
    /\ pipe' = [pipe EXCEPT ![c].zadd =
                   [m \in {call[c].node} |-> LastScore(zset) + call[c].weight]]
    /\ Goto(c, "exec")
    /\ UNCHANGED <<zset, dirty, call, rank, ops>>

(* ZRANGE from the node (and the member before it) on, in nodes_upjoin.    *)
(* The rank may be stale: the answer is taken apart by position.           *)
ZrangeUpjoin(c) ==
    LET r == rank[c]
        old == IF r = 0 THEN ScoreAt(zset, 0)
                        ELSE ScoreAt(zset, r) - ScoreAt(zset, r - 1)
        delta == call[c].weight - old
        following == RangeFrom(zset, r)
    IN  /\ pc[c] = "zrange" /\ call[c].fn = "nodes_upjoin"
        /\ r < Cardinality(DOMAIN zset)
        /\ \/ delta = 0 /\ Return(c)
           \/ /\ delta # 0
              /\ pipe' = [pipe EXCEPT ![c].zadd =
                             [m \in DOMAIN following |-> following[m] + delta]]
              /\ Goto(c, "exec")
              /\ UNCHANGED <<dirty, call, rank>>
        /\ UNCHANGED <<zset, ops>>

(* The answer is shorter than the unwraps of get(0) and get(1) take it to  *)
(* be: the task of the caller panics.                                      *)
ZrangeUnwrapPanics(c) ==
    /\ pc[c] = "zrange" /\ call[c].fn = "nodes_upjoin"
    /\ rank[c] >= Cardinality(DOMAIN zset)
    /\ Goto(c, "panicked")
    /\ UNCHANGED <<zset, dirty, call, rank, pipe, ops>>

ZrangeLeft(c) ==
    LET following == RangeFrom(zset, rank[c] + 1)
    IN  /\ pc[c] = "zrange" /\ call[c].fn = "node_lefts"
        /\ pipe' = [pipe EXCEPT ![c] =
              [zadd |-> [m \in DOMAIN following |->
                            following[m] - call[c].weight],
               zrem |-> {call[c].node}]]
        /\ Goto(c, "exec")
        /\ UNCHANGED <<zset, dirty, call, rank, ops>>

(* Mutant of Touch: nobody watches. *)
TouchNobody(c, z) == dirty' = [d \in Client |-> FALSE]

(* Writing marks the key dirty for the others who watch it. *)
Touch(c, z) ==
    dirty' = [d \in Client |->
                 IF d = c THEN FALSE
                 ELSE dirty[d] \/ (z # zset /\ pc[d] \notin {"idle", "watch"})]

Exec(c) ==
    LET z == Applied(zset, pipe[c])
    IN  /\ pc[c] = "exec"
        /\ ~dirty[c]
        /\ zset' = z
        /\ Touch(c, z)
        /\ Goto(c, "idle")
        /\ call' = [call EXCEPT ![c] = NoCall]
        /\ rank' = [rank EXCEPT ![c] = 0]
        /\ pipe' = [pipe EXCEPT ![c] = NoPipe]
        /\ UNCHANGED ops

(* EXEC answers nil and redis::transaction starts over. *)
ExecFails(c) ==
    /\ pc[c] = "exec"
    /\ dirty[c]
    /\ Goto(c, "watch")
    /\ rank' = [rank EXCEPT ![c] = 0]
    /\ pipe' = [pipe EXCEPT ![c] = NoPipe]
    /\ UNCHANGED <<zset, dirty, call, ops>>

Step(c) == \/ Watch(c) \/ ZrankUpjoin(c) \/ ZrankLeft(c) \/ ZrangeLast(c)
           \/ ZrangeUpjoin(c) \/ ZrangeUnwrapPanics(c) \/ ZrangeLeft(c) \/ Exec(c) \/ ExecFails(c)

Next == \E c \in Client : Begin(c) \/ Step(c)

Spec == Init /\ [][Next]_vars

(* Every caller's thread is scheduled. *)
FairSpec == Spec /\ \A c \in Client : WF_vars(Step(c))

---------------------------------------------------------------------------
(* Calls, commands and replies have their types. *)
TypeOK ==
    /\ IsZSet(zset, Node)
    /\ dirty \in [Client -> BOOLEAN]
    /\ call \in [Client -> Call \cup {NoCall}]
    /\ \A c \in Client :
          /\ pc[c] \in {"idle", "watch", "zrank", "zrange", "zrange_last",
                        "exec", "panicked"}
          /\ rank[c] \in 0..(Cardinality(Node) - 1)
          /\ IsZSet(pipe[c].zadd, Node) /\ pipe[c].zrem \subseteq Node
    /\ ops \in 0..MaxOps

(* nodes_upjoin finds the weight unchanged in an answer that another       *)
(* caller's write has overtaken: it returns without EXEC, so nothing       *)
(* tells it that the answer was stale.                                     *)
StaleShortcut(c) ==
    call[c].fn = "nodes_upjoin" /\ pc[c] = "zrange" /\ dirty[c]

(* A call of redis.rs that returns has done all at once, on the set as it  *)
(* is when it returns, what the call is for: WATCH makes up for the reads  *)
(* being separate commands, except on the path that sends no EXEC.         *)
CallsAreAtomic ==
    [][\A c \in Client :
          /\ pc[c] # "idle"
          /\ pc'[c] = "idle"
          => zset' = Result(zset, call[c]) \/ StaleShortcut(c)]_vars

(* The retries of redis::transaction end: a call returns (or its task      *)
(* panics) however the others' calls come between its commands.            *)
CallsReturn ==
    \A c \in Client : pc[c] = "watch" ~> pc[c] \in {"idle", "panicked"}
=============================================================================
