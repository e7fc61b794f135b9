--------------------------- MODULE ZSetTxnProofs ----------------------------
(***************************************************************************)
(* For any number of callers and calls, any nodes and any weights, a call  *)
(* of redis.rs takes effect at one step, except on the path without EXEC.  *)
(***************************************************************************)
EXTENDS ZSetTxn, ZSetLemmas

---------------------------------------------------------------------------
(* What ZRANK and ZRANGE answer says of the order of the members. *)

(* The members before a node are finitely many, and fewer than there are. *)
LEMMA RanksAreCounts ==
    ASSUME NEW z, FiniteZSet(z), NEW n \in DOMAIN z
    PROVE  /\ IsFiniteSet(Before(z, n))
           /\ RankOf(z, n) \in Nat
           /\ RankOf(z, n) < Cardinality(DOMAIN z)
<1>1. Before(z, n) \subseteq DOMAIN z \ {n}
  BY DEF Before, Precedes, FiniteZSet
<1>2. /\ IsFiniteSet(DOMAIN z \ {n})
      /\ Cardinality(DOMAIN z \ {n}) = Cardinality(DOMAIN z) - 1
      /\ Cardinality(DOMAIN z) \in Nat
  BY FS_RemoveElement, FS_CardinalityType DEF FiniteZSet
<1>3. /\ IsFiniteSet(Before(z, n))
      /\ Cardinality(Before(z, n)) <= Cardinality(DOMAIN z \ {n})
  BY <1>1, <1>2, FS_Subset
<1>4. Cardinality(Before(z, n)) \in Nat
  BY <1>3, FS_CardinalityType
<1> QED BY <1>2, <1>3, <1>4 DEF RankOf

(* Of two members one precedes the other. *)
LEMMA MembersAreOrdered ==
    ASSUME NEW z, FiniteZSet(z), NEW m \in DOMAIN z, NEW n \in DOMAIN z
    PROVE  /\ Precedes(z, m, n) \/ Precedes(z, n, m) \/ m = n
           /\ ~(Precedes(z, m, n) /\ Precedes(z, n, m))
           /\ ~Precedes(z, m, m)
           /\ \A k \in DOMAIN z : Precedes(z, k, m) /\ Precedes(z, m, n)
                                  => Precedes(z, k, n)
<1>1. \A k \in DOMAIN z : k \in Int /\ z[k] \in Int
  BY DEF FiniteZSet
<1> QED BY <1>1 DEF Precedes

LEMMA RankIsMonotonic ==
    ASSUME NEW z, FiniteZSet(z), NEW m \in DOMAIN z, NEW n \in DOMAIN z,
           Precedes(z, m, n)
    PROVE  RankOf(z, m) < RankOf(z, n)
<1>1. Before(z, m) \subseteq Before(z, n) \ {m} /\ m \in Before(z, n)
  BY MembersAreOrdered DEF Before
<1>2. /\ IsFiniteSet(Before(z, n) \ {m})
      /\ Cardinality(Before(z, n) \ {m}) = Cardinality(Before(z, n)) - 1
  BY <1>1, RanksAreCounts, FS_RemoveElement
<1>3. Cardinality(Before(z, m)) <= Cardinality(Before(z, n) \ {m})
  BY <1>1, <1>2, FS_Subset
<1> QED BY <1>2, <1>3, RanksAreCounts DEF RankOf

(* The rank tells the members and their order. *)
LEMMA RankIsOrder ==
    ASSUME NEW z, FiniteZSet(z), NEW m \in DOMAIN z, NEW n \in DOMAIN z
    PROVE  /\ RankOf(z, m) < RankOf(z, n) <=> Precedes(z, m, n)
           /\ RankOf(z, m) = RankOf(z, n) => m = n
<1>1. RankOf(z, m) \in Nat /\ RankOf(z, n) \in Nat
  BY RanksAreCounts
<1>2. Precedes(z, m, n) => RankOf(z, m) < RankOf(z, n)
  BY RankIsMonotonic
<1>3. Precedes(z, n, m) => RankOf(z, n) < RankOf(z, m)
  BY RankIsMonotonic
<1>4. Precedes(z, m, n) \/ Precedes(z, n, m) \/ m = n
  BY MembersAreOrdered
<1> QED BY <1>1, <1>2, <1>3, <1>4

(* ZRANGE r r finds the member of rank r. *)
LEMMA ScoreAtRank ==
    ASSUME NEW z, FiniteZSet(z), NEW n \in DOMAIN z
    PROVE  ScoreAt(z, RankOf(z, n)) = z[n]
<1>1. \E m \in DOMAIN z : RankOf(z, m) = RankOf(z, n)
  OBVIOUS
<1>2. \A m \in DOMAIN z : RankOf(z, m) = RankOf(z, n) => m = n
  BY RankIsOrder
<1> QED BY <1>1, <1>2 DEF ScoreAt

(* The last of the first few members. *)
LEMMA LastOfFirst ==
    ASSUME NEW z, FiniteZSet(z), NEW S \in SUBSET DOMAIN z, S # {},
           \A m \in S : Before(z, m) \subseteq S
    PROVE  \E p \in S : /\ S = Before(z, p) \cup {p}
                        /\ Cardinality(S) = RankOf(z, p) + 1
<1> DEFINE g == [m \in DOMAIN z |-> RankOf(z, m)]
<1>1. DOMAIN g = DOMAIN z /\ g \in [DOMAIN z -> Int]
  BY RanksAreCounts
<1>2. FiniteZSet(g)
  BY <1>1 DEF FiniteZSet
<1>3. PICK p \in S : \A j \in S : g[j] <= g[p]
  <2> HIDE DEF g
  <2> QED BY <1>1, <1>2, HighestExists
<1>4. p \in DOMAIN z /\ \A j \in S : j \in DOMAIN z /\ RankOf(z, j) <= RankOf(z, p)
  BY <1>3
<1>5. S = Before(z, p) \cup {p}
  <2>1. ASSUME NEW j \in S PROVE j \in Before(z, p) \cup {p}
    <3>1. RankOf(z, j) < RankOf(z, p) \/ RankOf(z, j) = RankOf(z, p)
      BY <1>4, RanksAreCounts
    <3> QED BY <3>1, <1>4, RankIsOrder DEF Before
  <2>2. Before(z, p) \cup {p} \subseteq S
    BY <1>3
  <2> QED BY <2>1, <2>2
<1>6. p \notin Before(z, p)
  BY <1>4, MembersAreOrdered DEF Before
<1>7. Cardinality(S) = RankOf(z, p) + 1
  BY <1>4, <1>5, <1>6, RanksAreCounts, FS_AddElement DEF RankOf
<1> QED BY <1>3, <1>5, <1>7

LEMMA BeforeIsFirst ==
    ASSUME NEW z, FiniteZSet(z), NEW n \in DOMAIN z, RankOf(z, n) # 0
    PROVE  \E p \in Before(z, n) : /\ Before(z, n) = Before(z, p) \cup {p}
                                   /\ RankOf(z, n) = RankOf(z, p) + 1
<1>1. Before(z, n) # {}
  BY FS_EmptySet DEF RankOf
<1>2. Before(z, n) \in SUBSET DOMAIN z
  BY DEF Before
<1>3. \A m \in Before(z, n) : Before(z, m) \subseteq Before(z, n)
  BY MembersAreOrdered DEF Before
<1> QED BY <1>1, <1>2, <1>3, LastOfFirst DEF RankOf

(* The member of the rank before a node's has the score its weight is      *)
(* added to.                                                               *)
LEMMA ScoreBefore ==
    ASSUME NEW z, FiniteZSet(z), NEW n \in DOMAIN z
    PROVE  /\ RankOf(z, n) = 0 => TopScore(z, Before(z, n)) = 0
           /\ RankOf(z, n) # 0
              => ScoreAt(z, RankOf(z, n) - 1) = TopScore(z, Before(z, n))
<1> DEFINE B == Before(z, n)
<1>1. IsFiniteSet(B) /\ B \in SUBSET DOMAIN z
  BY RanksAreCounts DEF Before
<1>2. RankOf(z, n) = 0 => B = {}
  BY <1>1, FS_EmptySet DEF RankOf
<1>3. ASSUME RankOf(z, n) # 0
      PROVE  ScoreAt(z, RankOf(z, n) - 1) = TopScore(z, B)
  <2>1. PICK p \in B : B = Before(z, p) \cup {p} /\ RankOf(z, n) = RankOf(z, p) + 1
    BY <1>3, BeforeIsFirst
  <2>2. p \in DOMAIN z /\ RankOf(z, p) \in Nat
    BY <1>1, <2>1, RanksAreCounts
  <2>3. ScoreAt(z, RankOf(z, n) - 1) = z[p]
    BY <2>1, <2>2, ScoreAtRank
  <2>4. \A j \in B : z[j] <= z[p] /\ z[j] \in Int
    BY <2>1, <2>2 DEF Before, Precedes, FiniteZSet
  <2>5. TopScore(z, B) = z[p]
    <3> HIDE DEF B
    <3>1. PICK m \in B : TopScore(z, B) = z[m]
      BY <1>1, <2>1, TopScoreIsHighest
    <3>2. z[p] <= TopScore(z, B)
      BY <1>1, <2>1, TopScoreIsHighest
    <3> QED BY <3>1, <3>2, <2>1, <2>4
  <2> QED BY <2>3, <2>5
<1> QED BY <1>2, <1>3 DEF TopScore

(* A rank there are members enough for is one of a member, also when it is *)
(* not that of the node it was asked for any more.                         *)
LEMMA RanksAreHeld ==
    ASSUME NEW z, FiniteZSet(z), NEW r \in Nat, r < Cardinality(DOMAIN z)
    PROVE  /\ \E m \in DOMAIN z : RankOf(z, m) = r
           /\ ScoreAt(z, r) \in Int
<1> DEFINE H == {m \in DOMAIN z : RankOf(z, m) >= r}
           g == [m \in DOMAIN z |-> -RankOf(z, m)]
<1>1. H # {}
  <2>1. DOMAIN z # {}
    BY FS_EmptySet
  <2>2. PICK p \in DOMAIN z : Cardinality(DOMAIN z) = RankOf(z, p) + 1
    BY <2>1, LastOfFirst DEF Before
  <2>3. RankOf(z, p) >= r
    BY <2>2, RanksAreCounts
  <2> QED BY <2>3
<1>2. DOMAIN g = DOMAIN z /\ g \in [DOMAIN z -> Int]
  BY RanksAreCounts
<1>3. FiniteZSet(g)
  BY <1>2 DEF FiniteZSet
<1>4. PICK h \in H : \A m \in H : g[m] <= g[h]
  <2>1. H \in SUBSET DOMAIN g
    BY <1>2
  <2> HIDE DEF H, g
  <2> QED BY <1>1, <1>3, <2>1, HighestExists
<1>5. /\ h \in DOMAIN z /\ RankOf(z, h) \in Nat /\ RankOf(z, h) >= r
      /\ \A m \in DOMAIN z : RankOf(z, m) >= r => RankOf(z, h) <= RankOf(z, m)
  <2>1. \A m \in DOMAIN z : RankOf(z, m) \in Nat
    BY RanksAreCounts
  <2> QED BY <2>1, <1>4
<1>6. RankOf(z, h) = r
  <2>1. SUFFICES ASSUME RankOf(z, h) # r PROVE FALSE
    OBVIOUS
  <2>2. PICK p \in Before(z, h) : RankOf(z, h) = RankOf(z, p) + 1
    BY <2>1, <1>5, BeforeIsFirst
  <2>3. p \in DOMAIN z /\ RankOf(z, p) \in Nat
    BY <2>2, RanksAreCounts DEF Before
  <2> QED BY <2>1, <2>2, <2>3, <1>5
<1>7. ScoreAt(z, r) \in Int
  BY <1>5, <1>6, ScoreAtRank DEF FiniteZSet
<1> QED BY <1>5, <1>6, <1>7

(* ZRANGE from a node's rank on finds the node and who follows it, from    *)
(* the rank after it those who follow it.                                  *)
LEMMA RangesFollow ==
    ASSUME NEW z, FiniteZSet(z), NEW n \in DOMAIN z
    PROVE  /\ DOMAIN RangeFrom(z, RankOf(z, n)) = {n} \cup After(z, n)
           /\ DOMAIN RangeFrom(z, RankOf(z, n) + 1) = After(z, n)
           /\ \A r : \A m \in DOMAIN RangeFrom(z, r) :
                 m \in DOMAIN z /\ RangeFrom(z, r)[m] = z[m]
<1>1. ASSUME NEW k \in DOMAIN z
      PROVE  /\ RankOf(z, k) >= RankOf(z, n) <=> k \in {n} \cup After(z, n)
             /\ RankOf(z, k) >= RankOf(z, n) + 1 <=> k \in After(z, n)
  <2>1. RankOf(z, k) \in Nat /\ RankOf(z, n) \in Nat
    BY RanksAreCounts
  <2>2. RankOf(z, n) < RankOf(z, k) <=> k \in After(z, n)
    BY RankIsOrder DEF After
  <2>3. RankOf(z, n) = RankOf(z, k) <=> k = n
    BY RankIsOrder
  <2> QED BY <2>1, <2>2, <2>3
<1>2. {n} \cup After(z, n) \subseteq DOMAIN z
  BY DEF After
<1> QED BY <1>1, <1>2 DEF RangeFrom

---------------------------------------------------------------------------
(* What the pipelines do, queued from answers that are not stale. *)

LEMMA AppendApplies ==
    ASSUME NEW z, NEW n, NEW w, NEW p,
           p.zadd = [m \in {n} |-> LastScore(z) + w], p.zrem = {}
    PROVE  Applied(z, p) = NodesJoin(z, n, w)
BY DEF Applied, NodesJoin, ZAdd

(* What nodes_upjoin computes from its answer as the change of the weight. *)
Change(z, r, w) ==
    w - (IF r = 0 THEN ScoreAt(z, 0) ELSE ScoreAt(z, r) - ScoreAt(z, r - 1))

LEMMA ChangeIsOfWeight ==
    ASSUME NEW z, FiniteZSet(z), NEW n \in DOMAIN z, NEW w \in Int
    PROVE  /\ Change(z, RankOf(z, n), w) = w - WeightOf(z, n)
           /\ Change(z, RankOf(z, n), w) \in Int
<1> DEFINE r == RankOf(z, n)
           top == TopScore(z, Before(z, n))
<1>1. r \in Nat /\ z[n] \in Int
  BY RanksAreCounts DEF FiniteZSet
<1>2. WeightOf(z, n) \in Int /\ WeightOf(z, n) = z[n] - top
  BY FloorGivesWeight DEF WeightOf
<1>3. ScoreAt(z, r) = z[n]
  BY ScoreAtRank
<1>4. /\ r = 0 => top = 0
      /\ r # 0 => ScoreAt(z, r - 1) = top
  BY ScoreBefore
<1> HIDE DEF r, top
<1>5. Change(z, r, w) = w - WeightOf(z, n)
  <2>1. CASE r = 0
    BY <2>1, <1>1, <1>2, <1>3, <1>4 DEF Change
  <2>2. CASE r # 0
    BY <2>2, <1>2, <1>3, <1>4 DEF Change
  <2> QED BY <2>1, <2>2
<1> QED BY <1>2, <1>5 DEF r

LEMMA UpjoinApplies ==
    ASSUME NEW z, FiniteZSet(z), NEW n \in DOMAIN z, NEW w \in Int,
           NEW delta, delta = Change(z, RankOf(z, n), w)
    PROVE  /\ delta = 0 => NodesUpjoin(z, n, w) = z
           /\ \A p : /\ p.zadd = [m \in DOMAIN RangeFrom(z, RankOf(z, n)) |->
                                     RangeFrom(z, RankOf(z, n))[m] + delta]
                     /\ p.zrem = {}
                     => Applied(z, p) = NodesUpjoin(z, n, w)
<1> DEFINE S == {n} \cup After(z, n)
           F == RangeFrom(z, RankOf(z, n))
<1>1. delta = w - WeightOf(z, n) /\ delta \in Int
  BY ChangeIsOfWeight
<1>2. NodesUpjoin(z, n, w) = Shift(z, S, delta)
  BY <1>1 DEF NodesUpjoin
<1>3. DOMAIN F = S /\ S \subseteq DOMAIN z /\ \A m \in S : F[m] = z[m]
  BY RangesFollow DEF After
<1>4. /\ \A m \in DOMAIN z : z[m] \in Int
      /\ z = [m \in DOMAIN z |-> z[m]]
  BY DEF FiniteZSet
<1> HIDE DEF S, F
<1>5. delta = 0 => Shift(z, S, delta) = z
  <2>1. \A m \in DOMAIN z : z[m] + 0 = z[m]
    BY <1>4
  <2> QED BY <2>1, <1>4 DEF Shift
<1>6. ASSUME NEW p, p.zadd = [m \in DOMAIN F |-> F[m] + delta], p.zrem = {}
      PROVE  Applied(z, p) = Shift(z, S, delta)
  <2>1. (DOMAIN z \cup DOMAIN p.zadd) \ p.zrem = DOMAIN z
    BY <1>3, <1>6
  <2> QED BY <2>1, <1>3, <1>6 DEF Applied, Shift
<1> QED BY <1>2, <1>5, <1>6 DEF F

LEMMA LeftApplies ==
    ASSUME NEW z, FiniteZSet(z), NEW n \in DOMAIN z, NEW w \in Int, NEW p,
           p.zadd = [m \in DOMAIN RangeFrom(z, RankOf(z, n) + 1) |->
                        RangeFrom(z, RankOf(z, n) + 1)[m] - w],
           p.zrem = {n}
    PROVE  Applied(z, p) = NodeLefts(z, n, w)
<1> DEFINE S == After(z, n)
           F == RangeFrom(z, RankOf(z, n) + 1)
<1>1. DOMAIN F = S /\ S \subseteq DOMAIN z /\ \A m \in S : F[m] = z[m]
  <2>1. DOMAIN F = S /\ \A m \in DOMAIN F : m \in DOMAIN z /\ F[m] = z[m]
    BY RangesFollow
  <2> QED BY <2>1
<1>2. \A m \in DOMAIN z : z[m] \in Int /\ z[m] + (-w) = z[m] - w
  BY DEF FiniteZSet
<1>3. NodeLefts(z, n, w) =
         [m \in DOMAIN z \ {n} |-> IF m \in S THEN z[m] + (-w) ELSE z[m]]
  BY DEF NodeLefts, ZRem, Shift
<1>4. p.zadd = [m \in DOMAIN F |-> F[m] - w]
  OBVIOUS
<1>5. (DOMAIN z \cup DOMAIN p.zadd) \ p.zrem = DOMAIN z \ {n}
  <2> HIDE DEF S, F
  <2> QED BY <1>1, <1>4
<1> HIDE DEF S, F
<1>6. \A m \in DOMAIN z \ {n} :
         (IF m \in DOMAIN p.zadd THEN p.zadd[m] ELSE z[m])
            = IF m \in S THEN z[m] + (-w) ELSE z[m]
  BY <1>1, <1>2, <1>4
<1> QED BY <1>3, <1>5, <1>6 DEF Applied

---------------------------------------------------------------------------
(* The inductive invariant. *)

PCs == {"idle", "watch", "zrank", "zrange", "zrange_last", "exec", "panicked"}

(* A caller in call k that sends the command l next. *)
CallerOK(k, l, r, p) ==
    /\ k \in Call \cup {NoCall} /\ l \in PCs
    /\ l # "idle" => k \in Call
    /\ l = "zrange_last" => k.fn \in {"nodes_join", "nodes_upjoin"}
    /\ r \in Nat /\ (r = 0 \/ r < Cardinality(Node))
    /\ IsZSet(p.zadd, Node) /\ p.zrem \subseteq Node
    /\ l # "exec" => p = NoPipe

(* What the caller has read of the set, and queued, is right for z. *)
Fresh(z, k, l, r, p) ==
    /\ l = "zrange_last" /\ k.fn = "nodes_upjoin" => k.node \notin DOMAIN z
    /\ l = "zrange" => k.node \in DOMAIN z /\ r = RankOf(z, k.node)
    /\ l = "exec" => Applied(z, p) = Result(z, k)

Arrays ==
    /\ dirty \in [Client -> BOOLEAN]
    /\ DOMAIN call = Client /\ call = [c \in Client |-> call[c]]
    /\ DOMAIN pc = Client /\ pc = [c \in Client |-> pc[c]]
    /\ DOMAIN rank = Client /\ rank = [c \in Client |-> rank[c]]
    /\ DOMAIN pipe = Client /\ pipe = [c \in Client |-> pipe[c]]

(* CallsAreAtomic alone is not inductive: an EXEC is right because what    *)
(* was read for it is, as long as the key has not changed.                 *)
IInv ==
    /\ IsZSet(zset, Node) /\ ops \in 0..MaxOps
    /\ Arrays
    /\ \A c \in Client :
          /\ CallerOK(call[c], pc[c], rank[c], pipe[c])
          /\ ~dirty[c] => Fresh(zset, call[c], pc[c], rank[c], pipe[c])

(* The step that CallsAreAtomic asks for. *)
Atomic ==
    \A c \in Client :
        pc[c] # "idle" /\ pc'[c] = "idle"
        => zset' = Result(zset, call[c]) \/ StaleShortcut(c)

---------------------------------------------------------------------------
LEMMA SetIsFinite ==
    ASSUME NEW z, IsZSet(z, Node)
    PROVE  FiniteZSet(z) /\ LastScore(z) \in Int
<1>1. Node \subseteq Nat /\ IsFiniteSet(Node)
  BY TxnAssumption
<1>2. IsFiniteSet(DOMAIN z)
  BY <1>1, FS_Subset DEF IsZSet
<1>3. FiniteZSet(z)
  BY <1>1, <1>2 DEF FiniteZSet, IsZSet
<1> QED BY <1>3, LastScoreIsInt

LEMMA CallsAreTyped ==
    ASSUME NEW k \in Call
    PROVE  k.node \in Node /\ k.weight \in Int
           /\ k.fn \in {"nodes_join", "nodes_upjoin", "node_lefts"}
<1>1. Weight \subseteq Int
  BY TxnAssumption
<1> QED BY <1>1 DEF Call

(* A rank of a member is a rank there may be. *)
LEMMA RanksAreBounded ==
    ASSUME NEW z, IsZSet(z, Node), NEW n \in DOMAIN z
    PROVE  RankOf(z, n) \in Nat /\ RankOf(z, n) < Cardinality(Node)
<1>1. IsFiniteSet(Node)
  BY TxnAssumption
<1>2. Cardinality(DOMAIN z) <= Cardinality(Node)
  BY <1>1, FS_Subset DEF IsZSet
<1>3. Cardinality(DOMAIN z) \in Nat /\ Cardinality(Node) \in Nat
  BY <1>1, SetIsFinite, FS_CardinalityType DEF FiniteZSet
<1> QED BY <1>2, <1>3, SetIsFinite, RanksAreCounts

(* A step changes what is known of caller c only. *)
Moves(c) ==
    /\ dirty' = [dirty EXCEPT ![c] = dirty'[c]]
    /\ call' = [call EXCEPT ![c] = call'[c]]
    /\ pc' = [pc EXCEPT ![c] = pc'[c]]
    /\ rank' = [rank EXCEPT ![c] = rank'[c]]
    /\ pipe' = [pipe EXCEPT ![c] = pipe'[c]]

(* A step of one caller that does not write, and leaves it in a state that *)
(* is right for it.                                                        *)
LEMMA CallerSteps ==
    ASSUME IInv, NEW c \in Client, Moves(c), UNCHANGED zset, ops' \in 0..MaxOps,
           dirty'[c] \in BOOLEAN, CallerOK(call'[c], pc'[c], rank'[c], pipe'[c]),
           ~dirty'[c] => Fresh(zset, call'[c], pc'[c], rank'[c], pipe'[c]),
           pc[c] = "idle" \/ pc'[c] # "idle"
           \/ zset = Result(zset, call[c]) \/ StaleShortcut(c)
    PROVE  IInv' /\ Atomic
<1>1. Arrays'
  BY DEF IInv, Arrays, Moves
<1>2. \A e \in Client \ {c} :
          /\ dirty'[e] = dirty[e] /\ call'[e] = call[e] /\ pc'[e] = pc[e]
          /\ rank'[e] = rank[e] /\ pipe'[e] = pipe[e]
  BY DEF IInv, Arrays, Moves
<1>3. \A e \in Client :
          /\ CallerOK(call'[e], pc'[e], rank'[e], pipe'[e])
          /\ ~dirty'[e] => Fresh(zset', call'[e], pc'[e], rank'[e], pipe'[e])
  BY <1>2 DEF IInv
<1>4. IInv'
  BY <1>1, <1>3 DEF IInv
<1>5. Atomic
  BY <1>2 DEF Atomic
<1> QED BY <1>4, <1>5

LEMMA NoPipeIsTyped ==
    IsZSet(NoPipe.zadd, Node) /\ NoPipe.zrem \subseteq Node
BY DEF NoPipe, EmptyZSet, IsZSet

---------------------------------------------------------------------------
(* Every command keeps the invariant, and is atomic if it is the last.     *)

LEMMA ReturnPreserves ==
    ASSUME IInv, NEW c \in Client, UNCHANGED <<zset, ops>>, Return(c),
           zset = Result(zset, call[c]) \/ StaleShortcut(c)
    PROVE  IInv' /\ Atomic
<1>1. /\ Moves(c) /\ dirty'[c] = FALSE
      /\ call'[c] = NoCall /\ pc'[c] = "idle" /\ rank'[c] = 0 /\ pipe'[c] = NoPipe
  BY DEF Return, Goto, Moves, IInv, Arrays
<1>2. CallerOK(NoCall, "idle", 0, NoPipe) /\ Fresh(zset, NoCall, "idle", 0, NoPipe)
  BY NoPipeIsTyped DEF CallerOK, Fresh, PCs
<1>3. ops' \in 0..MaxOps
  BY DEF IInv
<1> QED BY <1>1, <1>2, <1>3, CallerSteps

LEMMA BeginPreserves ==
    ASSUME IInv, NEW c \in Client, Begin(c)
    PROVE  IInv' /\ Atomic
<1>1. /\ Moves(c) /\ dirty'[c] = dirty[c] /\ dirty[c] \in BOOLEAN
      /\ call'[c] \in Call /\ pc'[c] = "watch"
      /\ rank'[c] = rank[c] /\ pipe'[c] = pipe[c]
  BY DEF Begin, Goto, Moves, IInv, Arrays
<1>2. CallerOK(call'[c], "watch", rank[c], pipe[c])
  BY <1>1 DEF Begin, IInv, CallerOK, PCs
<1>3. Fresh(zset, call'[c], "watch", rank[c], pipe[c])
  BY DEF Fresh
<1>4. ops' \in 0..MaxOps /\ UNCHANGED zset
  BY TxnAssumption DEF Begin, IInv
<1> QED BY <1>1, <1>2, <1>3, <1>4, CallerSteps

LEMMA WatchPreserves ==
    ASSUME IInv, NEW c \in Client, Watch(c)
    PROVE  IInv' /\ Atomic
<1> DEFINE l == IF call[c].fn = "nodes_join" THEN "zrange_last" ELSE "zrank"
<1>1. /\ Moves(c) /\ dirty'[c] = FALSE /\ call'[c] = call[c] /\ pc'[c] = l
      /\ rank'[c] = rank[c] /\ pipe'[c] = pipe[c]
  BY DEF Watch, Goto, Moves, IInv, Arrays
<1>2. CallerOK(call[c], l, rank[c], pipe[c]) /\ l # "idle"
  BY DEF Watch, IInv, CallerOK, PCs
<1>3. Fresh(zset, call[c], l, rank[c], pipe[c])
  BY DEF Fresh
<1>4. ops' \in 0..MaxOps /\ UNCHANGED zset
  BY DEF Watch, IInv
<1> HIDE DEF l
<1> QED BY <1>1, <1>2, <1>3, <1>4, CallerSteps

LEMMA ZrankPreserves ==
    ASSUME IInv, NEW c \in Client, ZrankUpjoin(c) \/ ZrankLeft(c)
    PROVE  IInv' /\ Atomic
<1> DEFINE n == call[c].node
<1>1. ops' \in 0..MaxOps /\ UNCHANGED <<zset, ops>> /\ dirty[c] \in BOOLEAN
  BY DEF ZrankUpjoin, ZrankLeft, IInv, Arrays
<1>2. /\ pc[c] = "zrank" /\ call[c] \in Call /\ IsZSet(zset, Node)
      /\ CallerOK(call[c], pc[c], rank[c], pipe[c])
  BY DEF ZrankUpjoin, ZrankLeft, IInv, CallerOK
<1>3. CASE n \in DOMAIN zset
  <2>1. /\ UNCHANGED <<dirty, call, pipe>> /\ Goto(c, "zrange")
        /\ rank' = [rank EXCEPT ![c] = RankOf(zset, n)]
    BY <1>3 DEF ZrankUpjoin, ZrankLeft
  <2>2. /\ Moves(c) /\ dirty'[c] = dirty[c] /\ call'[c] = call[c]
        /\ pc'[c] = "zrange" /\ rank'[c] = RankOf(zset, n) /\ pipe'[c] = pipe[c]
    BY <2>1 DEF Goto, Moves, IInv, Arrays
  <2>3. CallerOK(call[c], "zrange", RankOf(zset, n), pipe[c])
    BY <1>2, <1>3, RanksAreBounded DEF CallerOK, PCs
  <2>4. Fresh(zset, call[c], "zrange", RankOf(zset, n), pipe[c])
    BY <1>3 DEF Fresh
  <2> QED BY <1>1, <2>2, <2>3, <2>4, CallerSteps
<1>4. CASE n \notin DOMAIN zset /\ ZrankUpjoin(c)
  <2>1. /\ UNCHANGED <<dirty, call, rank, pipe>> /\ Goto(c, "zrange_last")
        /\ call[c].fn = "nodes_upjoin"
    BY <1>4 DEF ZrankUpjoin
  <2>2. /\ Moves(c) /\ dirty'[c] = dirty[c] /\ call'[c] = call[c]
        /\ pc'[c] = "zrange_last" /\ rank'[c] = rank[c] /\ pipe'[c] = pipe[c]
    BY <2>1 DEF Goto, Moves, IInv, Arrays
  <2>3. CallerOK(call[c], "zrange_last", rank[c], pipe[c])
    BY <1>2, <2>1 DEF CallerOK, PCs
  <2>4. Fresh(zset, call[c], "zrange_last", rank[c], pipe[c])
    BY <1>4 DEF Fresh
  <2> QED BY <1>1, <2>2, <2>3, <2>4, CallerSteps
<1>5. CASE n \notin DOMAIN zset /\ ZrankLeft(c)
  <2>1. Return(c) /\ zset = Result(zset, call[c])
    BY <1>5 DEF ZrankLeft, Result, NodeLefts
  <2> QED BY <1>1, <2>1, ReturnPreserves
<1> QED BY <1>3, <1>4, <1>5

LEMMA ZrangeLastPreserves ==
    ASSUME IInv, NEW c \in Client, ZrangeLast(c)
    PROVE  IInv' /\ Atomic
<1> DEFINE k == call[c]
           p == [NoPipe EXCEPT !.zadd = [m \in {k.node} |-> LastScore(zset) + k.weight]]
<1>1. /\ pc[c] = "zrange_last" /\ k \in Call /\ k.fn \in {"nodes_join", "nodes_upjoin"}
      /\ rank[c] \in Nat /\ (rank[c] = 0 \/ rank[c] < Cardinality(Node))
      /\ pipe[c] = NoPipe /\ dirty[c] \in BOOLEAN
      /\ ~dirty[c] /\ k.fn = "nodes_upjoin" => k.node \notin DOMAIN zset
  BY DEF ZrangeLast, IInv, CallerOK, Arrays, Fresh
<1>2. ops' \in 0..MaxOps /\ UNCHANGED zset
  BY DEF ZrangeLast, IInv
<1>3. /\ Moves(c) /\ dirty'[c] = dirty[c] /\ call'[c] = k
      /\ pc'[c] = "exec" /\ rank'[c] = rank[c] /\ pipe'[c] = p
  BY <1>1 DEF ZrangeLast, Moves, IInv, Goto, Arrays
<1>4. /\ p.zadd = [m \in {k.node} |-> LastScore(zset) + k.weight]
      /\ p.zrem = {}
  BY DEF NoPipe
<1>5. k.node \in Node /\ LastScore(zset) + k.weight \in Int
  BY <1>1, CallsAreTyped, SetIsFinite DEF IInv
<1>6. IsZSet(p.zadd, Node)
  BY <1>4, <1>5 DEF IsZSet
<1> HIDE DEF p
<1>7. CallerOK(k, "exec", rank[c], p)
  BY <1>1, <1>4, <1>6 DEF CallerOK, PCs
<1>8. Applied(zset, p) = NodesJoin(zset, k.node, k.weight)
  <2> HIDE DEF k
  <2> QED BY <1>4, AppendApplies
<1>9. ~dirty[c] => Fresh(zset, k, "exec", rank[c], p)
  BY <1>1, <1>8 DEF Fresh, Result, NodesUpjoin
<1> QED BY <1>1, <1>2, <1>3, <1>7, <1>9, CallerSteps

LEMMA ZrangeUpjoinPreserves ==
    ASSUME IInv, NEW c \in Client, ZrangeUpjoin(c)
    PROVE  IInv' /\ Atomic
<1> DEFINE k == call[c]
           r == rank[c]
           delta == Change(zset, r, k.weight)
           F == RangeFrom(zset, r)
           p == [NoPipe EXCEPT !.zadd = [m \in DOMAIN F |-> F[m] + delta]]
           Queues == /\ delta # 0 /\ UNCHANGED <<dirty, call, rank>>
                     /\ pc' = [pc EXCEPT ![c] = "exec"]
                     /\ pipe' = [pipe EXCEPT ![c].zadd =
                                    [m \in DOMAIN F |-> F[m] + delta]]
<1>1. /\ pc[c] = "zrange" /\ k \in Call /\ k.fn = "nodes_upjoin"
      /\ r \in Nat /\ (r = 0 \/ r < Cardinality(Node)) /\ r < Cardinality(DOMAIN zset)
      /\ pipe[c] = NoPipe /\ dirty[c] \in BOOLEAN
      /\ ~dirty[c] => k.node \in DOMAIN zset /\ r = RankOf(zset, k.node)
  BY DEF ZrangeUpjoin, IInv, CallerOK, Arrays, Fresh
<1>2. ops' \in 0..MaxOps /\ UNCHANGED <<zset, ops>>
  BY DEF ZrangeUpjoin, IInv
<1>3. IsZSet(zset, Node) /\ FiniteZSet(zset) /\ k.node \in Node /\ k.weight \in Int
  BY <1>1, SetIsFinite, CallsAreTyped DEF IInv
<1>4. delta \in Int
  <2>1. ScoreAt(zset, r) \in Int
    BY <1>1, <1>3, RanksAreHeld
  <2>2. CASE r = 0
    BY <2>1, <2>2, <1>3 DEF Change
  <2>3. CASE r # 0
    <3>1. r - 1 \in Nat
      BY <2>3, <1>1
    <3>2. Cardinality(DOMAIN zset) \in Nat
      BY <1>3, FS_CardinalityType DEF FiniteZSet
    <3>3. r - 1 < Cardinality(DOMAIN zset)
      BY <3>1, <3>2, <1>1
    <3>4. ScoreAt(zset, r - 1) \in Int
      BY <3>1, <3>3, <1>3, RanksAreHeld
    <3> QED BY <2>1, <2>3, <3>4, <1>3 DEF Change
  <2> QED BY <2>2, <2>3
<1>5. (delta = 0 /\ Return(c)) \/ Queues
  BY DEF ZrangeUpjoin, Goto, Change
<1>6. ~dirty[c] =>
         /\ delta = 0 => NodesUpjoin(zset, k.node, k.weight) = zset
         /\ \A q : /\ q.zadd = [m \in DOMAIN F |-> F[m] + delta]
                   /\ q.zrem = {}
                   => Applied(zset, q) = NodesUpjoin(zset, k.node, k.weight)
  BY <1>1, <1>3, UpjoinApplies
<1>7. CASE delta = 0 /\ Return(c)
  <2>1. zset = Result(zset, k) \/ StaleShortcut(c)
    BY <1>1, <1>6, <1>7 DEF Result, StaleShortcut
  <2> QED BY <1>2, <1>7, <2>1, ReturnPreserves
<1>8. CASE Queues
  <2>1. /\ p.zadd = [m \in DOMAIN F |-> F[m] + delta] /\ p.zrem = {}
    BY DEF NoPipe
  <2>2. DOMAIN F \subseteq Node /\ \A m \in DOMAIN F : F[m] \in Int
    BY <1>3 DEF RangeFrom, IsZSet
  <2>3. IsZSet(p.zadd, Node)
    <3> HIDE DEF F, delta, p
    <3> QED BY <2>1, <2>2, <1>4 DEF IsZSet
  <2>4. /\ Moves(c) /\ dirty'[c] = dirty[c] /\ call'[c] = k
        /\ pc'[c] = "exec" /\ rank'[c] = r /\ pipe'[c] = p
    <3> HIDE DEF F, delta
    <3> QED BY <1>1, <1>8 DEF Moves, IInv, Arrays
  <2> HIDE DEF p, delta, F, Queues
  <2>5. CallerOK(k, "exec", r, p)
    BY <1>1, <2>1, <2>3 DEF CallerOK, PCs
  <2>6. ~dirty[c] => Fresh(zset, k, "exec", r, p)
    BY <1>1, <1>6, <2>1 DEF Fresh, Result
  <2> QED BY <1>1, <1>2, <2>4, <2>5, <2>6, CallerSteps
<1> QED BY <1>5, <1>7, <1>8

LEMMA ZrangeUnwrapPreserves ==
    ASSUME IInv, NEW c \in Client, ZrangeUnwrapPanics(c)
    PROVE  IInv' /\ Atomic
<1>1. /\ Moves(c) /\ dirty'[c] = dirty[c] /\ dirty[c] \in BOOLEAN
      /\ call'[c] = call[c] /\ pc'[c] = "panicked"
      /\ rank'[c] = rank[c] /\ pipe'[c] = pipe[c]
  BY DEF ZrangeUnwrapPanics, Goto, Moves, IInv, Arrays
<1>2. CallerOK(call[c], "panicked", rank[c], pipe[c])
  BY DEF ZrangeUnwrapPanics, IInv, CallerOK, PCs
<1>3. Fresh(zset, call[c], "panicked", rank[c], pipe[c])
  BY DEF Fresh
<1>4. ops' \in 0..MaxOps /\ UNCHANGED zset
  BY DEF ZrangeUnwrapPanics, IInv
<1> QED BY <1>1, <1>2, <1>3, <1>4, CallerSteps

LEMMA ZrangeLeftPreserves ==
    ASSUME IInv, NEW c \in Client, ZrangeLeft(c)
    PROVE  IInv' /\ Atomic
<1> DEFINE k == call[c]
           r == rank[c]
           F == RangeFrom(zset, r + 1)
           p == [zadd |-> [m \in DOMAIN F |-> F[m] - k.weight], zrem |-> {k.node}]
<1>1. /\ pc[c] = "zrange" /\ k \in Call /\ k.fn = "node_lefts"
      /\ r \in Nat /\ (r = 0 \/ r < Cardinality(Node))
      /\ dirty[c] \in BOOLEAN
      /\ ~dirty[c] => k.node \in DOMAIN zset /\ r = RankOf(zset, k.node)
  BY DEF ZrangeLeft, IInv, CallerOK, Arrays, Fresh
<1>2. ops' \in 0..MaxOps /\ UNCHANGED zset
  BY DEF ZrangeLeft, IInv
<1>3. IsZSet(zset, Node) /\ FiniteZSet(zset) /\ k.node \in Node /\ k.weight \in Int
  BY <1>1, SetIsFinite, CallsAreTyped DEF IInv
<1>4. /\ Moves(c) /\ dirty'[c] = dirty[c] /\ call'[c] = k
      /\ pc'[c] = "exec" /\ rank'[c] = r /\ pipe'[c] = p
  BY DEF ZrangeLeft, Goto, Moves, IInv, Arrays
<1>5. p.zadd = [m \in DOMAIN F |-> F[m] - k.weight] /\ p.zrem = {k.node}
  OBVIOUS
<1>6. DOMAIN F \subseteq Node /\ \A m \in DOMAIN F : F[m] \in Int
  BY <1>3 DEF RangeFrom, IsZSet
<1>7. IsZSet(p.zadd, Node)
  <2> HIDE DEF F, p, k
  <2> QED BY <1>3, <1>5, <1>6 DEF IsZSet
<1>8. ~dirty[c] => Applied(zset, p) = NodeLefts(zset, k.node, k.weight)
  <2> HIDE DEF p, k
  <2> QED BY <1>1, <1>3, <1>5, LeftApplies
<1> HIDE DEF p, F
<1>9. CallerOK(k, "exec", r, p)
  BY <1>1, <1>3, <1>5, <1>7 DEF CallerOK, PCs
<1>10. ~dirty[c] => Fresh(zset, k, "exec", r, p)
  BY <1>1, <1>8 DEF Fresh, Result
<1> QED BY <1>1, <1>2, <1>4, <1>9, <1>10, CallerSteps

LEMMA ExecFailsPreserves ==
    ASSUME IInv, NEW c \in Client, ExecFails(c)
    PROVE  IInv' /\ Atomic
<1>1. /\ Moves(c) /\ dirty'[c] = dirty[c] /\ dirty[c] \in BOOLEAN
      /\ call'[c] = call[c] /\ pc'[c] = "watch" /\ rank'[c] = 0 /\ pipe'[c] = NoPipe
  BY DEF ExecFails, Goto, Moves, IInv, Arrays
<1>2. CallerOK(call[c], "watch", 0, NoPipe)
  BY NoPipeIsTyped DEF ExecFails, IInv, CallerOK, PCs
<1>3. Fresh(zset, call[c], "watch", 0, NoPipe)
  BY DEF Fresh
<1>4. ops' \in 0..MaxOps /\ UNCHANGED zset
  BY DEF ExecFails, IInv
<1> QED BY <1>1, <1>2, <1>3, <1>4, CallerSteps

(* EXEC does what was queued, and who read the set before is told.         *)
LEMMA ExecPreserves ==
    ASSUME IInv, NEW c \in Client, Exec(c)
    PROVE  IInv' /\ Atomic
<1> DEFINE z == Applied(zset, pipe[c])
<1>1. /\ zset' = z /\ z = Result(zset, call[c])
      /\ pc[c] = "exec" /\ ops' \in 0..MaxOps
      /\ IsZSet(zset, Node) /\ IsZSet(pipe[c].zadd, Node)
  BY DEF Exec, IInv, Fresh, CallerOK
<1>2. IsZSet(z, Node)
  <2>1. DOMAIN z = (DOMAIN zset \cup DOMAIN pipe[c].zadd) \ pipe[c].zrem
    BY DEF Applied
  <2>2. \A m \in DOMAIN z :
           z[m] = IF m \in DOMAIN pipe[c].zadd THEN pipe[c].zadd[m] ELSE zset[m]
    BY DEF Applied
  <2>3. z = [m \in DOMAIN z |-> z[m]]
    BY DEF Applied
  <2> HIDE DEF z
  <2> QED BY <1>1, <2>1, <2>2, <2>3 DEF IsZSet
<1>3. dirty' \in [Client -> BOOLEAN]
  BY DEF Exec, Touch, IInv, Arrays
<1>4. /\ call' = [call EXCEPT ![c] = NoCall] /\ pc' = [pc EXCEPT ![c] = "idle"]
      /\ rank' = [rank EXCEPT ![c] = 0] /\ pipe' = [pipe EXCEPT ![c] = NoPipe]
  BY DEF Exec, Goto
<1>5. Arrays'
  BY <1>3, <1>4 DEF IInv, Arrays
<1>6. /\ call'[c] = NoCall /\ pc'[c] = "idle" /\ rank'[c] = 0 /\ pipe'[c] = NoPipe
      /\ \A e \in Client \ {c} :
            /\ call'[e] = call[e] /\ pc'[e] = pc[e]
            /\ rank'[e] = rank[e] /\ pipe'[e] = pipe[e]
  BY <1>4 DEF IInv, Arrays
<1>7. CallerOK(NoCall, "idle", 0, NoPipe) /\ Fresh(z, NoCall, "idle", 0, NoPipe)
  BY NoPipeIsTyped DEF CallerOK, Fresh, PCs
<1>8. ASSUME NEW e \in Client \ {c}, ~dirty'[e]
      PROVE  Fresh(z, call[e], pc[e], rank[e], pipe[e])
  <2>1. ~dirty[e] /\ (z = zset \/ pc[e] \in {"idle", "watch"})
    BY <1>8 DEF Exec, Touch
  <2>2. CASE z = zset
    BY <2>1, <2>2 DEF IInv
  <2>3. CASE pc[e] \in {"idle", "watch"}
    BY <2>3 DEF Fresh
  <2> QED BY <2>1, <2>2, <2>3
<1> HIDE DEF z
<1>9. IInv'
  BY <1>1, <1>2, <1>5, <1>6, <1>7, <1>8 DEF IInv
<1>10. Atomic
  BY <1>1, <1>6 DEF Atomic
<1> QED BY <1>9, <1>10

---------------------------------------------------------------------------
LEMMA InitIInv ==
    Init => IInv
<1> SUFFICES ASSUME Init PROVE IInv
  OBVIOUS
<1>1. IsZSet(zset, Node) /\ ops \in 0..MaxOps
  BY TxnAssumption DEF Init
<1>2. Arrays
  BY DEF Init, Arrays
<1>3. CallerOK(NoCall, "idle", 0, NoPipe) /\ Fresh(zset, NoCall, "idle", 0, NoPipe)
  BY NoPipeIsTyped DEF CallerOK, Fresh, PCs
<1>4. \A c \in Client : /\ call[c] = NoCall /\ pc[c] = "idle"
                        /\ rank[c] = 0 /\ pipe[c] = NoPipe
  BY DEF Init
<1> QED BY <1>1, <1>2, <1>3, <1>4 DEF IInv

LEMMA StepPreserves ==
    ASSUME IInv, [Next]_vars PROVE IInv' /\ Atomic
<1>1. CASE UNCHANGED vars
  BY <1>1 DEF vars, IInv, Arrays, Atomic
<1>2. ASSUME NEW c \in Client, Begin(c) \/ Step(c) PROVE IInv' /\ Atomic
  <2>1. CASE Begin(c)
    BY <2>1, BeginPreserves
  <2>2. CASE Watch(c)
    BY <2>2, WatchPreserves
  <2>3. CASE ZrankUpjoin(c) \/ ZrankLeft(c)
    BY <2>3, ZrankPreserves
  <2>4. CASE ZrangeLast(c)
    BY <2>4, ZrangeLastPreserves
  <2>5. CASE ZrangeUpjoin(c)
    BY <2>5, ZrangeUpjoinPreserves
  <2>6. CASE ZrangeUnwrapPanics(c)
    BY <2>6, ZrangeUnwrapPreserves
  <2>7. CASE ZrangeLeft(c)
    BY <2>7, ZrangeLeftPreserves
  <2>8. CASE Exec(c)
    BY <2>8, ExecPreserves
  <2>9. CASE ExecFails(c)
    BY <2>9, ExecFailsPreserves
  <2> QED BY <1>2, <2>1, <2>2, <2>3, <2>4, <2>5, <2>6, <2>7, <2>8, <2>9 DEF Step
<1> QED BY <1>1, <1>2 DEF Next

(* The stored scores, the calls, the commands and the replies of every     *)
(* caller have their types, whatever comes between a caller's commands: a  *)
(* rank is one of a member, and a stale answer still gives a score.        *)
THEOREM TypesAreKept ==
    ASSUME Node # {} PROVE Spec => []TypeOK
<1>1. Cardinality(Node) \in Nat /\ Cardinality(Node) # 0
  BY TxnAssumption, FS_CardinalityType, FS_EmptySet
<1>2. IInv => TypeOK
  <2> SUFFICES ASSUME IInv PROVE TypeOK
    OBVIOUS
  <2>1. \A c \in Client : CallerOK(call[c], pc[c], rank[c], pipe[c])
    BY DEF IInv
  <2>2. call \in [Client -> Call \cup {NoCall}]
    BY <2>1 DEF IInv, Arrays, CallerOK
  <2> QED BY <1>1, <2>1, <2>2 DEF IInv, Arrays, CallerOK, PCs, TypeOK
<1> QED BY <1>2, InitIInv, StepPreserves, PTL DEF Spec

(* A call of redis.rs that returns has done at its last command, on the    *)
(* set as it then is, all that it is for, however many callers' commands   *)
(* came between its own, unless it returns without EXEC on a stale answer. *)
THEOREM TransactionsAreAtomic ==
    Spec => CallsAreAtomic
<1>1. IInv /\ [Next]_vars => IInv'
  BY StepPreserves
<1>2. IInv /\ [Next]_vars => Atomic
  BY StepPreserves
<1>3. IInv /\ [Next]_vars =>
         [\A c \in Client :
             /\ pc[c] # "idle"
             /\ pc'[c] = "idle"
             => zset' = Result(zset, call[c]) \/ StaleShortcut(c)]_vars
  BY <1>2 DEF Atomic
<1> QED BY <1>1, <1>3, InitIInv, PTL DEF Spec, CallsAreAtomic
=============================================================================
