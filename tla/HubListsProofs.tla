--------------------------- MODULE HubListsProofs ---------------------------
(***************************************************************************)
(* For any stores, requests and cronjobs, with overlaps and failures but   *)
(* for those named: redis has the members of the domains, with their       *)
(* weights, and a step changes the weight of one node only, as long as a   *)
(* node is dealt with by one at a time, a request or a pass.  And where it *)
(* is not: what the repairs of a pass bring back in line.                  *)
(***************************************************************************)
EXTENDS HubQuietProofs

---------------------------------------------------------------------------
(* The condition. *)

StartsAgreed ==
    \A i \in Initial : \A d \in Domain :
        /\ Cumulative(i.zset[d])
        /\ \A n \in DOMAIN i.zset[d] :
              /\ n \in DOMAIN i.members
              /\ i.members[n] = [domain |-> d, weight |-> WeightOf(i.zset[d], n)]

(* The operations that change a row of a domain or a list. *)
ListOps == {"NewProxy", "CloseProxy", "PUT", "DELETE"}

(* The nodes the pass has read of. *)
Held == DOMAIN pass.rows \cup DOMAIN pass.seen

(* A node is dealt with by one handler at a time, or by the pass. *)
NodesApart ==
    /\ Apart(ListOps)
    /\ \A s \in Slot : task[s].op \in ListOps => Names(task[s]) \cap Held = {}

---------------------------------------------------------------------------
(* The inductive invariant, on top of that of HubProofs.  It speaks of the *)
(* weights the lists stand for.                                            *)

Shares == [d \in Domain |-> Weights(zset[d])]

(* In the lists W, node n has the weight of its row in M, and a place in   *)
(* its domain only.                                                        *)
Agrees(M, W, n) ==
    \A d \in Domain : n \in DOMAIN W[d] =>
        n \in DOMAIN M /\ M[n] = [domain |-> d, weight |-> W[d][n]]

(* k has changed the row of n and is about to tell redis. *)
Telling ==
    {<<"PUT", "nodes_upjoin">>, <<"PUT", "nodes_join">>, <<"DELETE", "node_lefts">>}
Tells(k, n) == <<k.op, k.pc>> \in Telling /\ Head(k.todo).node = n

(* The failures that matter do not happen: redis is told of a row changed. *)
RedisIsTold ==
    \A s \in Slot : Abort(s) \/ Restart => \A n \in Node : ~Tells(task[s], n)

(* k is about to call redis.rs, or to delete, with what the row says ... *)
Informed ==
    {<<"PUT", "nodes_upjoin">>, <<"PUT", "nodes_join">>, <<"DELETE", "delete">>,
     <<"NewProxy", "nodes_upjoin">>, <<"CloseProxy", "node_lefts">>}

(* ... and knows what redis has. *)
Knows(k, M, W) ==
    LET i == Head(k.todo)
    IN  /\ <<k.op, k.pc>> \in Informed
           => i.node \in DOMAIN M /\ M[i.node] = [domain |-> i.domain, weight |-> i.weight]
        /\ <<k.op, k.pc>> = <<"PUT", "nodes_upjoin">>
           => \A d \in Domain : i.node \in DOMAIN W[d] => d = i.domain
        /\ <<k.op, k.pc>> = <<"PUT", "nodes_join">>
           => \A d \in Domain : i.node \notin DOMAIN W[d]
        /\ <<k.op, k.pc>> = <<"DELETE", "node_lefts">>
           => /\ i.domain \in Domain
              /\ \A d \in Domain : i.node \in DOMAIN W[d]
                                   => d = i.domain /\ W[d][i.node] = i.weight

(* What the pass p has read still holds. *)
PassKnows(p, M, W) ==
    /\ p.pc \in {"get_domain_nodes", "repair"}
       => \A n \in DOMAIN p.rows :
             n \in DOMAIN M /\ M[n] = [domain |-> p.domain, weight |-> p.rows[n]]
    /\ p.pc = "repair"
       => /\ \A n \in p.missing : n \notin DOMAIN W[p.domain]
          /\ \A n \in p.extra : n \in DOMAIN W[p.domain]
                                /\ WeightOf(p.seen, n) = W[p.domain][n]

Lists == \A d \in Domain : Cumulative(zset[d])

LInv ==
    /\ Lists
    /\ PassKnows(pass, members, Shares)
    /\ \A s \in Slot : Knows(task[s], members, Shares)
    /\ \A n \in Node : Agrees(members, Shares, n) \/ \E s \in Slot : Tells(task[s], n)

---------------------------------------------------------------------------
(* What the functions of redis.rs do to the weights. *)

OneNodeOnly == \A d \in Domain : [DW(d)!Next]_(Weights(zset[d]))

Sets(d, n, w) ==
    /\ DOMAIN Shares'[d] = DOMAIN Shares[d] \cup {n} /\ Shares'[d][n] = w
    /\ \A m \in DOMAIN Shares[d] \ {n} : Shares'[d][m] = Shares[d][m]
    /\ \A e \in Domain \ {d} : Shares'[e] = Shares[e]

Drops(d, n) ==
    /\ DOMAIN Shares'[d] = DOMAIN Shares[d] \ {n}
    /\ \A m \in DOMAIN Shares[d] \ {n} : Shares'[d][m] = Shares[d][m]
    /\ \A e \in Domain \ {d} : Shares'[e] = Shares[e]

LEMMA ListTells ==
    ASSUME Stores, NEW d \in Domain
    PROVE  /\ FiniteZSet(zset[d]) /\ Shares[d] = Weights(zset[d])
           /\ DOMAIN Shares[d] = DOMAIN zset[d]
           /\ \A m \in DOMAIN zset[d] : Shares[d][m] = WeightOf(zset[d], m)
<1>1. IsZSet(zset[d], Node) /\ Node \subseteq Nat /\ IsFiniteSet(Node)
  BY StoreAssumption DEF Stores
<1> QED BY <1>1, FS_Subset DEF IsZSet, FiniteZSet, Shares, Weights

(* A step that replaces the list of d, and leaves the weights W. *)
LEMMA ListReplaced ==
    ASSUME Stores, Lists, NEW d \in Domain, NEW z, zset' = [zset EXCEPT ![d] = z],
           Cumulative(z)
    PROVE  /\ Lists' /\ Shares'[d] = Weights(z)
           /\ \A e \in Domain \ {d} : Shares'[e] = Shares[e]
<1>1. zset'[d] = z /\ \A e \in Domain \ {d} : zset'[e] = zset[e]
  BY DEF Stores
<1> QED BY <1>1 DEF Lists, Shares

(* Setting or dropping one node is a step of DomainWeights in its list,    *)
(* and none in the others.                                                 *)
LEMMA SetIsNext ==
    ASSUME NEW d \in Domain, NEW n \in Node, NEW w \in Weight, Sets(d, n, w)
    PROVE  OneNodeOnly
<1>1. \A e \in Domain : Shares[e] = Weights(zset[e]) /\ Shares'[e] = Weights(zset'[e])
  BY DEF Shares
<1>2. Weights(zset'[d]) = [m \in DOMAIN zset'[d] |-> Weights(zset'[d])[m]]
  BY DEF Weights
<1>3. DOMAIN zset'[d] = DOMAIN Weights(zset'[d])
  BY DEF Weights
<1>4. DW(d)!Set(n, w)
  BY <1>1, <1>2, <1>3 DEF DW!Set, Sets
<1> QED BY <1>1, <1>4 DEF OneNodeOnly, DW!Next, Sets

LEMMA DropIsNext ==
    ASSUME NEW d \in Domain, NEW n \in Node, Drops(d, n)
    PROVE  OneNodeOnly
<1>1. \A e \in Domain : Shares[e] = Weights(zset[e]) /\ Shares'[e] = Weights(zset'[e])
  BY DEF Shares
<1>2. Weights(zset'[d]) = [m \in DOMAIN zset'[d] |-> Weights(zset'[d])[m]]
  BY DEF Weights
<1>3. DOMAIN zset'[d] = DOMAIN Weights(zset'[d])
  BY DEF Weights
<1>4. DW(d)!Drop(n)
  BY <1>1, <1>2, <1>3 DEF DW!Drop, Drops
<1> QED BY <1>1, <1>4 DEF OneNodeOnly, DW!Next, Drops

LEMMA UpjoinSets ==
    ASSUME Stores, Lists, NEW d \in Domain, NEW n \in Node, NEW w \in Weight,
           \/ zset' = [zset EXCEPT ![d] = NodesUpjoin(@, n, w)]
           \/ n \notin DOMAIN Shares[d] /\ zset' = [zset EXCEPT ![d] = NodesJoin(@, n, w)]
    PROVE  Lists' /\ Sets(d, n, w) /\ OneNodeOnly
<1> DEFINE z == zset[d]
<1>1. FiniteZSet(z) /\ Cumulative(z) /\ Shares[d] = Weights(z) /\ DOMAIN Shares[d] = DOMAIN z
  BY ListTells DEF Lists
<1>2. n \in Nat /\ w \in Nat \ {0}
  BY StoreAssumption
<1> DEFINE y == IF n \in DOMAIN z THEN NodesUpjoin(z, n, w) ELSE NodesJoin(z, n, w)
<1>3. zset' = [zset EXCEPT ![d] = y]
  BY <1>1 DEF NodesUpjoin
<1> HIDE DEF z
<1>4. /\ Cumulative(y)
      /\ Weights(y) = [m \in DOMAIN z \cup {n} |-> IF m = n THEN w ELSE Weights(z)[m]]
  <2>1. CASE n \in DOMAIN z
    <3>1. DOMAIN z = DOMAIN z \cup {n} /\ y = NodesUpjoin(z, n, w)
      BY <2>1
    <3> QED BY <1>1, <1>2, <2>1, <3>1, NodesUpjoinMoves
  <2>2. CASE n \notin DOMAIN z
    <3>1. y = NodesJoin(z, n, w)
      BY <2>2
    <3> QED BY <1>1, <1>2, <2>2, <3>1, NodesJoinAppends
  <2> QED BY <2>1, <2>2
<1> HIDE DEF y
<1>5. Lists' /\ Shares'[d] = Weights(y) /\ \A e \in Domain \ {d} : Shares'[e] = Shares[e]
  BY <1>3, <1>4, ListReplaced
<1>6. Sets(d, n, w)
  BY <1>1, <1>4, <1>5 DEF Sets
<1> QED BY <1>5, <1>6, SetIsNext

LEMMA LeftDrops ==
    ASSUME Stores, Lists, NEW d \in Domain, NEW n \in Node, NEW w,
           n \in DOMAIN Shares[d] => w = Shares[d][n],
           zset' = [zset EXCEPT ![d] = NodeLefts(@, n, w)]
    PROVE  Lists' /\ Drops(d, n) /\ OneNodeOnly
<1> DEFINE z == zset[d]
           y == NodeLefts(z, n, w)
<1>1. /\ FiniteZSet(z) /\ Cumulative(z) /\ Shares[d] = Weights(z)
      /\ DOMAIN Shares[d] = DOMAIN z
      /\ n \in DOMAIN z => w = WeightOf(z, n)
  BY ListTells DEF Lists
<1>2. zset' = [zset EXCEPT ![d] = y]
  OBVIOUS
<1> HIDE DEF z
<1>3. Cumulative(y) /\ Weights(y) = [m \in DOMAIN z \ {n} |-> Weights(z)[m]]
  <2>1. CASE n \in DOMAIN z
    BY <1>1, <2>1, NodeLeftsRemoves
  <2>2. CASE n \notin DOMAIN z
    <3>1. y = z /\ DOMAIN z \ {n} = DOMAIN z
      BY <2>2 DEF NodeLefts
    <3> QED BY <1>1, <3>1 DEF Weights
  <2> QED BY <2>1, <2>2
<1> HIDE DEF y
<1>4. Lists' /\ Shares'[d] = Weights(y) /\ \A e \in Domain \ {d} : Shares'[e] = Shares[e]
  BY <1>2, <1>3, ListReplaced
<1>5. Drops(d, n)
  BY <1>1, <1>3, <1>4 DEF Drops
<1> QED BY <1>4, <1>5, DropIsNext

---------------------------------------------------------------------------
(* What a step of a handler does to the handler. *)

(* It is done, or takes its next node, and then knows nothing. *)
LEMMA KnowsNothing ==
    ASSUME Handlers, NEW s \in Slot,
           \/ Done(s)
           \/ /\ task[s].op \in {"PUT", "DELETE"}
              /\ \E c \in {"query_domain_node", "delete_domain_node"} : NextItem(s, c)
    PROVE  Moved(s) /\ \A M, W : Knows(task'[s], M, W)
<1>1. Moved(s)
  BY Gone, GoingOn
<1>2. CASE Done(s)
  <2>1. task'[s].op = "none"
    BY <1>2 DEF Handlers, Done, Idle
  <2> QED BY <1>1, <2>1 DEF Knows, Informed
<1>3. CASE ~Done(s)
  <2>1. PICK c \in {"query_domain_node", "delete_domain_node"} : NextItem(s, c)
    BY <1>3
  <2>2. task[s] \in Task
    BY <1>3, AtHand DEF RequestOK
  <2>3. task'[s] = [task[s] EXCEPT !.pc = c, !.todo = Tail(@)]
    BY <1>3, <2>1 DEF Handlers, NextItem
  <2>4. task'[s].pc = c
    BY <2>2, <2>3 DEF Task
  <2> QED BY <1>1, <2>1, <2>4 DEF Knows, Informed
<1> QED BY <1>2, <1>3

(* The node at hand of a handler, and a node the pass has read of, are     *)
(* theirs alone.                                                           *)
LEMMA MineAgrees ==
    ASSUME Handlers, NodesApart, LInv, NEW s \in Slot,
           task[s].op \in ListOps, ~Tells(task[s], This(s).node)
    PROVE  Agrees(members, Shares, This(s).node)
<1>1. This(s).node \in Node /\ This(s).node \in Names(task[s])
  BY AtHand, HeadIsNamed DEF ListOps
<1>2. ASSUME NEW t \in Slot, Tells(task[t], This(s).node) PROVE FALSE
  <2>1. This(t).node = This(s).node /\ t # s /\ task[t].op \in ListOps
    BY <1>2 DEF Tells, Telling, This, ListOps
  <2>2. This(t).node \in Names(task[t])
    BY <2>1, HeadIsNamed DEF ListOps
  <2> QED BY <1>1, <2>1, <2>2 DEF NodesApart, Apart
<1> QED BY <1>1, <1>2 DEF LInv

LEMMA HeldAgrees ==
    ASSUME Handlers, NodesApart, LInv, NEW n \in Held, n \in Node
    PROVE  Agrees(members, Shares, n)
<1>1. ASSUME NEW t \in Slot, Tells(task[t], n) PROVE FALSE
  <2>1. This(t).node = n /\ task[t].op \in ListOps
    BY <1>1 DEF Tells, Telling, This, ListOps
  <2>2. n \in Names(task[t])
    BY <2>1, HeadIsNamed DEF ListOps
  <2> QED BY <2>1, <2>2 DEF NodesApart
<1> QED BY <1>1 DEF LInv

---------------------------------------------------------------------------
(* What LInv asks of a handler's step. *)

(* Node m has the same row and the same weights as before. *)
Same(m) ==
    /\ m \in DOMAIN members' <=> m \in DOMAIN members
    /\ m \in DOMAIN members => members'[m] = members[m]
    /\ \A d \in Domain :
          /\ m \in DOMAIN Shares'[d] <=> m \in DOMAIN Shares[d]
          /\ m \in DOMAIN Shares[d] => Shares'[d][m] = Shares[d][m]

LEMMA SameAgrees ==
    ASSUME NEW m, Same(m)
    PROVE  /\ Agrees(members, Shares, m) => Agrees(members', Shares', m)
           /\ \A k : Head(k.todo).node = m /\ Knows(k, members, Shares)
                     => Knows(k, members', Shares')
<1>1. Agrees(members, Shares, m) => Agrees(members', Shares', m)
  BY DEF Same, Agrees
<1>2. ASSUME NEW k, Head(k.todo).node = m, Knows(k, members, Shares)
      PROVE  Knows(k, members', Shares')
  BY <1>2 DEF Same, Knows
<1> QED BY <1>1, <1>2

LEMMA HandlerInforms ==
    ASSUME Handlers, Cron, NodesApart, LInv, NEW s \in Slot, Moved(s), UNCHANGED pass,
           task[s].op \in ListOps,
           Lists', \A m \in Node \ {This(s).node} : Same(m),
           Knows(task'[s], members', Shares'),
           \/ Agrees(members', Shares', This(s).node)
           \/ Tells(task'[s], This(s).node)
    PROVE  LInv'
<1> DEFINE n == This(s).node
<1>1. n \in Names(task[s])
  BY HeadIsNamed DEF ListOps
<1>2. PassKnows(pass', members', Shares')
  <2>1. /\ n \notin DOMAIN pass.rows /\ n \notin DOMAIN pass.seen
        /\ DOMAIN pass.rows \subseteq Node /\ DOMAIN pass.seen \subseteq Node
        /\ pass.missing \subseteq DOMAIN pass.rows /\ pass.extra \subseteq DOMAIN pass.seen
        /\ pass.pc \in {"get_domain_nodes", "repair"} => pass.domain \in Domain
    BY <1>1 DEF NodesApart, Held, Cron, PassOK, IsTable, IsZSet
  <2>2. \A m \in DOMAIN pass.rows \cup DOMAIN pass.seen : Same(m)
    BY <2>1
  <2> QED BY <2>1, <2>2 DEF LInv, PassKnows, Same
<1>3. ASSUME NEW t \in Slot PROVE Knows(task'[t], members', Shares')
  <2>1. CASE t # s
    <3>1. task'[t] = task[t] /\ Knows(task[t], members, Shares)
      BY <2>1 DEF Moved, LInv
    <3>2. CASE <<task[t].op, task[t].pc>> \in Informed \cup Telling
      <4>1. task[t].op \in ListOps
        BY <3>2 DEF Informed, Telling, ListOps
      <4>2. This(t).node \in Node /\ This(t).node \in Names(task[t])
        BY <4>1, AtHand, HeadIsNamed DEF ListOps
      <4>3. This(t).node # n
        BY <1>1, <2>1, <4>1, <4>2 DEF NodesApart, Apart
      <4> QED BY <3>1, <4>2, <4>3, SameAgrees DEF This
    <3>3. CASE <<task[t].op, task[t].pc>> \notin Informed \cup Telling
      BY <3>1, <3>3 DEF Knows, Informed, Telling
    <3> QED BY <3>2, <3>3
  <2> QED BY <2>1
<1>4. ASSUME NEW m \in Node
      PROVE  Agrees(members', Shares', m) \/ \E t \in Slot : Tells(task'[t], m)
  <2>1. CASE m # n
    <3>1. CASE Agrees(members, Shares, m)
      BY <2>1, <3>1, SameAgrees
    <3>2. ASSUME NEW t \in Slot, Tells(task[t], m) PROVE Tells(task'[t], m)
      BY <2>1, <3>2 DEF Tells, Moved, This
    <3> QED BY <3>1, <3>2 DEF LInv
  <2> QED BY <2>1
<1> QED BY <1>2, <1>3, <1>4 DEF LInv

LEMMA RowsSay ==
    ASSUME Stores, NEW n \in Node, Agrees(members, Shares, n), NEW e, NEW w,
           n \in DOMAIN members, members[n] = [domain |-> e, weight |-> w]
    PROVE  /\ e \in Domain /\ w \in Weight
           /\ \A d \in Domain : n \in DOMAIN Shares[d] => d = e /\ w = Shares[d][n]
<1>1. members[n].domain = e /\ members[n].weight = w
  OBVIOUS
<1>2. members[n] \in DomainRow(Domain, Weight)
  BY DEF Stores, IsTable
<1>3. ASSUME NEW d \in Domain, n \in DOMAIN Shares[d]
      PROVE  members[n].domain = d /\ members[n].weight = Shares[d][n]
  <2>1. members[n] = [domain |-> d, weight |-> Shares[d][n]]
    BY <1>3 DEF Agrees
  <2> QED BY <2>1
<1> QED BY <1>1, <1>2, <1>3 DEF DomainRow

(* A step that changes neither a row nor a list, of a handler that is not  *)
(* about to tell redis.                                                    *)
LEMMA HandlerLooks ==
    ASSUME LInv, NEW s \in Slot, Moved(s), UNCHANGED <<members, zset, pass>>,
           Knows(task'[s], members, Shares), \A n \in Node : ~Tells(task[s], n)
    PROVE  LInv' /\ OneNodeOnly
<1>1. UNCHANGED <<Shares, Lists>> /\ OneNodeOnly
  BY DEF Shares, Lists, OneNodeOnly
<1>2. \A t \in Slot : Knows(task'[t], members', Shares')
  BY <1>1 DEF LInv, Moved
<1>3. ASSUME NEW m \in Node
      PROVE  Agrees(members', Shares', m) \/ \E t \in Slot : Tells(task'[t], m)
  BY <1>1 DEF LInv, Moved
<1>4. PassKnows(pass', members', Shares')
  BY <1>1 DEF LInv
<1> QED BY <1>1, <1>2, <1>3, <1>4 DEF LInv

(* A step that sets or drops the node at hand in the list of its domain. *)
LEMMA HandlerSets ==
    ASSUME Handlers, Cron, NodesApart, LInv, NEW s \in Slot, Moved(s),
           UNCHANGED <<members, pass>>,
           task[s].op \in ListOps, Lists',
           Knows(task'[s], members', Shares'),
           NEW d \in Domain, NEW w,
           \/ Drops(d, This(s).node)
           \/ /\ Sets(d, This(s).node, w)
              /\ This(s).node \in DOMAIN members
              /\ members[This(s).node] = [domain |-> d, weight |-> w],
           \A e \in Domain : This(s).node \in DOMAIN Shares[e] => e = d
    PROVE  LInv'
<1> DEFINE n == This(s).node
<1>1. \A m \in Node \ {n} : Same(m)
  BY DEF Same, Sets, Drops
<1>2. Agrees(members', Shares', n)
  <2>1. CASE Drops(d, n)
    BY <2>1 DEF Agrees, Drops
  <2>2. CASE /\ Sets(d, n, w) /\ n \in DOMAIN members
             /\ members[n] = [domain |-> d, weight |-> w]
    BY <2>2 DEF Agrees, Sets
  <2> QED BY <2>1, <2>2
<1> QED BY <1>1, <1>2, HandlerInforms

LEMMA GotoKnows ==
    ASSUME Handlers, NEW s \in Slot, task[s].op # "none", NEW c, Goto(s, c),
           <<task[s].op, c>> \notin Informed \cup Telling
    PROVE  Moved(s) /\ \A M, W : Knows(task'[s], M, W)
<1>1. Goes(s, c)
  BY Going
<1> QED BY <1>1 DEF Goes, Knows, Informed, Telling

LEMMA GotoWithKnows ==
    ASSUME Stores, Handlers, Cron, NodesApart, LInv, NEW s \in Slot, NEW c,
           <<task[s].op, c>> \in {<<"NewProxy", "nodes_upjoin">>,
                                  <<"CloseProxy", "node_lefts">>, <<"DELETE", "delete">>},
           This(s).node \in DOMAIN members, GotoWith(s, c, members[This(s).node])
    PROVE  Moved(s) /\ Knows(task'[s], members, Shares)
<1> DEFINE n == This(s).node
<1>1. /\ Goes(s, c)
      /\ Head(task'[s].todo).domain = members[n].domain
      /\ Head(task'[s].todo).weight = members[n].weight
  BY GoingWith
<1>2. members[n] = [domain |-> members[n].domain, weight |-> members[n].weight]
  BY DEF Stores, IsTable, DomainRow
<1> QED BY <1>1, <1>2 DEF Goes, Knows

---------------------------------------------------------------------------
(* The handlers, call by call. *)

LEMMA QueriesLook ==
    ASSUME Stores, Handlers, Cron, NodesApart, LInv, NEW s \in Slot, UNCHANGED pass,
           \/ CountDevice(s) \/ CreateDevice(s) \/ SetSubdomain(s) \/ QueryDevice(s)
           \/ QueryNode(s) \/ ReopenNode(s) \/ CreateNode(s) \/ DelSubdomain(s)
           \/ CloseNode(s) \/ QueryClosed(s) \/ Ping(s) \/ HealthStep(s)
           \/ QueryMember(s) \/ QueryOnline(s)
    PROVE  LInv' /\ OneNodeOnly
<1>1. /\ UNCHANGED <<members, zset>> /\ task[s].op # "none"
      /\ \A n : ~Tells(task[s], n)
  BY DEF CountDevice, CreateDevice, SetSubdomain, QueryDevice, QueryNode, ReopenNode,
         CreateNode, DelSubdomain, CloseNode, QueryClosed, Ping, HealthStep, ReadHealth,
         SetAvail, SetUnavail, QueryMember, QueryOnline, At, db, redis, Tells, Telling
<1>2. \/ Done(s)
      \/ task[s].op = "PUT" /\ NextItem(s, "query_domain_node")
      \/ \E c : Goto(s, c) /\ <<task[s].op, c>> \notin Informed \cup Telling
  BY DEF CountDevice, CreateDevice, SetSubdomain, QueryDevice, QueryNode, ReopenNode,
         CreateNode, DelSubdomain, CloseNode, QueryClosed, Ping, HealthStep, ReadHealth,
         SetAvail, SetUnavail, QueryMember, QueryOnline, At, Informed, Telling
<1>3. Moved(s) /\ Knows(task'[s], members, Shares)
  BY <1>1, <1>2, KnowsNothing, GotoKnows
<1> QED BY <1>1, <1>3, HandlerLooks

(* The reads whose row is used in the next call. *)
LEMMA RowsAreKnown ==
    ASSUME Stores, Handlers, Cron, NodesApart, LInv, NEW s \in Slot, UNCHANGED pass,
           \/ QueryDomainOf(s, "NewProxy", "nodes_upjoin")
           \/ QueryDomainOf(s, "CloseProxy", "node_lefts")
           \/ QueryDeleted(s)
    PROVE  LInv' /\ OneNodeOnly
<1>1. /\ UNCHANGED <<members, zset>> /\ task[s].op \in {"NewProxy", "CloseProxy", "DELETE"}
      /\ \A n : ~Tells(task[s], n)
  BY DEF QueryDomainOf, QueryDeleted, At, db, redis, Tells, Telling
<1>2. \/ Done(s)
      \/ task[s].op = "DELETE" /\ NextItem(s, "delete_domain_node")
      \/ \E c : /\ <<task[s].op, c>> \in {<<"NewProxy", "nodes_upjoin">>,
                      <<"CloseProxy", "node_lefts">>, <<"DELETE", "delete">>}
                /\ This(s).node \in DOMAIN members
                /\ GotoWith(s, c, members[This(s).node])
  BY DEF QueryDomainOf, QueryDeleted, At, InDomain
<1>3. Moved(s) /\ Knows(task'[s], members, Shares)
  BY <1>2, KnowsNothing, GotoWithKnows
<1> QED BY <1>1, <1>3, HandlerLooks

(* The calls of redis.rs. *)
LEMMA UpjoinsAgree ==
    ASSUME Stores, Handlers, Cron, NodesApart, LInv, NEW s \in Slot, UNCHANGED pass,
           Rejoin(s) \/ UpjoinMember(s) \/ JoinMember(s)
    PROVE  LInv' /\ OneNodeOnly
<1> DEFINE i == This(s)
           n == i.node
           d == i.domain
           w == i.weight
<1>1. /\ UNCHANGED members
      /\ \/ zset' = [zset EXCEPT ![d] = NodesUpjoin(@, n, w)]
         \/ /\ task[s].op = "PUT" /\ task[s].pc = "nodes_join"
            /\ zset' = [zset EXCEPT ![d] = NodesJoin(@, n, w)]
  BY DEF Rejoin, UpjoinMember, JoinMember, At, db
<1>2. <<task[s].op, task[s].pc>> \in {<<"NewProxy", "nodes_upjoin">>,
         <<"PUT", "nodes_upjoin">>, <<"PUT", "nodes_join">>}
  BY DEF Rejoin, UpjoinMember, JoinMember, At
<1>3. Done(s) \/ (task[s].op = "PUT" /\ NextItem(s, "query_domain_node"))
  BY DEF Rejoin, UpjoinMember, JoinMember, At
<1>4. Knows(task[s], members, Shares)
  BY DEF LInv
<1>5. n \in DOMAIN members /\ members[n] = [domain |-> d, weight |-> w]
  BY <1>2, <1>4 DEF Knows, Informed, This
<1>6. n \in Node /\ d \in Domain /\ w \in Weight
  <2>1. n \in Node /\ members[n] \in DomainRow(Domain, Weight)
    BY <1>5 DEF Stores, IsTable
  <2> QED BY <1>5, <2>1 DEF DomainRow
<1>7. \A e \in Domain : n \in DOMAIN Shares[e] => e = d
  <2>1. CASE task[s].op = "PUT"
    BY <1>2, <1>4, <2>1 DEF Knows, This
  <2>2. CASE task[s].op = "NewProxy"
    <3>1. Agrees(members, Shares, n)
      BY <2>2, MineAgrees DEF Tells, Telling, ListOps
    <3> HIDE DEF n, d, w, i
    <3> QED BY <1>5, <1>6, <3>1, RowsSay
  <2> QED BY <1>2, <2>1, <2>2
<1>8. task[s].op = "PUT" /\ task[s].pc = "nodes_join" => n \notin DOMAIN Shares[d]
  BY <1>4, <1>6 DEF Knows, This
<1> HIDE DEF n, d, w, i
<1>9. Lists' /\ Sets(d, n, w) /\ OneNodeOnly
  BY <1>1, <1>6, <1>8, UpjoinSets DEF LInv
<1>10. Moved(s) /\ Knows(task'[s], members', Shares')
  BY <1>3, KnowsNothing
<1> QED BY <1>1, <1>2, <1>5, <1>6, <1>7, <1>9, <1>10, HandlerSets DEF n, i, ListOps

LEMMA LeftsAgree ==
    ASSUME Stores, Handlers, Cron, NodesApart, LInv, NEW s \in Slot, UNCHANGED pass,
           Leave(s) \/ LeftMember(s)
    PROVE  LInv' /\ OneNodeOnly
<1> DEFINE i == This(s)
           n == i.node
           d == i.domain
           w == i.weight
<1>1. UNCHANGED members /\ zset' = [zset EXCEPT ![d] = NodeLefts(@, n, w)]
  BY DEF Leave, LeftMember, db
<1>2. <<task[s].op, task[s].pc>> \in {<<"CloseProxy", "node_lefts">>,
                                      <<"DELETE", "node_lefts">>}
  BY DEF Leave, LeftMember, At
<1>3. Done(s) \/ (task[s].op = "DELETE" /\ NextItem(s, "delete_domain_node"))
  BY DEF Leave, LeftMember, At
<1>4. Knows(task[s], members, Shares) /\ n \in Node
  BY <1>2, AtHand DEF LInv
<1>5. /\ d \in Domain
      /\ \A e \in Domain : n \in DOMAIN Shares[e] => e = d /\ w = Shares[e][n]
  <2>1. CASE task[s].op = "DELETE"
    BY <1>2, <1>4, <2>1 DEF Knows, This
  <2>2. CASE task[s].op = "CloseProxy"
    <3>1. Agrees(members, Shares, n)
      BY <2>2, MineAgrees DEF Tells, Telling, ListOps
    <3>2. n \in DOMAIN members /\ members[n] = [domain |-> d, weight |-> w]
      BY <1>2, <1>4, <2>2 DEF Knows, Informed, This
    <3> HIDE DEF n, d, w, i
    <3> QED BY <1>4, <3>1, <3>2, RowsSay
  <2> QED BY <1>2, <2>1, <2>2
<1> HIDE DEF n, d, w, i
<1>6. Lists' /\ Drops(d, n) /\ OneNodeOnly
  BY <1>1, <1>4, <1>5, LeftDrops DEF LInv
<1>7. Moved(s) /\ Knows(task'[s], members', Shares')
  BY <1>3, KnowsNothing
<1> QED BY <1>1, <1>2, <1>5, <1>6, <1>7, HandlerSets DEF n, i, ListOps

(* PUT and DELETE change a row, and then tell redis. *)
LEMMA RowsChanged ==
    ASSUME Handlers, Cron, NodesApart, LInv, NEW s \in Slot, Moved(s),
           UNCHANGED <<zset, pass>>,
           task[s].op \in ListOps,
           \A m \in Node \ {This(s).node} :
              /\ m \in DOMAIN members' <=> m \in DOMAIN members
              /\ m \in DOMAIN members => members'[m] = members[m],
           Knows(task'[s], members', Shares), Tells(task'[s], This(s).node)
    PROVE  LInv' /\ OneNodeOnly
<1>1. UNCHANGED <<Shares, Lists>> /\ OneNodeOnly
  BY DEF Shares, Lists, OneNodeOnly
<1>2. Lists'
  BY <1>1 DEF LInv
<1>3. \A m \in Node \ {This(s).node} : Same(m)
  BY <1>1 DEF Same
<1> QED BY <1>1, <1>2, <1>3, HandlerInforms

LEMMA UpdateTells ==
    ASSUME Stores, Handlers, Cron, NodesApart, LInv, NEW s \in Slot,
           UNCHANGED pass, UpdateMember(s)
    PROVE  LInv' /\ OneNodeOnly
<1> DEFINE i == This(s)
           n == i.node
<1>1. /\ members' = update_domain_node(members, i.domain, n, i.weight)
      /\ UNCHANGED zset /\ task[s].op = "PUT" /\ \A m : ~Tells(task[s], m)
  BY DEF UpdateMember, At, redis, Tells, Telling
<1>2. Agrees(members, Shares, n)
  BY <1>1, MineAgrees DEF ListOps
<1>3. CASE InDomain(members, n, i.domain)
  <2>1. Goto(s, "nodes_upjoin")
    BY <1>3 DEF UpdateMember
  <2>2. Goes(s, "nodes_upjoin") /\ Head(task'[s].todo) = i
    BY <1>1, <2>1, Going
  <2>3. members[n] \in DomainRow(Domain, Weight)
    BY <1>3 DEF InDomain, Stores, IsTable
  <2>4. /\ DOMAIN members' = DOMAIN members
        /\ \A m \in DOMAIN members : m # n => members'[m] = members[m]
        /\ members'[n] = [members[n] EXCEPT !.weight = i.weight]
    BY <1>1, <1>3 DEF update_domain_node, Update, InDomain
  <2>5. members'[n] = [domain |-> i.domain, weight |-> i.weight]
    <3> HIDE DEF i, n
    <3> QED BY <1>3, <2>3, <2>4 DEF InDomain, DomainRow
  <2>6. \A d \in Domain : n \in DOMAIN Shares[d] => d = i.domain
    <3> HIDE DEF i, n
    <3> QED BY <1>2, <1>3 DEF Agrees, InDomain
  <2>7. Knows(task'[s], members', Shares)
    BY <1>1, <1>3, <2>2, <2>4, <2>5, <2>6 DEF Goes, Knows, InDomain
  <2>8. Tells(task'[s], n)
    BY <1>1, <2>2 DEF Goes, Tells, Telling
  <2> QED BY <1>1, <2>2, <2>4, <2>7, <2>8, RowsChanged DEF Goes, ListOps
<1>4. CASE ~InDomain(members, n, i.domain)
  <2>1. NextItem(s, "query_domain_node")
    BY <1>4 DEF UpdateMember
  <2>2. UNCHANGED members
    <3>1. members \in [DOMAIN members -> DomainRow(Domain, Weight)]
      BY DEF Stores, IsTable
    <3> QED BY <1>1, <1>4, <3>1 DEF update_domain_node, Update
  <2>3. Moved(s) /\ Knows(task'[s], members, Shares)
    BY <1>1, <2>1, KnowsNothing
  <2> QED BY <1>1, <2>2, <2>3, HandlerLooks
<1> QED BY <1>3, <1>4

LEMMA InsertTells ==
    ASSUME Stores, Handlers, Cron, NodesApart, LInv, NEW s \in Slot,
           UNCHANGED pass, InsertMember(s)
    PROVE  LInv' /\ OneNodeOnly
<1> DEFINE i == This(s)
           n == i.node
<1>1. UNCHANGED zset /\ task[s].op = "PUT" /\ \A m : ~Tells(task[s], m)
  BY DEF InsertMember, At, redis, Tells, Telling
<1>2. Agrees(members, Shares, n)
  BY <1>1, MineAgrees DEF ListOps
<1>3. CASE n \notin DOMAIN members
  <2>1. /\ Goto(s, "nodes_join")
        /\ members' = Put(members, n, [domain |-> i.domain, weight |-> i.weight])
    BY <1>3 DEF InsertMember, insert_domain_node
  <2>2. Goes(s, "nodes_join") /\ Head(task'[s].todo) = i
    BY <1>1, <2>1, Going
  <2>3. /\ DOMAIN members' = DOMAIN members \cup {n}
        /\ \A m \in DOMAIN members : m # n => members'[m] = members[m]
        /\ members'[n] = [domain |-> i.domain, weight |-> i.weight]
    BY <2>1 DEF Put
  <2>4. \A d \in Domain : n \notin DOMAIN Shares[d]
    BY <1>2, <1>3 DEF Agrees
  <2>5. Knows(task'[s], members', Shares)
    BY <1>1, <2>2, <2>3, <2>4 DEF Goes, Knows
  <2>6. Tells(task'[s], n)
    BY <1>1, <2>2 DEF Goes, Tells, Telling
  <2> QED BY <1>1, <2>2, <2>3, <2>5, <2>6, RowsChanged DEF Goes, ListOps
<1>4. CASE n \in DOMAIN members
  <2>1. Done(s) /\ UNCHANGED members
    BY <1>4 DEF InsertMember
  <2>2. Moved(s) /\ Knows(task'[s], members, Shares)
    BY <2>1, KnowsNothing
  <2> QED BY <1>1, <2>1, <2>2, HandlerLooks
<1> QED BY <1>3, <1>4

LEMMA DeleteTells ==
    ASSUME Stores, Handlers, Cron, NodesApart, LInv, NEW s \in Slot,
           UNCHANGED pass, DeleteMember(s)
    PROVE  LInv' /\ OneNodeOnly
<1> DEFINE i == This(s)
           n == i.node
<1>1. /\ members' = DeleteDomainNode(members, i.domain, n) /\ Goto(s, "node_lefts")
      /\ UNCHANGED zset /\ task[s].op = "DELETE" /\ task[s].pc = "delete"
  BY DEF DeleteMember, At, redis
<1>2. Goes(s, "node_lefts") /\ Head(task'[s].todo) = i
  BY <1>1, Going
<1>3. Agrees(members, Shares, n) /\ n \in Node
  BY <1>1, AtHand, MineAgrees DEF ListOps, Tells, Telling
<1>4. n \in DOMAIN members /\ members[n] = [domain |-> i.domain, weight |-> i.weight]
  BY <1>1 DEF LInv, Knows, Informed, This
<1>5. /\ i.domain \in Domain
      /\ \A d \in Domain : n \in DOMAIN Shares[d] => d = i.domain /\ Shares[d][n] = i.weight
  <2> HIDE DEF i, n
  <2> QED BY <1>3, <1>4, RowsSay
<1>6. /\ DOMAIN members' = DOMAIN members \ {n}
      /\ \A m \in DOMAIN members : m # n => members'[m] = members[m]
  BY <1>1, <1>4 DEF DeleteDomainNode, InDomain, Without
<1>7. Knows(task'[s], members', Shares)
  BY <1>1, <1>2, <1>5, <1>6 DEF Goes, Knows, Informed
<1>8. Tells(task'[s], n)
  BY <1>1, <1>2 DEF Goes, Tells, Telling
<1> QED BY <1>1, <1>2, <1>6, <1>7, <1>8, RowsChanged DEF Goes, ListOps

LEMMA HandlersInform ==
    ASSUME Stores, Handlers, Cron, NodesApart, LInv, NEW s \in Slot, HandlerStep(s)
    PROVE  LInv' /\ OneNodeOnly
<1>1. UNCHANGED pass
  BY DEF HandlerStep, cron
<1> QED BY <1>1, QueriesLook, RowsAreKnown, UpjoinsAgree, LeftsAgree, UpdateTells,
           InsertTells, DeleteTells
    DEF HandlerStep, FrpsStep, DomainStep, PutStep, DeleteStep

---------------------------------------------------------------------------
(* Requests, time and the cronjobs. *)

LEMMA BeginLooks ==
    ASSUME Handlers, LInv, NEW s \in Slot, Begin(s)
    PROVE  LInv' /\ OneNodeOnly
<1>1. PICK q \in Requests : task' = [task EXCEPT ![s] = q]
  BY DEF Begin
<1>2. /\ task[s] = Idle /\ task'[s] = q /\ UNCHANGED <<members, zset, pass>>
      /\ \A t \in Slot \ {s} : task'[t] = task[t]
  BY <1>1 DEF Begin, Handlers, db, redis, cron
<1>3. UNCHANGED <<Shares, Lists>> /\ OneNodeOnly
  BY <1>2 DEF Shares, Lists, OneNodeOnly
<1>4. q \in Task /\ q.pc = First[q.op]
  BY RequestAssumption
<1>5. Knows(q, members, Shares)
  BY <1>4 DEF First, Knows, Informed
<1>6. \A t \in Slot : Knows(task'[t], members', Shares')
  BY <1>2, <1>3, <1>5 DEF LInv
<1>7. \A n : ~Tells(task[s], n)
  BY <1>2 DEF Tells, Telling, Idle
<1>8. ASSUME NEW m \in Node
      PROVE  Agrees(members', Shares', m) \/ \E t \in Slot : Tells(task'[t], m)
  BY <1>2, <1>3, <1>7 DEF LInv
<1>9. PassKnows(pass', members', Shares')
  BY <1>2, <1>3 DEF LInv
<1> QED BY <1>3, <1>6, <1>8, <1>9 DEF LInv

(* A step that changes no row, no list and no handler. *)
LEMMA OthersLook ==
    ASSUME LInv, UNCHANGED <<members, zset, task>>, PassKnows(pass', members, Shares)
    PROVE  LInv' /\ OneNodeOnly
<1>1. UNCHANGED <<Shares, Lists>> /\ OneNodeOnly
  BY DEF Shares, Lists, OneNodeOnly
<1>2. PassKnows(pass', members', Shares')
  BY <1>1
<1>3. /\ \A s \in Slot : Knows(task'[s], members', Shares')
      /\ \A n \in Node : Agrees(members', Shares', n) \/ \E s \in Slot : Tells(task'[s], n)
  BY <1>1 DEF LInv
<1> QED BY <1>1, <1>2, <1>3 DEF LInv

(* A step of the pass that sets or drops node n in the list of its domain. *)
LEMMA PassSets ==
    ASSUME Handlers, NodesApart, LInv, UNCHANGED <<members, task>>, Lists',
           PassKnows(pass', members', Shares'),
           NEW d \in Domain, NEW n \in Node, n \in Held, NEW w,
           \/ Drops(d, n)
           \/ /\ Sets(d, n, w)
              /\ n \in DOMAIN members /\ members[n] = [domain |-> d, weight |-> w],
           \A e \in Domain : n \in DOMAIN Shares[e] => e = d
    PROVE  LInv'
<1>1. \A m \in Node \ {n} : Same(m)
  BY DEF Same, Sets, Drops
<1>2. Agrees(members', Shares', n)
  <2>1. CASE Drops(d, n)
    BY <2>1 DEF Agrees, Drops
  <2>2. CASE /\ Sets(d, n, w) /\ n \in DOMAIN members
             /\ members[n] = [domain |-> d, weight |-> w]
    BY <2>2 DEF Agrees, Sets
  <2> QED BY <2>1, <2>2
<1>3. ASSUME NEW m \in Node
      PROVE  Agrees(members', Shares', m) \/ \E s \in Slot : Tells(task'[s], m)
  BY <1>1, <1>2, SameAgrees DEF LInv
<1>4. ASSUME NEW s \in Slot PROVE Knows(task'[s], members', Shares')
  <2>1. task'[s] = task[s] /\ Knows(task[s], members, Shares)
    BY DEF LInv
  <2>2. CASE <<task[s].op, task[s].pc>> \in Informed \cup Telling
    <3>1. task[s].op \in ListOps
      BY <2>2 DEF Informed, Telling, ListOps
    <3>2. This(s).node \in Node /\ This(s).node \in Names(task[s])
      BY <3>1, AtHand, HeadIsNamed DEF ListOps
    <3>3. This(s).node # n
      BY <3>1, <3>2 DEF NodesApart
    <3> QED BY <1>1, <2>1, <3>2, <3>3, SameAgrees DEF This
  <2>3. CASE <<task[s].op, task[s].pc>> \notin Informed \cup Telling
    BY <2>1, <2>3 DEF Knows, Informed, Telling
  <2> QED BY <2>2, <2>3
<1> QED BY <1>3, <1>4 DEF LInv

(* What is left to repair is what keeps the list from being what the pass  *)
(* has read from the database.                                             *)
PassMends(p, W) ==
    p.pc = "repair"
    => /\ DOMAIN W[p.domain] = (DOMAIN p.rows \ p.missing) \cup p.extra
       /\ p.extra \cap DOMAIN p.rows = {}

(* Of a node it has read in both, the pass has read one weight. *)
LEMMA ReadsAgree ==
    ASSUME Stores, Handlers, Cron, NodesApart, LInv,
           pass.pc \in {"get_domain_nodes", "repair"}, NEW n \in DOMAIN pass.rows,
           n \in DOMAIN Shares[pass.domain]
    PROVE  Shares[pass.domain][n] = pass.rows[n]
<1> DEFINE d == pass.domain
<1>1. n \in Node /\ n \in Held /\ d \in Domain
  BY DEF Cron, PassOK, IsTable, Held
<1>2. n \in DOMAIN members /\ members[n] = [domain |-> d, weight |-> pass.rows[n]]
  BY DEF LInv, PassKnows
<1>3. Agrees(members, Shares, n)
  BY <1>1, HeldAgrees
<1> QED BY <1>1, <1>2, <1>3, RowsSay

LEMMA PassLooks ==
    ASSUME Stores, Handlers, Cron, NodesApart, LInv,
           BeginPass \/ ReadRows \/ ReadRedis \/ EndDomain
    PROVE  LInv' /\ OneNodeOnly /\ PassMends(pass', Shares')
<1>1. UNCHANGED <<members, zset, task>>
  BY DEF BeginPass, ReadRows, ReadRedis, EndDomain, db, redis
<1>2. UNCHANGED Shares
  BY <1>1 DEF Shares
<1>3. CASE BeginPass \/ EndDomain
  <2>1. /\ NoPass.pc = "idle"
        /\ \A D : [NoPass EXCEPT !.pc = "next", !.domains = D].pc = "next"
    BY DEF NoPass
  <2>2. pass'.pc \in {"idle", "next"}
    BY <1>3, <2>1 DEF BeginPass, EndDomain
  <2> QED BY <1>1, <2>2, OthersLook DEF PassKnows, PassMends
<1>4. CASE ReadRows
  <2>1. PICK d \in pass.domains :
            pass' = [pass EXCEPT !.pc = "get_domain_nodes",
                        !.domains = @ \ {d}, !.domain = d,
                        !.rows = get_nodes_by_domain(members, nodes, d)]
    BY <1>4 DEF ReadRows
  <2> DEFINE rows == get_nodes_by_domain(members, nodes, d)
  <2>2. ASSUME NEW n \in DOMAIN rows
        PROVE  n \in DOMAIN members /\ members[n] = [domain |-> d, weight |-> rows[n]]
    <3>1. /\ n \in DOMAIN members /\ members[n].domain = d
          /\ rows[n] = members[n].weight
      BY <2>2 DEF get_nodes_by_domain
    <3>2. members[n] \in DomainRow(Domain, Weight)
      BY <3>1 DEF Stores, IsTable
    <3> HIDE DEF rows
    <3> QED BY <3>1, <3>2 DEF DomainRow
  <2> HIDE DEF rows
  <2>3. pass'.pc = "get_domain_nodes" /\ pass'.domain = d /\ pass'.rows = rows
    BY <2>1 DEF Cron, PassOK, rows
  <2>4. PassKnows(pass', members, Shares)
    BY <2>2, <2>3 DEF PassKnows
  <2> QED BY <1>1, <2>3, <2>4, OthersLook DEF PassMends
<1>5. CASE ReadRedis
  <2> DEFINE d == pass.domain
             seen == zset[d]
  <2>1. /\ pass.pc = "get_domain_nodes" /\ d \in Domain
        /\ pass' = [pass EXCEPT !.pc = "repair", !.seen = seen,
                        !.missing = Missing(pass.rows, seen),
                        !.extra = Extra(pass.rows, seen)]
    BY <1>5 DEF ReadRedis, Cron, PassOK
  <2>2. /\ DOMAIN Shares[d] = DOMAIN seen
        /\ \A m \in DOMAIN seen : Shares[d][m] = WeightOf(seen, m)
    BY <2>1, ListTells
  <2>3. ASSUME NEW n \in DOMAIN pass.rows, n \in DOMAIN seen
        PROVE  WeightOf(seen, n) = pass.rows[n]
    BY <2>1, <2>2, <2>3, ReadsAgree
  <2>4. \A n \in DOMAIN pass.rows :
           n \in DOMAIN members /\ members[n] = [domain |-> d, weight |-> pass.rows[n]]
    BY <2>1 DEF LInv, PassKnows
  <2> HIDE DEF d, seen
  <2>5. /\ pass'.pc = "repair" /\ pass'.seen = seen /\ pass'.domain = d
        /\ pass'.rows = pass.rows
        /\ pass'.missing = Missing(pass.rows, seen) /\ pass'.extra = Extra(pass.rows, seen)
    BY <2>1 DEF Cron, PassOK, d
  <2>6. /\ Missing(pass.rows, seen) = DOMAIN pass.rows \ DOMAIN seen
        /\ Extra(pass.rows, seen) = DOMAIN seen \ DOMAIN pass.rows
    BY <2>3 DEF Missing, Extra
  <2>7. PassKnows(pass', members, Shares)
    BY <2>2, <2>4, <2>5, <2>6 DEF PassKnows
  <2>8. PassMends(pass', Shares')
    BY <1>2, <2>2, <2>5, <2>6 DEF PassMends
  <2> QED BY <1>1, <2>7, <2>8, OthersLook
<1> QED BY <1>3, <1>4, <1>5

LEMMA PassRepairsLists ==
    ASSUME Stores, Handlers, Cron, NodesApart, LInv, JoinMissing \/ LeaveExtra
    PROVE  /\ LInv' /\ OneNodeOnly
           /\ PassMends(pass, Shares) => PassMends(pass', Shares')
<1> DEFINE d == pass.domain
<1>1. pass.pc = "repair" /\ d \in Domain /\ UNCHANGED <<members, task>>
  BY DEF JoinMissing, LeaveExtra, Cron, PassOK, db
<1>2. \A m \in Held : m \in Node /\ Agrees(members, Shares, m)
  BY HeldAgrees DEF Held, Cron, PassOK, IsTable, IsZSet
<1>3. /\ \A m \in DOMAIN pass.rows :
            m \in DOMAIN members /\ members[m] = [domain |-> d, weight |-> pass.rows[m]]
      /\ \A m \in pass.missing : m \in DOMAIN pass.rows /\ m \notin DOMAIN Shares[d]
      /\ \A m \in pass.extra : /\ m \in DOMAIN pass.seen /\ m \in DOMAIN Shares[d]
                               /\ WeightOf(pass.seen, m) = Shares[d][m]
  BY <1>1 DEF LInv, PassKnows, Cron, PassOK
<1>4. CASE JoinMissing
  <2>1. PICK n \in pass.missing :
            /\ zset' = [zset EXCEPT ![d] = NodesJoin(@, n, pass.rows[n])]
            /\ pass' = [pass EXCEPT !.missing = @ \ {n}]
    BY <1>4 DEF JoinMissing
  <2> DEFINE w == pass.rows[n]
  <2>2. /\ n \in Node /\ n \in Held /\ n \in DOMAIN pass.rows /\ n \notin DOMAIN Shares[d]
        /\ n \in DOMAIN members /\ members[n] = [domain |-> d, weight |-> w]
    BY <1>2, <1>3 DEF Held
  <2>3. w \in Weight
    BY <1>3 DEF Cron, PassOK, IsTable
  <2>4. zset' = [zset EXCEPT ![d] = NodesJoin(@, n, w)]
    BY <2>1
  <2>5. /\ pass'.pc = "repair" /\ pass'.domain = d /\ pass'.rows = pass.rows
        /\ pass'.seen = pass.seen /\ pass'.extra = pass.extra
        /\ pass'.missing = pass.missing \ {n}
    BY <1>1, <2>1 DEF Cron, PassOK
  <2> HIDE DEF w, d
  <2>6. \A e \in Domain : n \in DOMAIN Shares[e] => e = d
    BY <1>2, <2>2, RowsSay
  <2>7. Lists' /\ Sets(d, n, w) /\ OneNodeOnly
    BY <1>1, <2>2, <2>3, <2>4, UpjoinSets DEF LInv
  <2>8. PassKnows(pass', members', Shares')
    BY <1>1, <1>3, <2>2, <2>5, <2>7 DEF PassKnows, Sets
  <2>9. PassMends(pass, Shares) => PassMends(pass', Shares')
    <3>1. DOMAIN Shares'[d] = DOMAIN Shares[d] \cup {n}
      BY <2>7 DEF Sets
    <3> QED BY <1>1, <2>2, <2>5, <3>1 DEF PassMends, d
  <2> QED BY <1>1, <2>2, <2>6, <2>7, <2>8, <2>9, PassSets
<1>5. CASE LeaveExtra
  <2>1. PICK n \in pass.extra :
            /\ zset' = [zset EXCEPT ![d] = NodeLefts(@, n, WeightOf(pass.seen, n))]
            /\ pass' = [pass EXCEPT !.extra = @ \ {n}]
    BY <1>5 DEF LeaveExtra
  <2> DEFINE w == WeightOf(pass.seen, n)
  <2>2. /\ n \in Node /\ n \in Held /\ n \in pass.extra
        /\ n \in DOMAIN Shares[d] /\ w = Shares[d][n]
    BY <1>2, <1>3 DEF Held
  <2>3. zset' = [zset EXCEPT ![d] = NodeLefts(@, n, w)]
    BY <2>1
  <2>4. /\ pass'.pc = "repair" /\ pass'.domain = d /\ pass'.rows = pass.rows
        /\ pass'.seen = pass.seen /\ pass'.missing = pass.missing
        /\ pass'.extra = pass.extra \ {n} /\ pass.missing = {}
    BY <1>1, <1>5, <2>1 DEF Cron, PassOK, LeaveExtra
  <2> HIDE DEF w, d
  <2>5. \A e \in Domain : n \in DOMAIN Shares[e] => e = d
    <3>1. /\ members[n] = [domain |-> d, weight |-> Shares[d][n]]
          /\ n \in DOMAIN members /\ Agrees(members, Shares, n)
      BY <1>1, <1>2, <2>2 DEF Agrees
    <3> QED BY <2>2, <3>1, RowsSay
  <2>6. Lists' /\ Drops(d, n) /\ OneNodeOnly
    BY <1>1, <2>2, <2>3, LeftDrops DEF LInv
  <2>7. PassKnows(pass', members', Shares')
    BY <1>1, <1>3, <2>2, <2>4, <2>6 DEF PassKnows, Drops
  <2>8. PassMends(pass, Shares) => PassMends(pass', Shares')
    <3>1. DOMAIN Shares'[d] = DOMAIN Shares[d] \ {n}
      BY <2>6 DEF Drops
    <3> QED BY <1>1, <2>2, <2>4, <3>1 DEF PassMends, d
  <2> QED BY <1>1, <2>2, <2>5, <2>6, <2>7, <2>8, PassSets
<1> QED BY <1>4, <1>5

(* A failure between no row and its list. *)
LEMMA FaultsLook ==
    ASSUME Handlers, Cron, LInv, RedisIsTold,
           \/ Restart \/ SweepFails \/ RepairFails \/ PassPanics
           \/ \E s \in Slot : Abort(s) \/ MappingFails(s) \/ CreateFails(s)
    PROVE  LInv' /\ OneNodeOnly
<1>1. UNCHANGED <<members, zset>>
  BY DEF Restart, SweepFails, RepairFails, PassPanics, Abort, MappingFails,
         CreateFails, db, redis
<1>2. ASSUME NEW s \in Slot, Abort(s) PROVE LInv' /\ OneNodeOnly
  <2>1. Done(s) /\ UNCHANGED pass
    BY <1>2 DEF Abort, cron
  <2>2. Moved(s) /\ Knows(task'[s], members, Shares)
    BY <2>1, KnowsNothing
  <2> QED BY <1>1, <1>2, <2>1, <2>2, HandlerLooks DEF RedisIsTold
<1>3. ASSUME NEW s \in Slot, MappingFails(s) \/ CreateFails(s)
      PROVE  LInv' /\ OneNodeOnly
  <2>1. /\ task[s].op # "none" /\ UNCHANGED pass /\ \A n : ~Tells(task[s], n)
        /\ \E c : Goto(s, c) /\ <<task[s].op, c>> \notin Informed \cup Telling
    BY <1>3 DEF MappingFails, CreateFails, At, cron, Tells, Informed, Telling
  <2>2. Moved(s) /\ Knows(task'[s], members, Shares)
    BY <2>1, GotoKnows
  <2> QED BY <1>1, <2>1, <2>2, HandlerLooks
<1>4. CASE Restart
  <2>1. UNCHANGED <<Shares, Lists>> /\ OneNodeOnly
    BY <1>1 DEF Shares, Lists, OneNodeOnly
  <2>2. \A s \in Slot : Knows(task'[s], members', Shares')
    BY <1>4 DEF Restart, Knows, Informed, Idle
  <2>3. \A n \in Node : Agrees(members', Shares', n)
    BY <1>1, <1>4, <2>1 DEF LInv, RedisIsTold
  <2>4. PassKnows(pass', members', Shares')
    BY <1>4 DEF Restart, PassKnows, NoPass
  <2> QED BY <2>1, <2>2, <2>3, <2>4 DEF LInv
<1>5. CASE SweepFails \/ RepairFails \/ PassPanics
  <2>1. UNCHANGED task
    BY <1>5 DEF SweepFails, RepairFails, PassPanics
  <2>2. PassKnows(pass', members, Shares)
    <3>1. CASE SweepFails
      BY <3>1 DEF SweepFails, LInv
    <3>2. CASE PassPanics
      BY <3>2 DEF PassPanics, NoPass, PassKnows
    <3>3. CASE RepairFails
      <4>1. /\ pass'.pc = pass.pc /\ pass'.domain = pass.domain
            /\ pass'.rows = pass.rows /\ pass'.seen = pass.seen
            /\ pass'.missing \subseteq pass.missing /\ pass'.extra \subseteq pass.extra
        BY <3>3 DEF RepairFails, Cron, PassOK
      <4> QED BY <4>1 DEF LInv, PassKnows
    <3> QED BY <1>5, <3>1, <3>2, <3>3
  <2> QED BY <1>1, <2>1, <2>2, OthersLook
<1> QED BY <1>2, <1>3, <1>4, <1>5

---------------------------------------------------------------------------
LEMMA InitLInv ==
    StartsAgreed /\ Init => LInv
<1> SUFFICES ASSUME StartsAgreed, Init PROVE LInv
  OBVIOUS
<1>1. PICK i \in Initial : members = i.members /\ zset = i.zset
  BY DEF Init
<1>2. Lists
  BY <1>1 DEF StartsAgreed, Lists
<1>3. \A n \in Node : Agrees(members, Shares, n)
  BY <1>1 DEF StartsAgreed, Agrees, Shares, Weights
<1>4. \A s \in Slot : Knows(task[s], members, Shares)
  BY DEF Init, Knows, Informed, Idle
<1>5. PassKnows(pass, members, Shares)
  BY DEF Init, PassKnows, NoPass
<1> QED BY <1>2, <1>3, <1>4, <1>5 DEF LInv

LEMMA NextAgrees ==
    IInv /\ NodesApart /\ LInv /\ [Next]_vars /\ [RedisIsTold]_vars
    => LInv' /\ OneNodeOnly
<1> SUFFICES ASSUME IInv, NodesApart, LInv, [Next]_vars, [RedisIsTold]_vars
             PROVE  LInv' /\ OneNodeOnly
  OBVIOUS
<1>1. Stores /\ Handlers /\ Cron
  BY DEF IInv
<1>2. CASE UNCHANGED vars
  BY <1>2, OthersLook DEF vars, db, redis, cron, LInv
<1>3. CASE Next /\ RedisIsTold
  <2>1. ASSUME NEW s \in Slot, HandlerStep(s) PROVE LInv' /\ OneNodeOnly
    BY <1>1, <2>1, HandlersInform
  <2>2. ASSUME NEW s \in Slot, Begin(s) PROVE LInv' /\ OneNodeOnly
    BY <1>1, <2>2, BeginLooks
  <2>3. ASSUME SweepStep \/ \E n \in Node : Ages(n) PROVE LInv' /\ OneNodeOnly
    <3>1. UNCHANGED <<members, zset, task, pass>>
      BY <2>3 DEF SweepStep, UnavailExpired, CloseExpired, Ages, redis, cron
    <3> QED BY <3>1, OthersLook DEF LInv
  <2>4. ASSUME PassStep PROVE LInv' /\ OneNodeOnly
    BY <1>1, <2>4, PassLooks, PassRepairsLists DEF PassStep
  <2>5. ASSUME \/ Restart \/ SweepFails \/ RepairFails \/ PassPanics
               \/ \E s \in Slot : Abort(s) \/ MappingFails(s) \/ CreateFails(s)
        PROVE  LInv' /\ OneNodeOnly
    BY <1>1, <1>3, <2>5, FaultsLook
  <2> QED BY <1>3, <2>1, <2>2, <2>3, <2>4, <2>5 DEF Next
<1> QED BY <1>2, <1>3

(* A node that redis lists is a member of that domain, with the weight of  *)
(* its row, whenever no request is about it: a handler changes the row     *)
(* first, and tells redis of exactly that row.  A node must be dealt with  *)
(* by one request or pass at a time; calls may fail and processes die, but *)
(* for the call that tells redis.                                          *)
THEOREM RedisStaysAgreed ==
    ASSUME StartsAgreed
    PROVE  Spec /\ []NodesApart /\ [][RedisIsTold]_vars => []RedisAgrees
<1>1. Init => LInv
  BY InitLInv
<1>2. IInv /\ NodesApart /\ LInv /\ [Next]_vars /\ [RedisIsTold]_vars => LInv'
  BY NextAgrees
<1>3. IInv /\ LInv => RedisAgrees
  <2> SUFFICES ASSUME IInv, LInv, NEW d \in Domain, NEW n \in DOMAIN zset[d], Quiet(n)
               PROVE  members[n] = [domain |-> d, weight |-> WeightOf(zset[d], n)]
    BY DEF RedisAgrees
  <2>1. n \in Node /\ n \in DOMAIN Shares[d] /\ Shares[d][n] = WeightOf(zset[d], n)
    BY ListTells DEF IInv, Stores, IsZSet
  <2>2. ASSUME NEW s \in Slot, Tells(task[s], n) PROVE FALSE
    BY <2>2, HeadIsNamed DEF Tells, Telling, This, Quiet, IInv
  <2> QED BY <2>1, <2>2 DEF LInv, Agrees
<1> QED BY <1>1, <1>2, <1>3, InvariantHolds, PTL DEF Spec

(* No request and no repair changes the weight of a node in redis other    *)
(* than the one it is about: what each does is a step of DomainWeights.    *)
THEOREM DomainsAreImplemented ==
    ASSUME StartsAgreed
    PROVE  Spec /\ []NodesApart /\ [][RedisIsTold]_vars => DomainsImplementWeights
<1>1. Init => LInv
  BY InitLInv
<1>2. IInv /\ NodesApart /\ LInv /\ [Next]_vars /\ [RedisIsTold]_vars
      => LInv' /\ OneNodeOnly
  BY NextAgrees
<1>3. IInv /\ NodesApart /\ LInv /\ [Next]_vars /\ [RedisIsTold]_vars
      => [\A d \in Domain : [DW(d)!Next]_(Weights(zset[d]))]_vars
  BY <1>2 DEF OneNodeOnly
<1> QED BY <1>1, <1>2, <1>3, InvariantHolds, PTL DEF Spec, DomainsImplementWeights

---------------------------------------------------------------------------
(* What a pass does to a domain. *)

(* No request that changes a row or a list is handled during the repair.   *)
RequestsWait ==
    pass.pc = "repair" => \A s \in Slot : task[s].op \notin ListOps

LEMMA NextMends ==
    /\ IInv /\ NodesApart /\ RequestsWait /\ LInv /\ PassMends(pass, Shares)
    /\ [Next]_vars /\ [~RepairFails]_vars
    => PassMends(pass', Shares')
<1> SUFFICES ASSUME IInv, NodesApart, RequestsWait, LInv, PassMends(pass, Shares),
                    [Next]_vars, [~RepairFails]_vars
             PROVE  PassMends(pass', Shares')
  OBVIOUS
<1>1. Stores /\ Handlers /\ Cron
  BY DEF IInv
<1>2. CASE UNCHANGED <<zset, pass>>
  BY <1>2 DEF PassMends, Shares
<1>3. CASE UNCHANGED pass /\ pass.pc # "repair"
  BY <1>3 DEF PassMends
<1>4. CASE PassStep
  BY <1>1, <1>4, PassLooks, PassRepairsLists DEF PassStep
<1>5. CASE Restart \/ PassPanics
  BY <1>5 DEF Restart, PassPanics, NoPass, PassMends
<1>6. ASSUME NEW s \in Slot, HandlerStep(s), pass.pc = "repair" PROVE UNCHANGED zset
  <2>1. task[s].op \notin ListOps
    BY <1>6 DEF RequestsWait
  <2> QED BY <1>6, <2>1 DEF HandlerStep, FrpsStep, CountDevice, CreateDevice,
       SetSubdomain, QueryDevice, QueryNode, ReopenNode, CreateNode, QueryDomainOf,
       Rejoin, DelSubdomain, CloseNode, QueryClosed, Leave, Ping, HealthStep,
       ReadHealth, SetAvail, SetUnavail, DomainStep, PutStep, DeleteStep,
       QueryMember, UpdateMember, UpjoinMember, QueryOnline, InsertMember, JoinMember, QueryDeleted,
       DeleteMember, LeftMember, At, ListOps, redis
<1>7. ASSUME NEW s \in Slot, HandlerStep(s) PROVE PassMends(pass', Shares')
  <2>1. UNCHANGED pass
    BY <1>7 DEF HandlerStep, cron
  <2> QED BY <1>2, <1>3, <1>6, <1>7, <2>1
<1>8. ASSUME NEW s \in Slot, Begin(s) \/ Abort(s) \/ MappingFails(s) \/ CreateFails(s)
      PROVE  PassMends(pass', Shares')
  <2>1. UNCHANGED <<zset, pass>>
    BY <1>8 DEF Begin, Abort, MappingFails, CreateFails, redis, cron
  <2> QED BY <1>2, <2>1
<1>9. CASE SweepStep \/ SweepFails \/ \E n \in Node : Ages(n)
  <2>1. UNCHANGED <<zset, pass>>
    BY <1>9 DEF SweepStep, UnavailExpired, CloseExpired, SweepFails, Ages, redis, cron
  <2> QED BY <1>2, <2>1
<1>10. CASE UNCHANGED vars
  BY <1>2, <1>10 DEF vars, redis, cron
<1>11. CASE RepairFails
  BY <1>2, <1>11 DEF vars, redis, cron
<1> QED BY <1>4, <1>5, <1>7, <1>8, <1>9, <1>10, <1>11 DEF Next

(* When a pass is done with a domain, redis lists the members of it that   *)
(* the pass has read from the database, and no others, with those weights. *)
THEOREM PassesSynchronise ==
    ASSUME StartsAgreed
    PROVE  /\ Spec /\ []NodesApart /\ []RequestsWait
           /\ [][RedisIsTold /\ ~RepairFails]_vars
           => []PassSynchronises
<1>1. Init => LInv /\ PassMends(pass, Shares)
  BY InitLInv DEF Init, NoPass, PassMends
<1>2. /\ IInv /\ NodesApart /\ RequestsWait /\ LInv /\ PassMends(pass, Shares)
      /\ [Next]_vars /\ [RedisIsTold /\ ~RepairFails]_vars
      => LInv' /\ PassMends(pass, Shares)'
  BY NextAgrees, NextMends
<1>3. IInv /\ NodesApart /\ LInv /\ PassMends(pass, Shares) => PassSynchronises
  <2> SUFFICES ASSUME IInv, NodesApart, LInv, PassMends(pass, Shares),
                      pass.pc = "repair", pass.missing = {}, pass.extra = {}
               PROVE  Weights(zset[pass.domain]) = pass.rows
    BY DEF PassSynchronises
  <2> DEFINE W == Weights(zset[pass.domain])
  <2>1. Stores /\ Handlers /\ Cron /\ pass.domain \in Domain
    BY DEF IInv, Cron, PassOK
  <2>2. W = Shares[pass.domain] /\ DOMAIN W = DOMAIN pass.rows
    BY <2>1 DEF PassMends, Shares
  <2>3. \A n \in DOMAIN pass.rows : W[n] = pass.rows[n]
    BY <2>1, <2>2, ReadsAgree
  <2>4. W = [n \in DOMAIN W |-> W[n]] /\ pass.rows = [n \in DOMAIN pass.rows |-> pass.rows[n]]
    BY <2>1 DEF Weights, Cron, PassOK, IsTable
  <2> QED BY <2>2, <2>3, <2>4
<1> QED BY <1>1, <1>2, <1>3, InvariantHolds, PTL DEF Spec

---------------------------------------------------------------------------
(* Where Overlap is FALSE and nothing fails, as in the run. *)

LEMMA AloneIsApart ==
    Alone => NodesApart /\ RequestsWait
<1> SUFFICES ASSUME Alone PROVE NodesApart /\ RequestsWait
  OBVIOUS
<1>1. Apart(ListOps)
  BY DEF Alone, Apart, ListOps, Calls
<1>2. CASE \A s \in Slot : task[s] = Idle
  BY <1>1, <1>2 DEF NodesApart, RequestsWait, ListOps, Idle
<1>3. CASE pass.pc \in {"idle", "panicked"} /\ DOMAIN pass.rows = {} /\ DOMAIN pass.seen = {}
  BY <1>1, <1>3 DEF NodesApart, RequestsWait, Held
<1> QED BY <1>2, <1>3 DEF Alone

LEMMA NothingFails ==
    MaxFaults = 0 /\ IInv => [RedisIsTold /\ ~RepairFails]_vars
BY DEF IInv, Counters, RedisIsTold, Abort, Restart, RepairFails

(* The same three of the hub of the run. *)
THEOREM ListsStayAlone ==
    ASSUME StartsAgreed, ~Overlap, MaxFaults = 0
    PROVE  Spec => []RedisAgrees /\ []PassSynchronises /\ DomainsImplementWeights
BY RedisStaysAgreed, DomainsAreImplemented, PassesSynchronise, HandlersStayAlone,
   AloneIsApart, NothingFails, InvariantHolds, PTL

---------------------------------------------------------------------------
(* What a pass repairs whatever came before it: requests that overlapped,  *)
(* calls that failed, processes that died.  Nothing is asked of the past,  *)
(* only of the list as the pass finds it.                                  *)

(* The nodes that both lists have, with different weights. *)
Reweighted(p) == Missing(p.rows, p.seen) \cap Extra(p.rows, p.seen)

(* These and all that rank behind one of them ... *)
Rear(p) ==
    {m \in DOMAIN p.seen : \E n \in Reweighted(p) : m = n \/ m \in After(p.seen, n)}

(* ... of which none may be one to keep, and no other node may be missing. *)
Mendable(p) ==
    /\ Cumulative(p.seen)
    /\ Reweighted(p) # {} => /\ DOMAIN p.rows \subseteq DOMAIN p.seen
                             /\ Rear(p) \subseteq Extra(p.rows, p.seen)

(* The repair leaves the members with their weights, but for those that    *)
(* had another one: they are taken out, and are missing in the next pass.  *)
Mended ==
    pass.pc = "repair" /\ pass.missing = {} /\ pass.extra = {} /\ Mendable(pass)
    => /\ Cumulative(zset[pass.domain])
       /\ Weights(zset[pass.domain]) =
             [n \in DOMAIN pass.rows \ Reweighted(pass) |-> pass.rows[n]]

(* Nobody else changes the list meanwhile, and no call of the repair fails. *)
LeftAlone ==
    pass.pc = "repair"
    => /\ ~RepairFails
       /\ JoinMissing \/ LeaveExtra \/ UNCHANGED zset[pass.domain]

---------------------------------------------------------------------------
(* The types of what a pass has read, and of the list z it repairs. *)
Reads(p, z) ==
    /\ FiniteZSet(p.seen) /\ FiniteZSet(z)
    /\ DOMAIN p.seen \subseteq Node /\ DOMAIN z \subseteq Node
    /\ DOMAIN p.rows \subseteq Node /\ \A n \in DOMAIN p.rows : p.rows[n] \in Nat \ {0}

Front(p) == Node \ Rear(p)

LEMMA FrontIsNat == \A p : Front(p) \in SUBSET Nat
BY StoreAssumption DEF Front

(* The score on which m stood, behind those that ranked before it. *)
Base(p, m) == p.seen[m] - WeightOf(p.seen, m)

(* How far the repair p of the list z has come.  The front of the list is  *)
(* what it should be but for what is left to do.  What is behind may have  *)
(* any scores, as long as it stays behind: each node that is taken out     *)
(* lets the others down by no more than the room it had.                   *)
Mending(p, z) ==
    LET K == Part(z, Front(p))
    IN  /\ p.missing \subseteq Missing(p.rows, p.seen)
        /\ p.extra \subseteq Extra(p.rows, p.seen)
        /\ p.missing # {} => p.extra = Extra(p.rows, p.seen)
        /\ \A n \in Rear(p) : n \in DOMAIN z <=> n \in p.extra
        /\ DOMAIN K = ((DOMAIN p.rows \ p.missing) \cup p.extra) \ Rear(p)
        /\ Cumulative(K)
        /\ \A n \in DOMAIN K :
              WeightOf(K, n) = IF n \in DOMAIN p.rows THEN p.rows[n]
                                                      ELSE WeightOf(p.seen, n)
        /\ \A m, k \in Rear(p) \cap p.extra, n \in DOMAIN K :
              z[m] - z[n] >= p.seen[m] - Base(p, k)

(* The front and the rear of what the pass has read. *)
LEMMA RearFollows ==
    ASSUME NEW p, NEW z, Reads(p, z), Mendable(p)
    PROVE  /\ Leads(p.seen, Front(p))
           /\ Reweighted(p) \subseteq Rear(p) /\ Rear(p) \subseteq DOMAIN p.seen
           /\ Rear(p) = {} \/ Missing(p.rows, p.seen) \subseteq Rear(p)
           /\ Rear(p) # {} => Rear(p) \subseteq Extra(p.rows, p.seen)
           /\ Rear(p) \cap DOMAIN p.rows = Reweighted(p)
           /\ \A n \in DOMAIN p.seen :
                 /\ p.seen[n] \in Int /\ WeightOf(p.seen, n) \in Nat \ {0}
                 /\ Base(p, n) \in Int
<1> DEFINE S == p.seen
<1>1. FiniteZSet(S) /\ Cumulative(S) /\ DOMAIN S \subseteq Node
  BY DEF Reads, Mendable
<1>2. \A n \in DOMAIN S : S[n] \in Int /\ WeightOf(S, n) \in Nat \ {0} /\ Base(p, n) \in Int
  BY <1>1, WeightsPositive DEF FiniteZSet, Base
<1>3. \A n \in Reweighted(p) : n \in DOMAIN S /\ n \in Rear(p)
  BY DEF Reweighted, Extra, Rear
<1>4. Rear(p) \subseteq DOMAIN S /\ (Rear(p) # {} => Reweighted(p) # {})
  BY DEF Rear
<1>5. Rear(p) # {} => /\ DOMAIN p.rows \subseteq DOMAIN S
                      /\ Rear(p) \subseteq Extra(p.rows, S)
  BY <1>4 DEF Mendable
<1>6. Rear(p) = {} \/ Missing(p.rows, S) \subseteq Reweighted(p)
  BY <1>5 DEF Reweighted, Missing, Extra
<1>7. Rear(p) \cap DOMAIN p.rows = Reweighted(p)
  BY <1>3, <1>5 DEF Reweighted, Missing, Extra
<1>8. ASSUME NEW n \in DOMAIN S \cap Front(p), NEW m \in DOMAIN S \ Front(p)
      PROVE  S[n] < S[m]
  <2>1. m \in Rear(p) /\ n \notin Rear(p)
    BY <1>1, <1>8 DEF Front
  <2>2. PICK k \in Reweighted(p) : m = k \/ m \in After(S, k)
    BY <2>1 DEF Rear
  <2>3. k \in DOMAIN S /\ n # k /\ n \notin After(S, k)
    BY <1>3, <1>8, <2>1, <2>2 DEF Rear
  <2>4. S[n] < S[k]
    <3>1. ~(S[k] < S[n]) /\ S[n] # S[k]
      BY <1>1, <1>8, <2>3, RankIsScoreOrder DEF Cumulative
    <3> QED BY <1>2, <1>8, <2>3, <3>1
  <2>5. S[k] <= S[m]
    BY <1>1, <1>2, <1>8, <2>2, <2>3, RankIsScoreOrder
  <2> QED BY <1>2, <1>8, <2>3, <2>4, <2>5
<1> QED BY <1>2, <1>3, <1>4, <1>5, <1>6, <1>7, <1>8 DEF Leads

(* It stays behind. *)
LEMMA FrontLeads ==
    ASSUME NEW p, NEW z, Reads(p, z), Mendable(p), Mending(p, z)
    PROVE  Leads(z, Front(p))
<1>1. SUFFICES ASSUME NEW n \in DOMAIN z \cap Front(p), NEW m \in DOMAIN z \ Front(p)
               PROVE  z[n] < z[m]
  BY DEF Leads
<1>2. m \in Rear(p) \cap p.extra /\ n \in DOMAIN Part(z, Front(p))
  BY <1>1 DEF Reads, Front, Mending, Part
<1>3. z[m] - z[n] >= p.seen[m] - Base(p, m)
  BY <1>2 DEF Mending
<1>4. p.seen[m] \in Int /\ WeightOf(p.seen, m) \in Nat \ {0}
  BY <1>2, RearFollows
<1> QED BY <1>1, <1>3, <1>4 DEF Base, Reads, FiniteZSet

---------------------------------------------------------------------------
(* Both lists are read. *)
LEMMA ReadMends ==
    ASSUME NEW p, Reads(p, p.seen), Mendable(p),
           p.missing = Missing(p.rows, p.seen), p.extra = Extra(p.rows, p.seen)
    PROVE  Mending(p, p.seen)
<1> DEFINE S == p.seen
           K == Part(S, Front(p))
<1>1. /\ FiniteZSet(S) /\ Cumulative(S) /\ DOMAIN S \subseteq Node
      /\ DOMAIN p.rows \subseteq Node
      /\ Leads(S, Front(p)) /\ Reweighted(p) \subseteq Rear(p) /\ Rear(p) \subseteq DOMAIN S
      /\ Rear(p) # {} => Rear(p) \subseteq Extra(p.rows, S)
  BY RearFollows DEF Reads, Mendable
<1>2. DOMAIN K = DOMAIN S \ Rear(p) /\ \A n \in DOMAIN K : K[n] = S[n]
  BY <1>1 DEF Part, Front
<1>3. DOMAIN K = ((DOMAIN p.rows \ p.missing) \cup p.extra) \ Rear(p)
  BY <1>1, <1>2 DEF Missing, Extra, Reweighted
<1>4. Cumulative(K)
  BY <1>1, <1>2 DEF Cumulative
<1>5. \A n \in DOMAIN K : WeightOf(K, n) = WeightOf(S, n)
  BY <1>1, FrontIsNat, PartWeighs DEF Part
<1>6. \A n \in DOMAIN K : n \in DOMAIN p.rows => p.rows[n] = WeightOf(S, n)
  BY <1>1, <1>2 DEF Missing, Extra, Reweighted
<1>7. ASSUME NEW m \in Rear(p), NEW k \in Rear(p), NEW n \in DOMAIN K
      PROVE  S[m] - S[n] >= S[m] - Base(p, k)
  <2>1. S[n] < S[k] /\ k \in DOMAIN S /\ n \in DOMAIN S /\ m \in DOMAIN S
    BY <1>1, <1>2, <1>7 DEF Leads, Front
  <2>2. Base(p, k) >= S[n]
    BY <1>1, <2>1, WeightsFit DEF Base
  <2>3. S[m] \in Int /\ S[n] \in Int /\ Base(p, k) \in Int
    BY <2>1, RearFollows
  <2> QED BY <2>2, <2>3
<1>8. \A n \in Rear(p) : n \in DOMAIN S /\ n \in p.extra
  BY <1>1
<1> HIDE DEF K
<1> QED BY <1>2, <1>3, <1>4, <1>5, <1>6, <1>7, <1>8 DEF Mending, K

(* A missing node is joined, whether it is already in the rear or nowhere. *)
LEMMA JoinMends ==
    ASSUME NEW p, NEW z, Reads(p, z), Mendable(p), Mending(p, z),
           NEW n \in p.missing, NEW q,
           q.rows = p.rows, q.seen = p.seen, q.extra = p.extra,
           q.missing = p.missing \ {n}
    PROVE  Mending(q, NodesJoin(z, n, p.rows[n]))
<1> DEFINE w == p.rows[n]
           y == NodesJoin(z, n, w)
           K == Part(z, Front(p))
           L == Part(y, Front(p))
<1>1. /\ n \in DOMAIN p.rows /\ n \in Node /\ w \in Nat \ {0} /\ n \in Nat
      /\ FiniteZSet(z) /\ Node \subseteq Nat
  BY StoreAssumption DEF Mending, Missing, Reads
<1>2. /\ Reweighted(q) = Reweighted(p) /\ Rear(q) = Rear(p) /\ Front(q) = Front(p)
      /\ \A m : Base(q, m) = Base(p, m)
  BY DEF Reweighted, Rear, Front, Base
<1>3. /\ p.missing \subseteq Missing(p.rows, p.seen) /\ p.extra = Extra(p.rows, p.seen)
      /\ \A m \in Rear(p) : m \in DOMAIN z <=> m \in p.extra
      /\ DOMAIN K = ((DOMAIN p.rows \ p.missing) \cup p.extra) \ Rear(p)
      /\ Cumulative(K)
      /\ \A m \in DOMAIN K :
            WeightOf(K, m) = IF m \in DOMAIN p.rows THEN p.rows[m] ELSE WeightOf(p.seen, m)
      /\ \A m, k \in Rear(p) \cap p.extra, l \in DOMAIN K :
            z[m] - z[l] >= p.seen[m] - Base(p, k)
  BY DEF Mending
<1>4. DOMAIN K = DOMAIN z \cap Front(p) /\ \A m \in DOMAIN K : K[m] = z[m]
  BY DEF Part
<1>5. FiniteZSet(K)
  BY <1>1, FrontIsNat, PartIsZSet
<1>6. CASE Rear(p) = {}
  <2>1. n \notin p.extra /\ n \notin DOMAIN z
    <3>1. n \notin p.extra
      BY <1>3, <1>6, RearFollows DEF Reweighted
    <3>2. n \notin DOMAIN K /\ n \in Front(p)
      BY <1>1, <1>3, <1>6, <3>1 DEF Front
    <3> QED BY <1>4, <3>1, <3>2
  <2>2. DOMAIN z \subseteq Front(p) /\ DOMAIN y \subseteq Front(p)
    BY <1>1, <1>6 DEF Reads, Front, NodesJoin, ZAdd
  <2>3. K = z /\ L = y
    <3>1. z = [m \in DOMAIN z |-> z[m]] /\ y = [m \in DOMAIN y |-> y[m]]
      BY DEF Reads, FiniteZSet, NodesJoin, ZAdd
    <3>2. DOMAIN z \cap Front(p) = DOMAIN z /\ DOMAIN y \cap Front(p) = DOMAIN y
      BY <2>2
    <3> HIDE DEF y
    <3> QED BY <3>1, <3>2 DEF Part
  <2> HIDE DEF y, K, L, w
  <2>4. /\ Cumulative(y)
        /\ Weights(y) = [m \in DOMAIN z \cup {n} |-> IF m = n THEN w ELSE Weights(z)[m]]
    <3>1. /\ FiniteZSet(z) /\ Cumulative(z) /\ n \in Nat /\ n \notin DOMAIN z
          /\ w \in Nat \ {0}
      BY <1>1, <1>3, <2>1, <2>3
    <3> QED BY <3>1, NodesJoinAppends DEF y
  <2>5. DOMAIN y = DOMAIN z \cup {n}
    BY DEF y, NodesJoin, ZAdd
  <2>6. \A m \in DOMAIN y : WeightOf(y, m) = IF m = n THEN w ELSE WeightOf(z, m)
    BY <2>4, <2>5 DEF Weights
  <2>7. DOMAIN L = ((DOMAIN p.rows \ q.missing) \cup p.extra) \ Rear(p)
    BY <1>1, <1>3, <1>6, <2>3, <2>5
  <2>8. \A m \in DOMAIN L :
           WeightOf(L, m) = IF m \in DOMAIN p.rows THEN p.rows[m] ELSE WeightOf(p.seen, m)
    BY <1>1, <1>3, <2>3, <2>5, <2>6 DEF w
  <2>9. Cumulative(L)
    BY <2>3, <2>4
  <2>10. q.missing \subseteq Missing(p.rows, p.seen) /\ q.extra = Extra(p.rows, p.seen)
    BY <1>3
  <2> QED BY <1>2, <1>6, <2>7, <2>8, <2>9, <2>10 DEF Mending, L, y, w
<1>7. CASE Rear(p) # {}
  <2>1. n \in Rear(p) /\ n \notin Front(p) /\ n \in p.extra
    BY <1>3, <1>7, RearFollows DEF Front
  <2>2. n \in DOMAIN z
    BY <1>3, <2>1
  <2> HIDE DEF w
  <2>3. /\ DOMAIN y = DOMAIN z \cup {n} /\ L = K
        /\ \A m \in DOMAIN z : y[m] >= z[m]
    <3>1. /\ FiniteZSet(z) /\ Front(p) \in SUBSET Nat /\ n \notin Front(p) /\ w \in Nat \ {0}
          /\ n \in Nat /\ y = NodesJoin(z, n, w)
      BY <1>1, <2>1, FrontIsNat
    <3> HIDE DEF y, K, L
    <3>2. JoinsRear(z, Front(p), n, y)
      BY <3>1, JoinLeavesPart
    <3> QED BY <3>2 DEF JoinsRear, K, L
  <2>4. DOMAIN y = DOMAIN z
    BY <2>2, <2>3
  <2>5. /\ \A m \in DOMAIN z : z[m] \in Int /\ y[m] \in Int
        /\ \A m \in DOMAIN K : y[m] = z[m]
    <3>1. LastScore(z) + w \in Int
      BY <1>1, LastScoreIsInt
    <3> QED BY <1>1, <1>4, <2>1, <3>1 DEF FiniteZSet, NodesJoin, ZAdd
  <2> HIDE DEF y, K, L
  <2>6. ASSUME NEW m \in Rear(p) \cap p.extra, NEW k \in Rear(p) \cap p.extra,
               NEW l \in DOMAIN K
        PROVE  y[m] - y[l] >= p.seen[m] - Base(p, k)
    <3>1. z[m] - z[l] >= p.seen[m] - Base(p, k)
      BY <1>3
    <3>2. m \in DOMAIN z /\ l \in DOMAIN z /\ y[m] >= z[m] /\ y[l] = z[l]
      BY <1>3, <1>4, <2>3, <2>5
    <3>3. p.seen[m] \in Int /\ Base(p, k) \in Int
      BY RearFollows
    <3> QED BY <2>5, <3>1, <3>2, <3>3
  <2>7. DOMAIN L = ((DOMAIN p.rows \ q.missing) \cup p.extra) \ Rear(p)
    BY <1>3, <2>1, <2>3
  <2>8. q.missing \subseteq Missing(p.rows, p.seen)
    BY <1>3
  <2> QED BY <1>2, <1>3, <2>3, <2>4, <2>6, <2>7, <2>8 DEF Mending, L, K, y, w
<1> QED BY <1>6, <1>7

(* A node is taken out, the first of those that are left: of the front, as *)
(* node_lefts expects; of the rear, with a weight it may not have there.   *)
LEMMA LeaveMends ==
    ASSUME NEW p, NEW z, Reads(p, z), Mendable(p), Mending(p, z), p.missing = {},
           NEW n \in p.extra, p.extra \cap Before(p.seen, n) = {}, NEW q,
           q.rows = p.rows, q.seen = p.seen, q.missing = p.missing,
           q.extra = p.extra \ {n}
    PROVE  Mending(q, NodeLefts(z, n, WeightOf(p.seen, n)))
<1> DEFINE w == WeightOf(p.seen, n)
           y == NodeLefts(z, n, w)
           K == Part(z, Front(p))
           L == Part(y, Front(p))
<1>1. /\ Reweighted(q) = Reweighted(p) /\ Rear(q) = Rear(p) /\ Front(q) = Front(p)
      /\ \A m : Base(q, m) = Base(p, m)
  BY DEF Reweighted, Rear, Front, Base
<1>2. /\ p.extra \subseteq Extra(p.rows, p.seen)
      /\ \A m \in Rear(p) : m \in DOMAIN z <=> m \in p.extra
      /\ DOMAIN K = (DOMAIN p.rows \cup p.extra) \ Rear(p)
      /\ Cumulative(K)
      /\ \A m \in DOMAIN K :
            WeightOf(K, m) = IF m \in DOMAIN p.rows THEN p.rows[m] ELSE WeightOf(p.seen, m)
      /\ \A m, k \in Rear(p) \cap p.extra, l \in DOMAIN K :
            z[m] - z[l] >= p.seen[m] - Base(p, k)
  BY DEF Mending
<1>3. /\ DOMAIN K = DOMAIN z \cap Front(p) /\ \A m \in DOMAIN K : K[m] = z[m]
      /\ FiniteZSet(K) /\ FiniteZSet(z) /\ Leads(z, Front(p))
      /\ FiniteZSet(p.seen) /\ Cumulative(p.seen)
      /\ \A m \in DOMAIN z : z[m] \in Int /\ m \in Node
  BY FrontIsNat, PartIsZSet, FrontLeads DEF Part, Reads, FiniteZSet, Mendable
<1>4. /\ n \in DOMAIN p.seen /\ w \in Nat \ {0}
      /\ \A m \in Rear(p) \cap p.extra :
            /\ p.seen[m] \in Int /\ Base(p, m) \in Int /\ m \in DOMAIN p.seen
            /\ m \in DOMAIN z /\ z[m] \in Int
  BY <1>2, <1>3, RearFollows DEF Extra
<1>5. CASE n \notin Rear(p)
  <2>1. n \in Front(p) /\ n \in DOMAIN K /\ n \in DOMAIN z
    BY <1>2, <1>3, <1>5 DEF Front
  <2>2. n \notin DOMAIN p.rows /\ WeightOf(K, n) = w
    <3>1. n \notin DOMAIN p.rows
      BY <1>2, <1>5, RearFollows DEF Reweighted, Missing, Extra
    <3> QED BY <1>2, <2>1, <3>1
  <2>3. /\ DOMAIN y = DOMAIN z \ {n} /\ L = NodeLefts(K, n, w)
        /\ \A m \in DOMAIN z \ Front(p) : y[m] = z[m] - w
        /\ \A m \in (DOMAIN z \cap Front(p)) \ {n} :
              y[m] = z[m] - w \/ (y[m] = z[m] /\ z[m] <= z[n])
    <3>1. /\ FiniteZSet(z) /\ Leads(z, Front(p)) /\ Front(p) \in SUBSET Nat
          /\ n \in DOMAIN z /\ n \in Front(p)
          /\ n \in Nat /\ w \in Nat /\ y = NodeLefts(z, n, w)
      BY <1>3, <1>4, <2>1, FrontIsNat, StoreAssumption
    <3> HIDE DEF w, y, K, L
    <3>2. ClosesUp(z, Front(p), n, w, y)
      BY <3>1, LeftOfPart
    <3> QED BY <3>2 DEF ClosesUp, K, L
  <2> HIDE DEF w, y, K, L
  <2>4. /\ Cumulative(L)
        /\ Weights(L) = [m \in DOMAIN K \ {n} |-> Weights(K)[m]]
    BY <1>2, <1>3, <2>1, <2>2, <2>3, NodeLeftsRemoves
  <2>5. DOMAIN L = DOMAIN K \ {n}
    BY <1>3, <2>3 DEF L, Part
  <2>6. \A m \in DOMAIN L : WeightOf(L, m) = WeightOf(K, m)
    BY <2>4, <2>5 DEF Weights
  <2>7. ASSUME NEW m \in Rear(p) \cap q.extra, NEW k \in Rear(p) \cap q.extra,
               NEW l \in DOMAIN L
        PROVE  y[m] - y[l] >= p.seen[m] - Base(p, k)
    <3>1. /\ m \in Rear(p) \cap p.extra /\ k \in Rear(p) \cap p.extra
          /\ l \in DOMAIN K /\ l # n
      BY <2>5
    <3>2. /\ z[m] - z[l] >= p.seen[m] - Base(p, k)
          /\ z[m] - z[n] >= p.seen[m] - Base(p, k)
      BY <1>2, <2>1, <3>1
    <3>3. m \in DOMAIN z \ Front(p) /\ l \in (DOMAIN z \cap Front(p)) \ {n}
      BY <1>3, <1>4, <3>1 DEF Front
    <3>4. y[m] = z[m] - w /\ (y[l] = z[l] - w \/ (y[l] = z[l] /\ z[l] <= z[n] - w))
      <4>1. CASE y[l] = z[l] - w
        BY <2>3, <3>3, <4>1
      <4>2. CASE y[l] = z[l] /\ z[l] <= z[n]
        <5>1. K[l] < K[n]
          BY <1>2, <1>3, <2>1, <3>1, <3>3, <4>2 DEF Cumulative
        <5>2. K[n] - w >= K[l]
          BY <1>2, <1>3, <2>1, <2>2, <3>1, <5>1, WeightsFit
        <5> QED BY <1>3, <2>1, <2>3, <3>1, <3>3, <4>2, <5>2
      <4> QED BY <2>3, <3>3, <4>1, <4>2
    <3>5. /\ z[m] \in Int /\ z[l] \in Int /\ z[n] \in Int /\ w \in Int
          /\ p.seen[m] \in Int /\ Base(p, k) \in Int
      BY <1>3, <1>4, <2>1, <3>1, <3>3
    <3> QED BY <3>2, <3>4, <3>5
  <2>8. DOMAIN L = (DOMAIN p.rows \cup q.extra) \ Rear(p)
    BY <1>2, <2>2, <2>5
  <2>9. \A m \in Rear(p) : m \in DOMAIN y <=> m \in q.extra
    BY <1>2, <1>5, <2>3
  <2> QED BY <1>1, <1>2, <2>4, <2>5, <2>6, <2>7, <2>8, <2>9 DEF Mending, L, y, w
<1>6. CASE n \in Rear(p)
  <2>1. n \in DOMAIN z /\ n \notin Front(p)
    BY <1>4, <1>6 DEF Front
  <2>2. /\ DOMAIN y = DOMAIN z \ {n} /\ L = K
        /\ \A m \in DOMAIN z \ {n} : y[m] >= z[m] - w
    <3>1. /\ FiniteZSet(z) /\ Leads(z, Front(p)) /\ Front(p) \in SUBSET Nat
          /\ n \in DOMAIN z /\ n \notin Front(p)
          /\ n \in Nat /\ w \in Nat /\ y = NodeLefts(z, n, w)
      BY <1>3, <1>4, <2>1, FrontIsNat, StoreAssumption
    <3> HIDE DEF w, y, K, L
    <3>2. LeavesRear(z, Front(p), n, w, y)
      BY <3>1, LeftLeavesPart
    <3> QED BY <3>2 DEF LeavesRear, K, L
  <2>3. \A m \in DOMAIN y : y[m] \in Int
    <3>1. \A m \in DOMAIN z \ {n} : y[m] = z[m] \/ y[m] = z[m] + (-w)
      BY <2>1 DEF NodeLefts, ZRem, Shift
    <3> HIDE DEF w, y
    <3> QED BY <1>3, <1>4, <2>2, <3>1
  <2>4. \A m \in DOMAIN K : y[m] = z[m] /\ m \in DOMAIN z /\ m # n
    <3>1. \A m \in DOMAIN L : L[m] = y[m]
      BY DEF Part
    <3> QED BY <1>3, <2>1, <2>2, <3>1
  <2> HIDE DEF y, K, L
  <2>5. ASSUME NEW m \in Rear(p) \cap q.extra, NEW k \in Rear(p) \cap q.extra,
               NEW l \in DOMAIN K
        PROVE  y[m] - y[l] >= p.seen[m] - Base(p, k)
    <3>1. /\ m \in Rear(p) \cap p.extra /\ n \in Rear(p) \cap p.extra
          /\ k \in Rear(p) \cap p.extra /\ m # n /\ k # n
      BY <1>6
    <3>2. z[m] - z[l] >= p.seen[m] - Base(p, n)
      BY <1>2, <3>1
    <3>3. p.seen[n] < p.seen[k]
      BY <1>3, <1>4, <3>1, RankIsScoreOrder DEF Cumulative
    <3>4. Base(p, k) >= p.seen[n]
      BY <1>3, <1>4, <3>1, <3>3, WeightsFit DEF Base
    <3>5. Base(p, n) = p.seen[n] - w
      BY DEF Base
    <3>6. m \in DOMAIN z /\ y[m] >= z[m] - w /\ y[l] = z[l] /\ y[m] \in Int
      BY <1>2, <2>2, <2>3, <2>4, <3>1
    <3>7. /\ z[m] \in Int /\ z[l] \in Int /\ w \in Int /\ p.seen[n] \in Int
          /\ p.seen[m] \in Int /\ Base(p, k) \in Int
      BY <1>3, <1>4, <2>4, <3>1
    <3> HIDE DEF w
    <3> QED BY <3>2, <3>4, <3>5, <3>6, <3>7
  <2>6. DOMAIN L = (DOMAIN p.rows \cup q.extra) \ Rear(p)
    BY <1>2, <1>6, <2>2
  <2>7. \A m \in Rear(p) : m \in DOMAIN y <=> m \in q.extra
    BY <1>2, <2>2
  <2> QED BY <1>1, <1>2, <2>2, <2>5, <2>6, <2>7 DEF Mending, L, K, y, w
<1> QED BY <1>5, <1>6

(* What is left when nothing is left to do. *)
LEMMA AllMended ==
    ASSUME NEW p, NEW z, Reads(p, z), Mendable(p), Mending(p, z),
           p.missing = {}, p.extra = {}
    PROVE  /\ Cumulative(z)
           /\ Weights(z) = [n \in DOMAIN p.rows \ Reweighted(p) |-> p.rows[n]]
<1> DEFINE K == Part(z, Front(p))
<1>1. /\ \A n \in Rear(p) : n \notin DOMAIN z
      /\ DOMAIN K = DOMAIN p.rows \ Rear(p)
      /\ Cumulative(K)
      /\ \A n \in DOMAIN K : n \in DOMAIN p.rows => WeightOf(K, n) = p.rows[n]
  BY DEF Mending
<1>2. DOMAIN z \cap Front(p) = DOMAIN z /\ z = [n \in DOMAIN z |-> z[n]]
  BY <1>1 DEF Reads, Front, FiniteZSet
<1>3. K = z
  BY <1>2 DEF Part
<1>4. DOMAIN p.rows \ Rear(p) = DOMAIN p.rows \ Reweighted(p)
  BY RearFollows
<1> HIDE DEF K
<1>5. /\ DOMAIN z = DOMAIN p.rows \ Reweighted(p)
      /\ \A n \in DOMAIN z : WeightOf(z, n) = p.rows[n]
  BY <1>1, <1>3, <1>4
<1>6. Weights(z) = [n \in DOMAIN p.rows \ Reweighted(p) |-> p.rows[n]]
  BY <1>5 DEF Weights
<1> QED BY <1>1, <1>3, <1>6

---------------------------------------------------------------------------
MInv ==
    pass.pc = "repair" /\ Mendable(pass) => Mending(pass, zset[pass.domain])

LEMMA ReadsHaveTypes ==
    ASSUME Stores, Cron, pass.pc \in {"get_domain_nodes", "repair"}
    PROVE  /\ pass.domain \in Domain /\ Reads(pass, zset[pass.domain])
           /\ FiniteZSet(zset[pass.domain])
<1>1. pass.domain \in Domain
  BY DEF Cron, PassOK
<1>2. /\ IsZSet(pass.seen, Node) /\ IsZSet(zset[pass.domain], Node)
      /\ DOMAIN pass.rows \subseteq Node /\ \A n \in DOMAIN pass.rows : pass.rows[n] \in Weight
  BY <1>1 DEF Cron, PassOK, Stores, IsTable
<1>3. FiniteZSet(pass.seen) /\ FiniteZSet(zset[pass.domain])
  BY <1>2, StoreAssumption, FS_Subset DEF IsZSet, FiniteZSet
<1> QED BY <1>1, <1>2, <1>3, StoreAssumption DEF Reads, IsZSet

LEMMA RepairGoesOn ==
    ASSUME Stores, Cron, MInv, JoinMissing \/ LeaveExtra
    PROVE  MInv'
<1> DEFINE d == pass.domain
           z == zset[d]
<1>1. /\ pass.pc = "repair" /\ d \in Domain /\ Reads(pass, z)
      /\ DOMAIN zset = Domain
  BY ReadsHaveTypes DEF JoinMissing, LeaveExtra, Stores
<1>2. SUFFICES ASSUME pass'.pc = "repair", Mendable(pass') PROVE Mending(pass', zset'[pass'.domain])
  BY DEF MInv
<1>3. CASE JoinMissing
  <2>1. PICK n \in pass.missing :
            /\ zset' = [zset EXCEPT ![d] = NodesJoin(@, n, pass.rows[n])]
            /\ pass' = [pass EXCEPT !.missing = @ \ {n}]
    BY <1>3 DEF JoinMissing
  <2>2. /\ pass'.domain = d /\ pass'.rows = pass.rows /\ pass'.seen = pass.seen
        /\ pass'.extra = pass.extra /\ pass'.missing = pass.missing \ {n}
    BY <2>1 DEF Cron, PassOK
  <2>3. zset'[d] = NodesJoin(z, n, pass.rows[n])
    BY <1>1, <2>1
  <2>4. Mendable(pass)
    BY <1>2, <2>2 DEF Mendable, Reweighted, Rear
  <2>5. Mending(pass, z)
    BY <1>1, <2>4 DEF MInv
  <2> HIDE DEF d, z
  <2> QED BY <1>1, <2>2, <2>3, <2>4, <2>5, JoinMends
<1>4. CASE LeaveExtra
  <2>1. PICK n \in pass.extra :
            /\ pass.extra \cap Before(pass.seen, n) = {}
            /\ zset' = [zset EXCEPT ![d] = NodeLefts(@, n, WeightOf(pass.seen, n))]
            /\ pass' = [pass EXCEPT !.extra = @ \ {n}]
    BY <1>4 DEF LeaveExtra
  <2>2. /\ pass'.domain = d /\ pass'.rows = pass.rows /\ pass'.seen = pass.seen
        /\ pass'.missing = pass.missing /\ pass'.extra = pass.extra \ {n}
        /\ pass.missing = {}
    BY <1>4, <2>1 DEF Cron, PassOK, LeaveExtra
  <2>3. zset'[d] = NodeLefts(z, n, WeightOf(pass.seen, n))
    BY <1>1, <2>1
  <2>4. Mendable(pass)
    BY <1>2, <2>2 DEF Mendable, Reweighted, Rear
  <2>5. Mending(pass, z)
    BY <1>1, <2>4 DEF MInv
  <2> HIDE DEF d, z
  <2> QED BY <1>1, <2>1, <2>2, <2>3, <2>4, <2>5, LeaveMends
<1> QED BY <1>3, <1>4

LEMMA RepairBegins ==
    ASSUME Stores, Cron, ReadRedis
    PROVE  MInv'
<1> DEFINE d == pass.domain
           z == zset[d]
<1>1. /\ Reads(pass, z) /\ FiniteZSet(z) /\ zset' = zset
      /\ pass' = [pass EXCEPT !.pc = "repair", !.seen = z,
                     !.missing = Missing(pass.rows, z), !.extra = Extra(pass.rows, z)]
  BY ReadsHaveTypes DEF ReadRedis, redis
<1>2. /\ pass'.domain = d /\ pass'.rows = pass.rows /\ pass'.seen = z
      /\ pass'.missing = Missing(pass.rows, z) /\ pass'.extra = Extra(pass.rows, z)
  BY <1>1 DEF Cron, PassOK
<1>3. Reads(pass', pass'.seen)
  BY <1>1, <1>2 DEF Reads
<1> QED BY <1>1, <1>2, <1>3, ReadMends DEF MInv

LEMMA NextRepairs ==
    IInv /\ MInv /\ [Next]_vars /\ [LeftAlone]_vars => MInv'
<1> SUFFICES ASSUME IInv, MInv, [Next]_vars, [LeftAlone]_vars PROVE MInv'
  OBVIOUS
<1>1. Stores /\ Cron
  BY DEF IInv
<1>2. CASE UNCHANGED vars
  BY <1>2 DEF vars, redis, cron, MInv
<1>3. CASE pass'.pc # "repair"
  BY <1>3 DEF MInv
<1>4. CASE UNCHANGED pass /\ Next /\ LeftAlone
  <2>1. CASE JoinMissing \/ LeaveExtra
    BY <1>1, <2>1, RepairGoesOn
  <2>2. CASE pass.pc = "repair" => UNCHANGED zset[pass.domain]
    BY <1>4, <2>2 DEF MInv
  <2> QED BY <1>4, <2>1, <2>2 DEF LeftAlone
<1>5. CASE PassStep
  <2>1. CASE BeginPass \/ ReadRows \/ EndDomain
    <3>1. /\ NoPass.pc = "idle"
          /\ \A D : [NoPass EXCEPT !.pc = "next", !.domains = D].pc = "next"
      BY DEF NoPass
    <3>2. pass'.pc # "repair"
      BY <1>1, <2>1, <3>1 DEF BeginPass, ReadRows, EndDomain, Cron, PassOK
    <3> QED BY <1>3, <3>2
  <2> QED BY <1>1, <1>5, <2>1, RepairGoesOn, RepairBegins DEF PassStep
<1>6. CASE Restart \/ PassPanics
  <2>1. pass'.pc # "repair"
    BY <1>6 DEF Restart, PassPanics, NoPass
  <2> QED BY <1>3, <2>1
<1>7. ASSUME RepairFails, LeftAlone PROVE FALSE
  BY <1>7 DEF RepairFails, LeftAlone
<1>8. ASSUME NEW s \in Slot,
             \/ Begin(s) \/ HandlerStep(s) \/ Abort(s)
             \/ MappingFails(s) \/ CreateFails(s)
      PROVE  UNCHANGED pass
  BY <1>8 DEF Begin, HandlerStep, Abort, MappingFails, CreateFails, cron
<1>9. ASSUME SweepStep \/ SweepFails \/ \E n \in Node : Ages(n) PROVE UNCHANGED pass
  BY <1>9 DEF SweepStep, UnavailExpired, CloseExpired, SweepFails, Ages, cron
<1> QED BY <1>2, <1>4, <1>5, <1>6, <1>7, <1>8, <1>9 DEF Next

(* Whatever requests, failures and crashes have done before, a repair that *)
(* is left alone mends a list that is mendable: where no weight differs,   *)
(* the list is then the members with their weights; where weights differ,  *)
(* it is so but for these nodes, which the next pass (TwoPassesMend) joins.*)
(* This is the part of Recovers that one pass does.                        *)
THEOREM RepairsMend ==
    Spec /\ [][LeftAlone]_vars => []Mended
<1>1. Init => MInv
  BY DEF Init, NoPass, MInv
<1>2. IInv /\ MInv /\ [Next]_vars /\ [LeftAlone]_vars => MInv'
  BY NextRepairs
<1>3. IInv /\ MInv => Mended
  <2> SUFFICES ASSUME IInv, MInv, pass.pc = "repair", pass.missing = {}, pass.extra = {},
                      Mendable(pass)
               PROVE  /\ Cumulative(zset[pass.domain])
                      /\ Weights(zset[pass.domain]) =
                            [n \in DOMAIN pass.rows \ Reweighted(pass) |-> pass.rows[n]]
    BY DEF Mended
  <2>1. Reads(pass, zset[pass.domain])
    BY ReadsHaveTypes DEF IInv
  <2>2. Mending(pass, zset[pass.domain])
    BY DEF MInv
  <2> QED BY <2>1, <2>2, AllMended
<1> QED BY <1>1, <1>2, <1>3, InvariantHolds, PTL DEF Spec

---------------------------------------------------------------------------
(* What the next pass does with what such a repair leaves behind.          *)

(* What a pass reads of domain d in the database. *)
Rows(d) == get_nodes_by_domain(members, nodes, d)

PassIn(d) == pass.pc \in {"get_domain_nodes", "repair"} /\ pass.domain = d

(* The pass has repaired domain d, from what is in the database now. *)
RepairDone(d) ==
    /\ pass.pc = "repair" /\ pass.domain = d
    /\ pass.missing = {} /\ pass.extra = {}

(* What the database says of domain d stands, nobody but a pass changes    *)
(* its list, and no call of its repair fails.                              *)
Undisturbed(d) ==
    /\ UNCHANGED Rows(d)
    /\ JoinMissing \/ LeaveExtra \/ UNCHANGED zset[d]
    /\ PassIn(d) => ~RepairFails

(* The list has no node too many and no wrong weight, and a pass in d will *)
(* not take any out.                                                       *)
Settled(d) ==
    /\ Cumulative(zset[d])
    /\ \A n \in DOMAIN zset[d] :
          n \in DOMAIN Rows(d) /\ WeightOf(zset[d], n) = Rows(d)[n]
    /\ PassIn(d) => pass.rows = Rows(d)
    /\ PassIn(d) /\ pass.pc = "repair"
       => pass.extra = {} /\ pass.missing \cap DOMAIN zset[d] = {}

(* A pass in d has read what is missing. *)
Looked(d) ==
    PassIn(d) /\ pass.pc = "repair"
    => DOMAIN Rows(d) \subseteq pass.missing \cup DOMAIN zset[d]

Full(d) == DOMAIN Rows(d) \subseteq DOMAIN zset[d]

(* What settles d stays, and what is in the list does. *)
GoesOn(d) ==
    /\ Settled(d)'
    /\ Looked(d) => Looked(d)'
    /\ Full(d) => Full(d)'

LEMMA RowsHaveTypes ==
    ASSUME Stores, NEW d \in Domain
    PROVE  /\ FiniteZSet(zset[d])
           /\ \A n \in DOMAIN Rows(d) : n \in Nat /\ Rows(d)[n] \in Nat \ {0}
<1>1. IsZSet(zset[d], Node) /\ IsTable(members, Node, DomainRow(Domain, Weight))
  BY DEF Stores
<1>2. FiniteZSet(zset[d])
  BY <1>1, StoreAssumption, FS_Subset DEF IsZSet, FiniteZSet
<1>3. \A n \in DOMAIN Rows(d) : n \in Nat /\ Rows(d)[n] \in Nat \ {0}
  BY <1>1, StoreAssumption DEF Rows, get_nodes_by_domain, IsTable, DomainRow
<1> QED BY <1>2, <1>3

(* The pass is elsewhere, or has yet to read d. *)
LEMMA SettledElsewhere ==
    ASSUME NEW d, Settled(d), UNCHANGED <<zset[d], Rows(d)>>,
           \/ ~PassIn(d)'
           \/ UNCHANGED pass
           \/ pass'.pc = "get_domain_nodes" /\ pass'.rows = Rows(d)
    PROVE  GoesOn(d)
BY DEF GoesOn, Settled, Looked, Full, PassIn

LEMMA SettledIsRead ==
    ASSUME Stores, Cron, NEW d \in Domain, Settled(d), UNCHANGED Rows(d),
           ReadRedis, pass.domain = d
    PROVE  GoesOn(d)
<1>1. /\ pass.pc = "get_domain_nodes" /\ pass.rows = Rows(d)
      /\ \A n \in DOMAIN zset[d] :
            n \in DOMAIN Rows(d) /\ WeightOf(zset[d], n) = Rows(d)[n]
  BY DEF ReadRedis, Settled, PassIn
<1>2. /\ pass'.pc = "repair" /\ pass'.domain = d /\ pass'.rows = Rows(d)
      /\ pass'.missing = Missing(Rows(d), zset[d])
      /\ pass'.extra = Extra(Rows(d), zset[d]) /\ UNCHANGED zset[d]
  BY <1>1 DEF ReadRedis, Cron, PassOK, redis
<1>3. /\ Extra(Rows(d), zset[d]) = {}
      /\ Missing(Rows(d), zset[d]) = DOMAIN Rows(d) \ DOMAIN zset[d]
  BY <1>1 DEF Extra, Missing
<1> QED BY <1>1, <1>2, <1>3 DEF GoesOn, Settled, Looked, Full, PassIn

LEMMA SettledIsJoined ==
    ASSUME Stores, Cron, NEW d \in Domain, Settled(d), UNCHANGED Rows(d),
           JoinMissing, pass.domain = d
    PROVE  GoesOn(d)
<1> DEFINE z == zset[d]
<1>1. PICK n \in pass.missing :
          /\ zset' = [zset EXCEPT ![d] = NodesJoin(@, n, pass.rows[n])]
          /\ pass' = [pass EXCEPT !.missing = @ \ {n}]
  BY DEF JoinMissing
<1>2. /\ pass.pc = "repair" /\ PassIn(d) /\ pass.rows = Rows(d)
      /\ pass.extra = {} /\ pass.missing \cap DOMAIN z = {}
      /\ n \in DOMAIN Rows(d) /\ n \notin DOMAIN z
  BY <1>1 DEF JoinMissing, Settled, PassIn, Cron, PassOK
<1>3. /\ pass'.pc = "repair" /\ pass'.domain = d /\ pass'.rows = Rows(d)
      /\ pass'.extra = {} /\ pass'.missing = pass.missing \ {n}
  BY <1>1, <1>2 DEF Cron, PassOK
<1>4. zset'[d] = NodesJoin(z, n, Rows(d)[n])
  BY <1>1, <1>2 DEF Stores
<1>5. /\ FiniteZSet(z) /\ Cumulative(z) /\ n \in Nat /\ Rows(d)[n] \in Nat \ {0}
  BY <1>2, RowsHaveTypes DEF Settled
<1>6. \A m \in DOMAIN z : m \in DOMAIN Rows(d) /\ Weights(z)[m] = Rows(d)[m]
  BY DEF Settled, Weights
<1> HIDE DEF z
<1>7. /\ Cumulative(zset'[d])
      /\ Weights(zset'[d]) = [m \in DOMAIN z \cup {n} |->
                                 IF m = n THEN Rows(d)[n] ELSE Weights(z)[m]]
  BY <1>2, <1>4, <1>5, NodesJoinAppends
<1>8. DOMAIN zset'[d] = DOMAIN z \cup {n}
  BY <1>7 DEF Weights
<1>9. \A m \in DOMAIN zset'[d] :
         m \in DOMAIN Rows(d) /\ WeightOf(zset'[d], m) = Rows(d)[m]
  <2>1. \A m \in DOMAIN zset'[d] : Weights(zset'[d])[m] = WeightOf(zset'[d], m)
    BY DEF Weights
  <2> QED BY <1>2, <1>6, <1>7, <1>8, <2>1
<1>10. Settled(d)'
  BY <1>2, <1>3, <1>7, <1>8, <1>9 DEF Settled, PassIn
<1>11. DOMAIN z = DOMAIN zset[d]
  BY DEF z
<1> QED BY <1>2, <1>3, <1>8, <1>10, <1>11 DEF GoesOn, Looked, Full, PassIn

LEMMA NextSettles ==
    ASSUME NEW d \in Domain, IInv, Settled(d), [Next]_vars, [Undisturbed(d)]_vars
    PROVE  GoesOn(d)
<1>1. Stores /\ Cron
  BY DEF IInv
<1>2. CASE UNCHANGED vars
  <2>1. UNCHANGED <<zset, pass, members, nodes>>
    BY <1>2 DEF vars, db, redis, cron
  <2> QED BY <2>1, SettledElsewhere DEF Rows
<1>3. CASE Undisturbed(d) /\ UNCHANGED pass
  <2>1. pass' # pass \/ UNCHANGED zset[d]
    <3>1. ASSUME JoinMissing PROVE pass'.missing # pass.missing
      BY <3>1, <1>1 DEF JoinMissing, Cron, PassOK
    <3>2. ASSUME LeaveExtra PROVE pass'.extra # pass.extra
      BY <3>2, <1>1 DEF LeaveExtra, Cron, PassOK
    <3> QED BY <1>3, <3>1, <3>2 DEF Undisturbed
  <2> QED BY <1>3, <2>1, SettledElsewhere DEF Undisturbed
<1>4. CASE Undisturbed(d) /\ (BeginPass \/ ReadRows \/ EndDomain \/ Restart \/ PassPanics)
  <2>1. /\ UNCHANGED <<zset, members, nodes>>
        /\ \/ ~PassIn(d)'
           \/ pass'.pc = "get_domain_nodes" /\ pass'.rows = Rows(d)
    <3>1. NoPass.pc = "idle" /\ DOMAIN NoPass = {"pc", "domains", "domain", "rows",
                                                 "seen", "missing", "extra"}
      BY DEF NoPass
    <3>2. CASE BeginPass \/ EndDomain \/ Restart \/ PassPanics
      BY <1>4, <3>1, <3>2 DEF BeginPass, EndDomain, Restart, PassPanics, PassIn, db, redis
    <3>3. CASE ReadRows
      BY <1>1, <3>3 DEF ReadRows, PassIn, Rows, Cron, PassOK, db, redis
    <3> QED BY <1>4, <3>2, <3>3
  <2> QED BY <1>4, <2>1, SettledElsewhere DEF Undisturbed
<1>5. CASE Undisturbed(d) /\ (ReadRedis \/ JoinMissing \/ LeaveExtra \/ RepairFails)
  <2>1. CASE pass.domain = d
    <3>1. ~LeaveExtra /\ ~RepairFails
      BY <1>5, <2>1 DEF LeaveExtra, RepairFails, Undisturbed, Settled, PassIn
    <3> QED BY <1>1, <1>5, <2>1, <3>1, SettledIsRead, SettledIsJoined DEF Undisturbed
  <2>2. CASE pass.domain # d
    <3>1. ~PassIn(d)' /\ UNCHANGED zset[d]
      BY <1>1, <1>5, <2>2 DEF ReadRedis, JoinMissing, LeaveExtra, RepairFails, PassIn,
                              Cron, PassOK, Stores, redis
    <3> QED BY <1>5, <3>1, SettledElsewhere DEF Undisturbed
  <2> QED BY <2>1, <2>2
<1>6. ASSUME \/ \E s \in Slot : \/ Begin(s) \/ HandlerStep(s) \/ Abort(s)
                                \/ MappingFails(s) \/ CreateFails(s)
             \/ SweepStep \/ SweepFails \/ \E n \in Node : Ages(n)
      PROVE  UNCHANGED pass
  BY <1>6 DEF Begin, HandlerStep, Abort, MappingFails, CreateFails, SweepStep,
              UnavailExpired, CloseExpired, SweepFails, Ages, cron
<1> QED BY <1>2, <1>3, <1>4, <1>5, <1>6 DEF Next, PassStep

LEMMA FullIsSynchronised ==
    ASSUME NEW d \in Domain, IInv, Settled(d), Full(d)
    PROVE  SynchronisedIn(d)
<1>1. DOMAIN members \subseteq DOMAIN nodes
  BY DEF IInv, Stores, ReferencesHold, References
<1>2. Rows(d) = [n \in {m \in DOMAIN members : IsOnline(m) /\ members[m].domain = d}
                     |-> members[n].weight]
  <2>1. {m \in DOMAIN members \cap DOMAIN nodes :
             members[m].domain = d /\ nodes[m].status = ONLINE}
        = {m \in DOMAIN members : IsOnline(m) /\ members[m].domain = d}
    BY <1>1 DEF IsOnline
  <2> QED BY <2>1 DEF Rows, get_nodes_by_domain
<1>3. /\ DOMAIN zset[d] = DOMAIN Rows(d)
      /\ \A n \in DOMAIN zset[d] : WeightOf(zset[d], n) = Rows(d)[n]
  BY DEF Settled, Full
<1>4. Rows(d) = [n \in DOMAIN Rows(d) |-> Rows(d)[n]]
  BY DEF Rows, get_nodes_by_domain
<1>5. Weights(zset[d]) = Rows(d)
  <2>1. Weights(zset[d]) = [n \in DOMAIN zset[d] |-> WeightOf(zset[d], n)]
    BY DEF Weights
  <2> HIDE DEF Rows
  <2> QED BY <1>3, <1>4, <2>1
<1> QED BY <1>2, <1>5 DEF SynchronisedIn

(* Two passes are enough: once a repair has mended a mendable list of d,   *)
(* the next pass over d brings it in line with the database, nodes that    *)
(* had another weight included, and it stays so, as long as the database   *)
(* stands, nobody else changes the list and no repair of it fails.         *)
(* Requests, failures, restarts and passes over other domains may go on.   *)
THEOREM TwoPassesMend ==
    ASSUME NEW d \in Domain
    PROVE  Spec /\ [][LeftAlone]_vars
           => [](/\ RepairDone(d) /\ Mendable(pass) /\ pass.rows = Rows(d)
                 /\ [][Undisturbed(d)]_vars
                 => [](~PassIn(d) => [](RepairDone(d) => []SynchronisedIn(d))))
<1>1. IInv /\ Mended /\ RepairDone(d) /\ Mendable(pass) /\ pass.rows = Rows(d)
      => Settled(d)
  <2> SUFFICES ASSUME Mended, RepairDone(d), Mendable(pass), pass.rows = Rows(d)
               PROVE  Settled(d)
    OBVIOUS
  <2>1. /\ Cumulative(zset[d])
        /\ Weights(zset[d]) = [n \in DOMAIN Rows(d) \ Reweighted(pass) |-> Rows(d)[n]]
    BY DEF Mended, RepairDone
  <2>2. DOMAIN zset[d] = DOMAIN Rows(d) \ Reweighted(pass)
    BY <2>1 DEF Weights
  <2>3. \A n \in DOMAIN zset[d] : WeightOf(zset[d], n) = Rows(d)[n]
    BY <2>1, <2>2 DEF Weights
  <2> QED BY <2>1, <2>2, <2>3 DEF Settled, RepairDone, PassIn
<1>2. IInv /\ Settled(d) /\ [Next]_vars /\ [Undisturbed(d)]_vars
      => /\ Settled(d)'
         /\ Looked(d) => Looked(d)'
         /\ Full(d) => Full(d)'
  BY NextSettles DEF GoesOn
<1>3. ~PassIn(d) => Looked(d)
  BY DEF Looked
<1>4. Looked(d) /\ RepairDone(d) => Full(d)
  BY DEF Looked, RepairDone, PassIn, Full
<1>5. IInv /\ Settled(d) /\ Full(d) => SynchronisedIn(d)
  BY FullIsSynchronised
<1> QED BY <1>1, <1>2, <1>3, <1>4, <1>5, RepairsMend, InvariantHolds, PTL DEF Spec
=============================================================================
