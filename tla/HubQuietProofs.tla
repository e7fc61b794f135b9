--------------------------- MODULE HubQuietProofs ---------------------------
(***************************************************************************)
(* Who keeps out of whose way when Overlap is FALSE.  And, for any stores, *)
(* requests and cronjobs, with overlaps and failures but for those named:  *)
(* a node that is not closed has a mapping, as long as its proxies are     *)
(* those of one device.                                                    *)
(***************************************************************************)
EXTENDS HubProofs

---------------------------------------------------------------------------
(* The actors. *)

(* Two handlers of the operations Ops are never about the same node. *)
Apart(Ops) ==
    \A s, t \in Slot :
        s # t /\ task[s].op \in Ops /\ task[t].op \in Ops
        => Names(task[s]) \cap Names(task[t]) = {}

(* Two handlers of any operation are not, and none runs during a pass. *)
Alone ==
    /\ Apart(DOMAIN Calls)
    /\ \/ pass.pc \in {"idle", "panicked"} /\ DOMAIN pass.rows = {} /\ DOMAIN pass.seen = {}
       \/ \A s \in Slot : task[s] = Idle

---------------------------------------------------------------------------
(* The condition. *)

(* The requests that open or close a proxy of node n. *)
ProxyRequests(n) ==
    {q \in Requests : q.op \in {"NewProxy", "CloseProxy"} /\ Head(q.todo).node = n}

(* They are all of one device, and name an frps. *)
ProxiesAreOwn ==
    \A n \in Node : \A p, q \in ProxyRequests(n) :
        p.device = q.device /\ p.frps # NoFrps

(* The stores to start from are of such a hub. *)
StartsRouted ==
    \A i \in Initial : \A n \in DOMAIN i.nodes :
        /\ \A q \in ProxyRequests(n) : i.nodes[n].device = q.device
        /\ i.nodes[n].status # OFFLINE => n \in DOMAIN i.route

(* The operations that map a node, or make it open or closed. *)
RouteOps == {"NewProxy", "CloseProxy", "NodeHealth"}

---------------------------------------------------------------------------
(* The inductive invariant, on top of that of HubProofs. *)

(* A node's row names the device its proxies are of. *)
Owned ==
    \A n \in DOMAIN nodes : \A q \in ProxyRequests(n) : nodes[n].device = q.device

(* A handler k about to open a node, with the mappings R, has seen or made *)
(* a mapping.                                                              *)
RoutedBy(k, R) ==
    /\ k.op \in {"NewProxy", "CloseProxy"}
       => /\ k.frps # NoFrps /\ ProxyRequests(Head(k.todo).node) # {}
          /\ \A q \in ProxyRequests(Head(k.todo).node) : k.device = q.device
    /\ \/ k.op = "NewProxy" /\ k.pc # "set_subdomain_frps_id"
       \/ k.op = "NodeHealth" /\ k.pc # "query_node_by_node_id"
       => Head(k.todo).node \in R

(* k has removed the mapping of n and is about to close it. *)
Closes(k, n) ==
    k.op = "CloseProxy" /\ k.pc = "update_node_status" /\ Head(k.todo).node = n

(* The failures that matter do not happen: a NewProxy whose mapping is not *)
(* written goes no further, and a CloseProxy that has removed the mapping  *)
(* closes the node.                                                        *)
MappingsStand ==
    \A s \in Slot :
        /\ MappingFails(s) => task[s].op = "CloseProxy"
        /\ Abort(s) \/ Restart => \A n \in Node : ~Closes(task[s], n)

Routed ==
    \A n \in DOMAIN nodes :
        nodes[n].status # OFFLINE
        => n \in DOMAIN route \/ \E s \in Slot : Closes(task[s], n)

RInv ==
    /\ Owned /\ Routed
    /\ \A s \in Slot : RoutedBy(task[s], DOMAIN route)

---------------------------------------------------------------------------
(* What a step of a handler does to the handler. *)

(* It leaves the others alone, and names no new node. *)
Moved(s) ==
    /\ \A t \in Slot \ {s} : task'[t] = task[t]
    /\ Names(task'[s]) \subseteq Names(task[s])
    /\ task'[s].op \in {task[s].op, "none"}

LEMMA HeadIsNamed ==
    ASSUME Handlers, NEW s \in Slot, task[s].op \notin {"none", "Login", "Ping"}
    PROVE  This(s).node \in Names(task[s])
<1>1. task[s].todo \in Seq(Item) /\ task[s].todo # << >>
  BY AtHand DEF RequestOK, Task
<1>2. 1 \in DOMAIN task[s].todo /\ Head(task[s].todo) = task[s].todo[1]
  BY <1>1
<1> QED BY <1>2 DEF This, Names

LEMMA Gone ==
    ASSUME Handlers, NEW s \in Slot, Done(s)
    PROVE  /\ Moved(s)
           /\ \A n : ~Closes(task'[s], n)
           /\ \A R : RoutedBy(task'[s], R)
<1>1. task'[s] = Idle /\ \A t \in Slot \ {s} : task'[t] = task[t]
  BY DEF Handlers, Done
<1>2. Idle.op = "none" /\ Names(Idle) = {}
  BY DEF Idle, Names
<1> QED BY <1>1, <1>2 DEF Moved, Closes, RoutedBy

(* The handler goes on with the same node. *)
Goes(s, c) ==
    /\ Moved(s)
    /\ task'[s].op = task[s].op /\ task'[s].pc = c
    /\ task'[s].device = task[s].device /\ task'[s].frps = task[s].frps
    /\ Head(task'[s].todo).node = This(s).node

LEMMA Going ==
    ASSUME Handlers, NEW s \in Slot, task[s].op # "none", NEW c, Goto(s, c)
    PROVE  Goes(s, c) /\ Head(task'[s].todo) = This(s)
<1>1. task[s] \in Task
  BY AtHand DEF RequestOK
<1>2. /\ \A t \in Slot \ {s} : task'[t] = task[t]
      /\ task'[s] = [task[s] EXCEPT !.pc = c]
  BY DEF Handlers, Goto
<1>3. /\ task'[s].op = task[s].op /\ task'[s].pc = c
      /\ task'[s].device = task[s].device /\ task'[s].frps = task[s].frps
      /\ task'[s].todo = task[s].todo
  BY <1>1, <1>2 DEF Task
<1> QED BY <1>2, <1>3 DEF Goes, Moved, Names, This

LEMMA GoingWith ==
    ASSUME Handlers, NEW s \in Slot, task[s].op \notin {"none", "Login", "Ping"},
           NEW c, NEW row, GotoWith(s, c, row)
    PROVE  /\ Goes(s, c)
           /\ Head(task'[s].todo).domain = row.domain
           /\ Head(task'[s].todo).weight = row.weight
<1> DEFINE i == [This(s) EXCEPT !.domain = row.domain, !.weight = row.weight]
           l == [task[s].todo EXCEPT ![1] = i]
<1>1. /\ task[s] \in Task /\ task[s].todo \in Seq(Item) /\ task[s].todo # << >>
      /\ This(s) = task[s].todo[1] /\ This(s) \in Item
  BY AtHand DEF RequestOK, Task, This
<1>2. i.node = This(s).node /\ i.domain = row.domain /\ i.weight = row.weight
  BY <1>1 DEF Item
<1>3. /\ \A t \in Slot \ {s} : task'[t] = task[t]
      /\ task'[s] = [task[s] EXCEPT !.pc = c, !.todo = l]
  BY <1>1 DEF Handlers, GotoWith, Task
<1> HIDE DEF i
<1>4. /\ DOMAIN l = DOMAIN task[s].todo /\ l[1] = i /\ Head(l) = i
      /\ \A j \in DOMAIN l : l[j] = IF j = 1 THEN i ELSE task[s].todo[j]
  BY <1>1
<1> HIDE DEF l
<1>5. /\ task'[s].op = task[s].op /\ task'[s].pc = c
      /\ task'[s].device = task[s].device /\ task'[s].frps = task[s].frps
      /\ task'[s].todo = l
  BY <1>1, <1>3 DEF Task
<1>6. \A j \in DOMAIN l : l[j].node = task[s].todo[j].node
  BY <1>1, <1>2, <1>4
<1>7. Names(task'[s]) \subseteq Names(task[s])
  BY <1>4, <1>5, <1>6 DEF Names
<1> QED BY <1>2, <1>3, <1>4, <1>5, <1>7 DEF Goes, Moved

LEMMA GoingOn ==
    ASSUME Handlers, NEW s \in Slot, task[s].op \in {"PUT", "DELETE"},
           NEW c, NextItem(s, c)
    PROVE  /\ Moved(s)
           /\ \A n : ~Closes(task'[s], n)
           /\ \A R : RoutedBy(task'[s], R)
<1>1. CASE Done(s)
  BY <1>1, Gone
<1>2. CASE ~Done(s)
  <2>1. task[s] \in Task /\ task[s].todo \in Seq(Item) /\ task[s].todo # << >>
    BY AtHand DEF RequestOK, Task
  <2>2. /\ \A t \in Slot \ {s} : task'[t] = task[t]
        /\ task'[s] = [task[s] EXCEPT !.pc = c, !.todo = Tail(@)]
    BY <1>2 DEF Handlers, NextItem
  <2>3. task'[s].op = task[s].op /\ task'[s].todo = Tail(task[s].todo)
    BY <2>1, <2>2 DEF Task
  <2>4. \A j \in DOMAIN Tail(task[s].todo) :
           j + 1 \in DOMAIN task[s].todo /\ Tail(task[s].todo)[j] = task[s].todo[j + 1]
    BY <2>1
  <2>5. Names(task'[s]) \subseteq Names(task[s])
    BY <2>3, <2>4 DEF Names
  <2> QED BY <2>2, <2>3, <2>5 DEF Moved, Closes, RoutedBy
<1> QED BY <1>1, <1>2

---------------------------------------------------------------------------
(* What a step of a handler does to the mappings and the statuses. *)

(* The node at hand of a running handler, if it is open, has a mapping, or *)
(* is about to be closed by this handler.                                  *)
LEMMA MineRouted ==
    ASSUME Handlers, Apart(RouteOps), RInv, NEW s \in Slot,
           task[s].op \in RouteOps,
           This(s).node \in DOMAIN nodes, nodes[This(s).node].status # OFFLINE
    PROVE  This(s).node \in DOMAIN route \/ Closes(task[s], This(s).node)
<1>1. ASSUME NEW t \in Slot, Closes(task[t], This(s).node) PROVE t = s
  <2>1. This(t).node \in Names(task[t]) /\ This(t).node = This(s).node
    BY <1>1, HeadIsNamed DEF Closes, This
  <2>2. This(s).node \in Names(task[s])
    BY HeadIsNamed DEF RouteOps
  <2>3. task[t].op \in RouteOps
    BY <1>1 DEF Closes, RouteOps
  <2> QED BY <2>1, <2>2, <2>3 DEF Apart
<1> QED BY <1>1 DEF RInv, Routed

(* What RInv asks of a handler's step. *)
LEMMA HandlerMoves ==
    ASSUME Handlers, Apart(RouteOps), RInv, NEW s \in Slot, Moved(s),
           RoutedBy(task'[s], DOMAIN route'),
           \A n \in DOMAIN route \ DOMAIN route' :
              task[s].op \in RouteOps /\ n \in Names(task[s]),
           Owned',
           \A n \in DOMAIN nodes' :
              nodes'[n].status # OFFLINE
              => \/ n \in DOMAIN route' \/ Closes(task'[s], n)
                 \/ /\ n \in DOMAIN nodes /\ nodes[n].status # OFFLINE
                    /\ n \in DOMAIN route => n \in DOMAIN route'
                    /\ ~Closes(task[s], n)
    PROVE  RInv'
<1>1. ASSUME NEW t \in Slot PROVE RoutedBy(task'[t], DOMAIN route')
  <2>1. CASE t = s
    BY <2>1
  <2>2. CASE t # s
    <3>1. task'[t] = task[t] /\ RoutedBy(task[t], DOMAIN route)
      BY <2>2 DEF Moved, RInv
    <3>2. ASSUME task[t].op \in {"NewProxy", "NodeHealth"}, This(t).node \in DOMAIN route
          PROVE  This(t).node \in DOMAIN route'
      <4>1. This(t).node \in Names(task[t]) /\ task[t].op \in RouteOps
        BY <3>2, HeadIsNamed DEF RouteOps
      <4> QED BY <2>2, <3>2, <4>1 DEF Apart
    <3> QED BY <3>1, <3>2 DEF RoutedBy, This
  <2> QED BY <2>1, <2>2
<1>2. ASSUME NEW n \in DOMAIN nodes', nodes'[n].status # OFFLINE
      PROVE  n \in DOMAIN route' \/ \E t \in Slot : Closes(task'[t], n)
  <2>1. SUFFICES ASSUME /\ n \in DOMAIN nodes /\ nodes[n].status # OFFLINE
                        /\ n \notin DOMAIN route
                        /\ ~Closes(task[s], n)
                 PROVE  \E t \in Slot : Closes(task'[t], n)
    BY <1>2
  <2>2. PICK t \in Slot : Closes(task[t], n)
    BY <2>1 DEF RInv, Routed
  <2>3. task'[t] = task[t]
    BY <2>1, <2>2 DEF Moved
  <2> QED BY <2>2, <2>3
<1> QED BY <1>1, <1>2 DEF RInv, Routed

(* A step that writes neither the mapping nor node_status, of a handler    *)
(* that is not about to close a node.                                      *)
LEMMA HandlerReads ==
    ASSUME Handlers, Apart(RouteOps), RInv, NEW s \in Slot, Moved(s),
           UNCHANGED <<nodes, route>>,
           RoutedBy(task'[s], DOMAIN route), \A n : ~Closes(task[s], n)
    PROVE  RInv'
<1>1. Owned'
  BY DEF RInv, Owned
<1> QED BY <1>1, HandlerMoves

(* A step that changes no task and no mapping, and opens no node. *)
LEMMA NoneOpens ==
    ASSUME RInv, UNCHANGED <<task, route>>, DOMAIN nodes' \subseteq DOMAIN nodes,
           \A n \in DOMAIN nodes' :
              /\ nodes'[n].device = nodes[n].device
              /\ nodes'[n].status # OFFLINE => nodes[n].status # OFFLINE
    PROVE  RInv'
<1>1. \A s \in Slot : RoutedBy(task'[s], DOMAIN route')
  BY DEF RInv
<1>2. Owned'
  BY DEF RInv, Owned
<1>3. Routed'
  BY DEF RInv, Routed
<1> QED BY <1>1, <1>2, <1>3 DEF RInv

---------------------------------------------------------------------------
(* The handlers, call by call. *)

LEMMA LoginRoutes ==
    ASSUME Handlers, Apart(RouteOps), RInv, NEW s \in Slot, CountDevice(s) \/ CreateDevice(s)
    PROVE  RInv'
<1>1. /\ task[s].op = "Login" /\ UNCHANGED <<nodes, route>>
      /\ Done(s) \/ Goto(s, "create_device")
  BY DEF CountDevice, CreateDevice, At, db, redis
<1>2. CASE Done(s)
  BY <1>1, <1>2, Gone, HandlerReads DEF Closes
<1>3. CASE Goto(s, "create_device")
  <2>1. Goes(s, "create_device")
    BY <1>1, <1>3, Going
  <2> QED BY <1>1, <2>1, HandlerReads DEF Goes, Closes, RoutedBy
<1> QED BY <1>1, <1>2, <1>3

LEMMA DomainRoutes ==
    ASSUME Handlers, Apart(RouteOps), RInv, NEW s \in Slot, DomainStep(s)
    PROVE  RInv'
<1>1. task[s].op \in {"PUT", "DELETE"} /\ UNCHANGED <<nodes, route>>
  BY DEF DomainStep, PutStep, DeleteStep, QueryMember, UpdateMember,
         UpjoinMember, QueryOnline, InsertMember,
         JoinMember, QueryDeleted, DeleteMember, LeftMember, At, db, redis
<1>2. \/ Done(s) \/ \E c : Goto(s, c) \/ NextItem(s, c)
      \/ \E c, row : GotoWith(s, c, row)
  BY DEF DomainStep, PutStep, DeleteStep, QueryMember, UpdateMember,
         UpjoinMember, QueryOnline, InsertMember,
         JoinMember, QueryDeleted, DeleteMember, LeftMember
<1>3. Moved(s) /\ RoutedBy(task'[s], DOMAIN route)
  <2>1. CASE Done(s)
    BY <2>1, Gone
  <2>2. ASSUME NEW c, NextItem(s, c) PROVE Moved(s) /\ RoutedBy(task'[s], DOMAIN route)
    BY <1>1, <2>2, GoingOn
  <2>3. ASSUME NEW c, Goes(s, c) PROVE Moved(s) /\ RoutedBy(task'[s], DOMAIN route)
    BY <1>1, <2>3 DEF Goes, RoutedBy
  <2>4. ASSUME NEW c, Goto(s, c) PROVE Goes(s, c)
    BY <1>1, <2>4, Going
  <2>5. ASSUME NEW c, NEW row, GotoWith(s, c, row) PROVE Goes(s, c)
    BY <1>1, <2>5, GoingWith
  <2> QED BY <1>2, <2>1, <2>2, <2>3, <2>4, <2>5
<1> QED BY <1>1, <1>3, HandlerReads DEF Closes

(* NewProxy writes the mapping first, and opens the node then. *)
LEMMA NewProxyRoutes ==
    ASSUME Stores, Handlers, Apart(RouteOps), RInv, NEW s \in Slot,
           \/ SetSubdomain(s) \/ QueryDevice(s) \/ QueryNode(s) \/ ReopenNode(s)
           \/ CreateNode(s) \/ QueryDomainOf(s, "NewProxy", "nodes_upjoin") \/ Rejoin(s)
    PROVE  RInv'
<1> DEFINE n == This(s).node
<1>1. task[s].op = "NewProxy" /\ \A m : ~Closes(task[s], m)
  BY DEF SetSubdomain, QueryDevice, QueryNode, ReopenNode, CreateNode, QueryDomainOf,
         Rejoin, At, Closes
<1>2. /\ task[s].frps # NoFrps /\ ProxyRequests(n) # {}
      /\ \A q \in ProxyRequests(n) : task[s].device = q.device
      /\ task[s].pc # "set_subdomain_frps_id" => n \in DOMAIN route
  BY <1>1 DEF RInv, RoutedBy, This
<1>3. CASE SetSubdomain(s)
  <2>1. Goes(s, "query_device_by_device_id")
    BY <1>1, <1>3, Going DEF SetSubdomain
  <2>2. DOMAIN route' = DOMAIN route \cup {n} /\ UNCHANGED nodes
    BY <1>2, <1>3 DEF SetSubdomain, Put, db
  <2>3. RoutedBy(task'[s], DOMAIN route')
    BY <1>1, <1>2, <2>1, <2>2 DEF Goes, RoutedBy
  <2>4. Owned'
    BY <2>2 DEF RInv, Owned
  <2> QED BY <1>1, <2>1, <2>2, <2>3, <2>4, HandlerMoves DEF Goes
<1>4. ASSUME task[s].pc # "set_subdomain_frps_id", NEW c, Goes(s, c)
      PROVE  RoutedBy(task'[s], DOMAIN route)
  BY <1>1, <1>2, <1>4 DEF Goes, RoutedBy
<1>5. CASE ReopenNode(s)
  <2>1. Goes(s, "query_domain_node_by_node_id") /\ task[s].pc # "set_subdomain_frps_id"
    BY <1>1, <1>5, Going DEF ReopenNode, At
  <2>2. /\ UNCHANGED route /\ DOMAIN nodes' = DOMAIN nodes
        /\ \A m \in DOMAIN nodes : m # n => nodes'[m] = nodes[m]
    BY <1>5 DEF ReopenNode, redis, update_node_status_more, Update
  <2>3. n \in DOMAIN nodes => nodes'[n].device = task[s].device
    <3>1. n \in DOMAIN nodes => nodes'[n] = [nodes[n] EXCEPT !.status = ONLINE,
                                  !.device = task[s].device, !.active = "fresh"]
      BY <1>5 DEF ReopenNode, update_node_status_more, Update
    <3>2. n \in DOMAIN nodes => nodes[n] \in NodeRow(Device)
      BY DEF Stores, IsTable
    <3> QED BY <3>1, <3>2 DEF NodeRow
  <2>4. Owned'
    BY <1>2, <2>2, <2>3 DEF RInv, Owned
  <2> QED BY <1>1, <1>2, <1>4, <2>1, <2>2, <2>4, HandlerMoves DEF Goes
<1>6. CASE CreateNode(s)
  <2>1. Goes(s, "query_domain_node_by_node_id") /\ task[s].pc # "set_subdomain_frps_id"
    BY <1>1, <1>6, Going DEF CreateNode, At
  <2>2. /\ UNCHANGED route /\ DOMAIN nodes' \subseteq DOMAIN nodes \cup {n}
        /\ \A m \in DOMAIN nodes : nodes'[m] = nodes[m]
        /\ n \notin DOMAIN nodes => nodes'[n].device = task[s].device
    BY <1>6 DEF CreateNode, redis, create_node_status, Put
  <2>3. Owned'
    BY <1>2, <2>2 DEF RInv, Owned
  <2> QED BY <1>1, <1>2, <1>4, <2>1, <2>2, <2>3, HandlerMoves DEF Goes
<1>7. CASE QueryDevice(s) \/ QueryNode(s) \/ Rejoin(s)
           \/ QueryDomainOf(s, "NewProxy", "nodes_upjoin")
  <2>1. UNCHANGED <<nodes, route>> /\ task[s].pc # "set_subdomain_frps_id"
    BY <1>7 DEF QueryDevice, QueryNode, Rejoin, QueryDomainOf, At, db, redis
  <2>2. Done(s) \/ (\E c : Goto(s, c)) \/ \E c, row : GotoWith(s, c, row)
    BY <1>7 DEF QueryDevice, QueryNode, Rejoin, QueryDomainOf
  <2>3. Done(s) \/ \E c : Goes(s, c)
    BY <1>1, <2>2, Going, GoingWith
  <2>4. Moved(s) /\ RoutedBy(task'[s], DOMAIN route)
    BY <1>4, <2>1, <2>3, Gone DEF Goes
  <2> QED BY <1>1, <2>1, <2>4, HandlerReads
<1> QED BY <1>3, <1>5, <1>6, <1>7

(* CloseProxy removes the mapping first, and closes the node then: its     *)
(* row names the device of the request.                                    *)
LEMMA CloseProxyRoutes ==
    ASSUME Stores, Handlers, Apart(RouteOps), RInv, NEW s \in Slot,
           \/ DelSubdomain(s) \/ CloseNode(s) \/ QueryClosed(s)
           \/ QueryDomainOf(s, "CloseProxy", "node_lefts") \/ Leave(s)
    PROVE  RInv'
<1> DEFINE n == This(s).node
<1>1. task[s].op = "CloseProxy"
  BY DEF DelSubdomain, CloseNode, QueryClosed, QueryDomainOf, Leave, At
<1>2. /\ task[s].frps # NoFrps /\ ProxyRequests(n) # {}
      /\ \A q \in ProxyRequests(n) : task[s].device = q.device
  BY <1>1 DEF RInv, RoutedBy, This
<1>3. n \in Names(task[s])
  BY <1>1, HeadIsNamed
<1>4. ASSUME NEW c, Goes(s, c) PROVE \A R : RoutedBy(task'[s], R)
  BY <1>1, <1>2, <1>4 DEF Goes, RoutedBy
<1>5. CASE DelSubdomain(s)
  <2>1. Goes(s, "update_node_status") /\ \A m : ~Closes(task[s], m)
    BY <1>1, <1>5, Going DEF DelSubdomain, At, Closes
  <2>2. DOMAIN route' = DOMAIN route \ {n} /\ UNCHANGED nodes
    BY <1>2, <1>5 DEF DelSubdomain, Without, db
  <2>3. Closes(task'[s], n)
    BY <1>1, <2>1 DEF Goes, Closes
  <2>4. Owned'
    BY <2>2 DEF RInv, Owned
  <2> QED BY <1>1, <1>3, <1>4, <2>1, <2>2, <2>3, <2>4, HandlerMoves DEF Goes, RouteOps
<1>6. CASE CloseNode(s)
  <2>1. Goes(s, "query_node_by_subdomain") /\ \A m : m # n => ~Closes(task[s], m)
    BY <1>1, <1>6, Going DEF CloseNode, At, Closes, This
  <2>2. /\ UNCHANGED route /\ DOMAIN nodes' = DOMAIN nodes
        /\ \A m \in DOMAIN nodes :
              nodes'[m] = IF nodes[m].device = task[s].device /\ m = n
                          THEN [nodes[m] EXCEPT !.status = OFFLINE, !.active = "fresh"]
                          ELSE nodes[m]
    BY <1>6 DEF CloseNode, redis, update_node_status, Update
  <2>3. \A m \in DOMAIN nodes : nodes[m] \in NodeRow(Device)
    BY DEF Stores, IsTable
  <2>4. \A m \in DOMAIN nodes :
           /\ nodes'[m].device = nodes[m].device
           /\ m # n => nodes'[m].status = nodes[m].status
    BY <2>2, <2>3 DEF NodeRow
  <2>5. Owned'
    BY <2>2, <2>4 DEF RInv, Owned
  <2>6. ASSUME n \in DOMAIN nodes, nodes'[n].status # OFFLINE
        PROVE  n \in DOMAIN route
    <3>1. nodes[n].device = task[s].device
      BY <1>2, <2>6 DEF RInv, Owned
    <3> QED BY <2>2, <2>3, <2>6, <3>1 DEF NodeRow
  <2> QED BY <1>4, <2>1, <2>2, <2>4, <2>5, <2>6, HandlerMoves DEF Goes
<1>7. CASE QueryClosed(s) \/ QueryDomainOf(s, "CloseProxy", "node_lefts") \/ Leave(s)
  <2>1. UNCHANGED <<nodes, route>> /\ \A m : ~Closes(task[s], m)
    BY <1>7 DEF QueryClosed, QueryDomainOf, Leave, At, Closes, db, redis
  <2>2. Done(s) \/ (\E c : Goto(s, c)) \/ \E c, row : GotoWith(s, c, row)
    BY <1>7 DEF QueryClosed, QueryDomainOf, Leave
  <2>3. Done(s) \/ \E c : Goes(s, c)
    BY <1>1, <2>2, Going, GoingWith
  <2>4. Moved(s) /\ RoutedBy(task'[s], DOMAIN route)
    BY <1>4, <2>3, Gone DEF Goes
  <2> QED BY <2>1, <2>4, HandlerReads
<1> QED BY <1>5, <1>6, <1>7

(* A report opens a node only that it has seen open. *)
LEMMA HealthRoutes ==
    ASSUME Stores, Handlers, Apart(RouteOps), RInv, NEW s \in Slot, HealthStep(s)
    PROVE  RInv'
<1> DEFINE n == This(s).node
<1>1. task[s].op = "NodeHealth" /\ \A m : ~Closes(task[s], m)
  BY DEF HealthStep, ReadHealth, SetAvail, SetUnavail, At, Closes
<1>2. CASE ReadHealth(s)
  <2>1. UNCHANGED <<nodes, route>>
    BY <1>2 DEF ReadHealth, db, redis
  <2>2. \/ Done(s)
        \/ /\ \E c : Goto(s, c)
           /\ n \in DOMAIN nodes /\ nodes[n].status # OFFLINE
    BY <1>2 DEF ReadHealth, Keeps, IsOnline, ONLINE, OFFLINE, UNAVAIL
  <2>3. CASE Done(s)
    BY <1>1, <2>1, <2>3, Gone, HandlerReads
  <2>4. CASE (\E c : Goto(s, c)) /\ n \in DOMAIN nodes /\ nodes[n].status # OFFLINE
    <3>1. PICK c : Goes(s, c)
      BY <1>1, <2>4, Going
    <3>2. n \in DOMAIN route
      BY <1>1, <2>4, MineRouted DEF RouteOps
    <3>3. RoutedBy(task'[s], DOMAIN route)
      BY <1>1, <3>1, <3>2 DEF Goes, RoutedBy
    <3> QED BY <1>1, <2>1, <3>1, <3>3, HandlerReads DEF Goes
  <2> QED BY <2>2, <2>3, <2>4
<1>3. CASE SetAvail(s) \/ SetUnavail(s)
  <2>1. Done(s) /\ UNCHANGED route /\ task[s].pc # "query_node_by_node_id"
    BY <1>3 DEF SetAvail, SetUnavail, At, redis
  <2>2. n \in DOMAIN route
    BY <1>1, <2>1 DEF RInv, RoutedBy, This
  <2>3. /\ DOMAIN nodes' = DOMAIN nodes
        /\ \A m \in DOMAIN nodes :
              \/ nodes'[m] = nodes[m]
              \/ m = n /\ \/ nodes'[m] = [nodes[m] EXCEPT !.status = ONLINE, !.avail = "fresh"]
                          \/ nodes'[m] = [nodes[m] EXCEPT !.status = UNAVAIL]
    BY <1>3 DEF SetAvail, SetUnavail, update_node_avail_time_and_status, unavail_node,
                Update
  <2>4. \A m \in DOMAIN nodes : nodes[m] \in NodeRow(Device)
    BY DEF Stores, IsTable
  <2>5. \A m \in DOMAIN nodes :
           nodes'[m].device = nodes[m].device /\ (m # n => nodes'[m] = nodes[m])
    BY <2>3, <2>4 DEF NodeRow
  <2>6. Owned'
    BY <2>3, <2>5 DEF RInv, Owned
  <2> QED BY <1>1, <2>1, <2>2, <2>3, <2>5, <2>6, Gone, HandlerMoves
<1> QED BY <1>2, <1>3 DEF HealthStep

LEMMA PingRoutes ==
    ASSUME Stores, Handlers, Apart(RouteOps), RInv, NEW s \in Slot, Ping(s)
    PROVE  RInv'
<1>1. Done(s) /\ UNCHANGED route /\ \A m : ~Closes(task[s], m)
  BY DEF Ping, At, Closes, redis
<1>2. /\ DOMAIN nodes' = DOMAIN nodes
      /\ \A m \in DOMAIN nodes :
            nodes'[m] = nodes[m] \/ nodes'[m] = [nodes[m] EXCEPT !.active = "fresh"]
  BY DEF Ping, update_online_node_last_active_time, Update
<1>3. \A m \in DOMAIN nodes : nodes[m] \in NodeRow(Device)
  BY DEF Stores, IsTable
<1>4. \A m \in DOMAIN nodes :
         nodes'[m].device = nodes[m].device /\ nodes'[m].status = nodes[m].status
  BY <1>2, <1>3 DEF NodeRow
<1>5. Owned'
  BY <1>2, <1>4 DEF RInv, Owned
<1> QED BY <1>1, <1>2, <1>4, <1>5, Gone, HandlerMoves

---------------------------------------------------------------------------
(* Requests, time and the cronjobs. *)

LEMMA BeginRoutes ==
    ASSUME ProxiesAreOwn, Handlers, RInv, NEW s \in Slot, Begin(s)
    PROVE  RInv'
<1>1. PICK q \in Requests : task' = [task EXCEPT ![s] = q]
  BY DEF Begin
<1>2. /\ task[s] = Idle /\ task'[s] = q /\ UNCHANGED <<nodes, route>>
      /\ \A t \in Slot \ {s} : task'[t] = task[t]
  BY <1>1 DEF Begin, Handlers, db, redis
<1>3. Owned'
  BY <1>2 DEF RInv, Owned
<1>4. q \in Task /\ q.pc = First[q.op] /\ (q.op \notin {"Login", "Ping"} => q.todo # << >>)
  BY RequestAssumption
<1>5. RoutedBy(q, DOMAIN route)
  <2>1. /\ q.op = "NewProxy" => q.pc = "set_subdomain_frps_id"
        /\ q.op = "NodeHealth" => q.pc = "query_node_by_node_id"
    BY <1>4 DEF First
  <2>2. ASSUME q.op \in {"NewProxy", "CloseProxy"}
        PROVE  Head(q.todo).node \in Node /\ q \in ProxyRequests(Head(q.todo).node)
    <3>1. q.todo \in Seq(Item) /\ q.todo # << >>
      BY <1>4, <2>2 DEF Task
    <3>2. Head(q.todo) \in Item
      BY <3>1, HeadTailProperties
    <3> QED BY <2>2, <3>2 DEF Item, ProxyRequests
  <2>3. ASSUME q.op \in {"NewProxy", "CloseProxy"}
        PROVE  /\ q.frps # NoFrps /\ ProxyRequests(Head(q.todo).node) # {}
               /\ \A p \in ProxyRequests(Head(q.todo).node) : q.device = p.device
    BY <2>2, <2>3 DEF ProxiesAreOwn
  <2> QED BY <2>1, <2>3 DEF RoutedBy
<1>6. Routed'
  <2>1. \A n : ~Closes(task[s], n)
    BY <1>2 DEF Closes, Idle
  <2> QED BY <1>2, <2>1 DEF RInv, Routed
<1> QED BY <1>2, <1>3, <1>5, <1>6 DEF RInv

LEMMA JobsRoute ==
    ASSUME Stores, RInv, SweepStep \/ PassStep \/ \E n \in Node : Ages(n)
    PROVE  RInv'
<1>1. \A m \in DOMAIN nodes : nodes[m] \in NodeRow(Device)
  BY DEF Stores, IsTable
<1>2. CASE SweepStep
  <2>1. /\ UNCHANGED <<task, route>> /\ DOMAIN nodes' = DOMAIN nodes
        /\ \A m \in DOMAIN nodes :
              \/ nodes'[m] = nodes[m]
              \/ /\ nodes[m].status = ONLINE
                 /\ \/ nodes'[m] = [nodes[m] EXCEPT !.status = OFFLINE]
                    \/ nodes'[m] = [nodes[m] EXCEPT !.status = UNAVAIL]
    BY <1>2 DEF SweepStep, UnavailExpired, CloseExpired, redis, unavail_expired_nodes,
                close_expired_nodes, Update
  <2>2. \A m \in DOMAIN nodes :
           /\ nodes'[m].device = nodes[m].device
           /\ nodes'[m].status # OFFLINE => nodes[m].status # OFFLINE
    BY <1>1, <2>1 DEF NodeRow, ONLINE, OFFLINE
  <2> QED BY <2>1, <2>2, NoneOpens
<1>3. CASE PassStep
  <2>1. UNCHANGED <<task, route, nodes>>
    BY <1>3 DEF PassStep, BeginPass, ReadRows, ReadRedis, JoinMissing, LeaveExtra,
                EndDomain, db, redis
  <2> QED BY <2>1, NoneOpens
<1>4. ASSUME NEW n \in Node, Ages(n) PROVE RInv'
  <2>1. UNCHANGED <<task, route>> /\ DOMAIN nodes' = DOMAIN nodes
    BY <1>4 DEF Ages, redis
  <2>2. \A m \in DOMAIN nodes : nodes'[m].device = nodes[m].device
                                /\ nodes'[m].status = nodes[m].status
    BY <1>1, <1>4 DEF Ages, NodeRow
  <2> QED BY <2>1, <2>2, NoneOpens
<1> QED BY <1>2, <1>3, <1>4

(* A failure that leaves the mappings standing. *)
LEMMA FaultsRoute ==
    ASSUME Handlers, Apart(RouteOps), RInv, MappingsStand,
           \/ Restart \/ SweepFails \/ RepairFails \/ PassPanics
           \/ \E s \in Slot : Abort(s) \/ MappingFails(s) \/ CreateFails(s)
    PROVE  RInv'
<1>1. UNCHANGED <<nodes, route>>
  BY DEF Restart, SweepFails, RepairFails, PassPanics, Abort, MappingFails,
         CreateFails, db, redis
<1>2. ASSUME NEW s \in Slot, Abort(s) \/ Restart, NEW n PROVE ~Closes(task[s], n)
  <2>1. Closes(task[s], n) => n \in Node
    BY AtHand DEF Closes, This
  <2> QED BY <1>2, <2>1 DEF MappingsStand
<1>3. ASSUME NEW s \in Slot, Abort(s) PROVE RInv'
  <2>1. Done(s)
    BY <1>3 DEF Abort
  <2> QED BY <1>1, <1>2, <1>3, <2>1, Gone, HandlerReads
<1>4. ASSUME NEW s \in Slot, MappingFails(s) PROVE RInv'
  <2>1. task[s].op = "CloseProxy" /\ task[s].pc = "del_subdomain"
    BY <1>4 DEF MappingsStand, MappingFails, At
  <2>2. Goes(s, "update_node_status")
    BY <1>4, <2>1, Going DEF MappingFails, At
  <2>3. RoutedBy(task'[s], DOMAIN route)
    BY <2>1, <2>2 DEF RInv, RoutedBy, Goes, This
  <2> QED BY <1>1, <2>1, <2>2, <2>3, HandlerReads DEF Goes, Closes
<1>7. ASSUME NEW s \in Slot, CreateFails(s) PROVE RInv'
  <2>1. task[s].op = "NewProxy" /\ task[s].pc = "create_node_status"
    BY <1>7 DEF CreateFails, At
  <2>2. Goes(s, "query_domain_node_by_node_id")
    BY <1>7, <2>1, Going DEF CreateFails
  <2>3. RoutedBy(task'[s], DOMAIN route)
    BY <2>1, <2>2 DEF RInv, RoutedBy, Goes, This
  <2> QED BY <1>1, <2>1, <2>2, <2>3, HandlerReads DEF Goes, Closes
<1>5. CASE Restart
  <2>1. \A s \in Slot : RoutedBy(task'[s], DOMAIN route')
    BY <1>5 DEF Restart, RoutedBy, Idle
  <2>2. Owned' /\ Routed'
    BY <1>1, <1>2, <1>5 DEF RInv, Owned, Routed
  <2> QED BY <2>1, <2>2 DEF RInv
<1>6. CASE SweepFails \/ RepairFails \/ PassPanics
  <2>1. UNCHANGED task
    BY <1>6 DEF SweepFails, RepairFails, PassPanics
  <2> QED BY <1>1, <2>1, NoneOpens
<1> QED BY <1>3, <1>4, <1>5, <1>6, <1>7

---------------------------------------------------------------------------
LEMMA InitRInv ==
    StartsRouted /\ Init => RInv
<1> SUFFICES ASSUME StartsRouted, Init PROVE RInv
  OBVIOUS
<1>1. PICK i \in Initial : nodes = i.nodes /\ route = i.route
  BY DEF Init
<1>2. Owned /\ Routed
  BY <1>1 DEF StartsRouted, Owned, Routed
<1>3. \A s \in Slot : RoutedBy(task[s], DOMAIN route)
  BY DEF Init, RoutedBy, Idle
<1> QED BY <1>2, <1>3 DEF RInv

LEMMA NextRoutes ==
    ProxiesAreOwn /\ IInv /\ Apart(RouteOps) /\ RInv /\ [Next]_vars /\ [MappingsStand]_vars
    => RInv'
<1> SUFFICES ASSUME ProxiesAreOwn, IInv, Apart(RouteOps), RInv,
                    [Next]_vars, [MappingsStand]_vars
             PROVE  RInv'
  OBVIOUS
<1>1. Stores /\ Handlers
  BY DEF IInv
<1>2. CASE UNCHANGED vars
  <2>1. UNCHANGED <<task, route, nodes>>
    BY <1>2 DEF vars, db, redis
  <2> QED BY <2>1, NoneOpens
<1>3. CASE Next /\ MappingsStand
  <2>1. ASSUME NEW s \in Slot, HandlerStep(s) PROVE RInv'
    BY <1>1, <2>1, LoginRoutes, NewProxyRoutes, CloseProxyRoutes, PingRoutes,
       HealthRoutes, DomainRoutes DEF HandlerStep, FrpsStep
  <2>2. ASSUME NEW s \in Slot, Begin(s) PROVE RInv'
    BY <1>1, <2>2, BeginRoutes
  <2>3. CASE SweepStep \/ PassStep \/ \E n \in Node : Ages(n)
    BY <1>1, <2>3, JobsRoute
  <2>4. CASE \/ Restart \/ SweepFails \/ RepairFails \/ PassPanics
             \/ \E s \in Slot : Abort(s) \/ MappingFails(s) \/ CreateFails(s)
    BY <1>1, <1>3, <2>4, FaultsRoute
  <2> QED BY <1>3, <2>1, <2>2, <2>3, <2>4 DEF Next
<1> QED BY <1>2, <1>3

(* A node that is not closed has a mapping to an frps, whenever no request *)
(* is about it: NewProxy writes the mapping before it opens the node, and  *)
(* who opens it again has seen it open.  Requests about one node must not  *)
(* overlap; PUTs, DELETEs and passes may, and calls may fail, processes    *)
(* die, as long as no CloseProxy is lost between its first two calls and   *)
(* no mapping of a NewProxy.                                               *)
THEOREM OpenNodesStayRouted ==
    ASSUME ProxiesAreOwn, StartsRouted
    PROVE  Spec /\ []Apart(RouteOps) /\ [][MappingsStand]_vars => []OpenNodesAreRouted
<1>1. Init => RInv
  BY InitRInv
<1>2. /\ IInv /\ Apart(RouteOps) /\ RInv /\ [Next]_vars /\ [MappingsStand]_vars
      => RInv'
  BY NextRoutes
<1>3. IInv /\ RInv => OpenNodesAreRouted
  <2> SUFFICES ASSUME IInv, RInv, NEW n \in DOMAIN nodes, Quiet(n),
                      nodes[n].status # OFFLINE
               PROVE  n \in DOMAIN route
    BY DEF OpenNodesAreRouted
  <2>1. ASSUME NEW s \in Slot, Closes(task[s], n) PROVE FALSE
    BY <2>1, HeadIsNamed DEF Closes, This, Quiet, IInv
  <2> QED BY <2>1 DEF RInv, Routed
<1> QED BY <1>1, <1>2, <1>3, InvariantHolds, PTL DEF Spec

---------------------------------------------------------------------------
(* Where Overlap is FALSE. *)

LEMMA HandlersMove ==
    ASSUME Handlers, NEW s \in Slot,
           HandlerStep(s) \/ MappingFails(s) \/ CreateFails(s) \/ Abort(s)
    PROVE  Moved(s) /\ task[s] # Idle /\ UNCHANGED pass
<1>1. UNCHANGED pass
  BY DEF HandlerStep, MappingFails, CreateFails, Abort, cron
<1>2. CASE Abort(s)
  <2>1. Done(s) /\ task[s] # Idle
    BY <1>2 DEF Abort
  <2> QED BY <1>1, <2>1, Gone
<1>3. CASE MappingFails(s) \/ CreateFails(s)
  <2>1. task[s].op \in DOMAIN Calls /\ \E c : Goto(s, c)
    BY <1>3 DEF MappingFails, CreateFails, At, Calls
  <2>2. task[s] # Idle /\ \E c : Goes(s, c)
    BY <2>1, Going DEF Idle, Calls
  <2> QED BY <1>1, <2>2 DEF Goes
<1>4. CASE FrpsStep(s) \/ HealthStep(s)
  <2>1. /\ task[s].op \in {"Login", "NewProxy", "CloseProxy", "Ping", "NodeHealth"}
        /\ \/ Done(s) \/ \E c : Goto(s, c)
           \/ /\ task[s].op \in {"NewProxy", "CloseProxy"}
              /\ \E c, row : GotoWith(s, c, row)
    BY <1>4 DEF FrpsStep, CountDevice, CreateDevice, SetSubdomain, QueryDevice, QueryNode,
       ReopenNode, CreateNode, QueryDomainOf, Rejoin, DelSubdomain, CloseNode,
       QueryClosed, Leave, Ping, HealthStep, ReadHealth, SetAvail, SetUnavail, At
  <2>2. task[s] # Idle /\ (Done(s) \/ \E c : Goes(s, c))
    BY <2>1, Going, GoingWith DEF Idle
  <2> QED BY <1>1, <2>2, Gone DEF Goes
<1>5. CASE DomainStep(s)
  <2>1. /\ task[s].op \in {"PUT", "DELETE"}
        /\ \/ Done(s) \/ \E c : Goto(s, c) \/ NextItem(s, c)
           \/ \E c, row : GotoWith(s, c, row)
    BY <1>5 DEF DomainStep, PutStep, DeleteStep, QueryMember, UpdateMember,
                UpjoinMember, QueryOnline,
       InsertMember, JoinMember, QueryDeleted, DeleteMember, LeftMember, At
  <2>2. task[s] # Idle /\ (Done(s) \/ (\E c : NextItem(s, c)) \/ \E c : Goes(s, c))
    BY <2>1, Going, GoingWith DEF Idle
  <2> QED BY <1>1, <2>1, <2>2, Gone, GoingOn DEF Goes
<1> QED BY <1>2, <1>3, <1>4, <1>5 DEF HandlerStep

LEMMA NextIsAlone ==
    ~Overlap /\ IInv /\ Alone /\ [Next]_vars => Alone'
<1> SUFFICES ASSUME ~Overlap, IInv, Alone, [Next]_vars PROVE Alone'
  OBVIOUS
<1>1. Handlers
  BY DEF IInv
<1>2. ASSUME NEW s \in Slot,
             HandlerStep(s) \/ MappingFails(s) \/ CreateFails(s) \/ Abort(s)
      PROVE  Alone'
  <2>1. Moved(s) /\ task[s] # Idle /\ UNCHANGED pass
    BY <1>1, <1>2, HandlersMove
  <2>2. "none" \notin DOMAIN Calls
    BY DEF Calls
  <2>3. Apart(DOMAIN Calls)'
    BY <2>1, <2>2 DEF Alone, Apart, Moved
  <2> QED BY <2>1, <2>3 DEF Alone
<1>3. ASSUME NEW s \in Slot, Begin(s) PROVE Alone'
  <2>1. PICK q \in Requests :
            /\ pass = NoPass /\ \A n \in Names(q) : Quiet(n)
            /\ task' = [task EXCEPT ![s] = q]
    BY <1>3 DEF Begin
  <2>2. task'[s] = q /\ \A t \in Slot \ {s} : task'[t] = task[t]
    BY <1>1, <2>1 DEF Handlers
  <2>3. pass'.pc = "idle" /\ DOMAIN pass'.rows = {} /\ DOMAIN pass'.seen = {}
    BY <1>3, <2>1 DEF Begin, NoPass, Empty, EmptyZSet, cron
  <2>4. Apart(DOMAIN Calls)'
    BY <2>1, <2>2 DEF Alone, Apart, Quiet
  <2> QED BY <2>3, <2>4 DEF Alone
<1>4. CASE Restart
  BY <1>4 DEF Restart, Alone, Apart, Idle, Calls
<1>5. CASE SweepStep \/ SweepFails \/ (\E n \in Node : Ages(n)) \/ UNCHANGED vars
  <2>1. UNCHANGED <<task, pass>>
    BY <1>5 DEF SweepStep, UnavailExpired, CloseExpired, SweepFails, Ages, vars, cron
  <2> QED BY <2>1 DEF Alone, Apart
<1>6. CASE PassStep \/ RepairFails
  <2>1. UNCHANGED task /\ \A s \in Slot : task[s] = Idle
    BY <1>6 DEF PassStep, BeginPass, ReadRows, ReadRedis, JoinMissing, LeaveExtra,
                EndDomain, RepairFails, Alone
  <2> QED BY <2>1 DEF Alone, Apart
<1>7. CASE PassPanics
  <2>1. /\ pass'.pc = "panicked" /\ DOMAIN pass'.rows = {} /\ DOMAIN pass'.seen = {}
        /\ UNCHANGED task
    BY <1>7 DEF PassPanics, NoPass, Empty, EmptyZSet
  <2> QED BY <2>1 DEF Alone, Apart
<1> QED BY <1>2, <1>3, <1>4, <1>5, <1>6, <1>7 DEF Next

(* What Overlap is for.  The code has no such guard: this only says that   *)
(* the runs with Overlap FALSE, whatever fails, meet the conditions of the *)
(* theorems.                                                               *)
LEMMA HandlersStayAlone ==
    ASSUME ~Overlap PROVE Spec => []Alone
<1>1. Init => Alone
  BY DEF Init, Alone, Apart, Idle, Calls
<1>2. IInv /\ Alone /\ [Next]_vars => Alone'
  BY NextIsAlone
<1> QED BY <1>1, <1>2, InvariantHolds, PTL DEF Spec

(* The same of the hub of the run: with Overlap FALSE and no failure, a    *)
(* node that is not closed has a mapping.                                  *)
THEOREM OpenNodesStayRoutedAlone ==
    ASSUME ProxiesAreOwn, StartsRouted, ~Overlap, MaxFaults = 0
    PROVE  Spec => []OpenNodesAreRouted
<1>1. Alone => Apart(RouteOps)
  BY DEF Alone, Apart, RouteOps, Calls
<1>2. IInv => [MappingsStand]_vars
  BY DEF IInv, Counters, MappingsStand, MappingFails, CreateFails, Abort, Restart
<1> QED BY <1>1, <1>2, HandlersStayAlone, OpenNodesStayRouted, InvariantHolds, PTL
=============================================================================
