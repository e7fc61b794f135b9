----------------------------- MODULE HubProofs ------------------------------
(***************************************************************************)
(* For any stores, requests, cronjobs and failures, the hub keeps its      *)
(* types, and what its tables and lists refer to exists.                   *)
(***************************************************************************)
EXTENDS Hub, ZSetLemmas, SequenceTheorems

---------------------------------------------------------------------------
(* The inductive invariant.  The references alone are not inductive: a     *)
(* handler writes what it has looked up some calls ago, so what it has     *)
(* looked up has to be there still.                                        *)

PCs == UNION {Calls[o] : o \in DOMAIN Calls}
PutItem == [node : Node, domain : Domain, weight : Weight]

(* A handler k about to write its device, or its node, has seen the row of *)
(* the device in ds, of the node in N.                                     *)
DeviceSeen(k, ds) ==
    k.op = "NewProxy" /\ k.pc \in {"query_node_by_node_id",
                                   "update_node_status_more",
                                   "create_node_status"}
    => k.device \in ds
NodeSeen(k, N) ==
    \/ k.op = "NewProxy" /\ k.pc = "nodes_upjoin"
    \/ k.op = "PUT" /\ k.pc \in {"insert_domain_node", "nodes_join", "nodes_upjoin"}
    => Head(k.todo).node \in N

RequestOK(k) ==
    /\ k \in Task
    /\ k.op \notin {"Login", "Ping"} => k.todo # << >>
    /\ k.op = "PUT" => k.todo \in Seq(PutItem)

HandlerOK(k, ds, N) ==
    k = Idle \/ (RequestOK(k) /\ DeviceSeen(k, ds) /\ NodeSeen(k, N))

PassOK(p, N) ==
    /\ DOMAIN p = {"pc", "domains", "domain", "rows", "seen", "missing", "extra"}
    /\ p.pc \in {"idle", "next", "get_domain_nodes", "repair", "panicked"}
    /\ p.domains \subseteq Domain
    /\ p.pc \in {"get_domain_nodes", "repair"} => p.domain \in Domain
    /\ IsTable(p.rows, Node, Weight) /\ IsZSet(p.seen, Node)
    /\ DOMAIN p.rows \subseteq N
    /\ p.missing \subseteq DOMAIN p.rows
    /\ p.extra \subseteq DOMAIN p.seen
    /\ p.pc = "next" => p.missing = {} /\ p.extra = {}

Stores ==
    /\ devices \subseteq Device
    /\ IsTable(nodes, Node, NodeRow(Device))
    /\ IsTable(members, Node, DomainRow(Domain, Weight))
    /\ DOMAIN zset = Domain /\ \A d \in Domain : IsZSet(zset[d], Node)
    /\ IsTable(route, Node, Frps)
    /\ ReferencesHold
Handlers ==
    /\ DOMAIN task = Slot
    /\ \A s \in Slot : HandlerOK(task[s], devices, DOMAIN nodes)
Cron ==
    /\ sweep \in {"unavail_expired_nodes", "close_expired_nodes"}
    /\ PassOK(pass, DOMAIN nodes)
Counters ==
    requests \in 0..MaxRequests /\ faults \in 0..MaxFaults

IInv == Stores /\ Handlers /\ Cron /\ Counters

(* No step forgets a device or a node. *)
Grows == devices \subseteq devices' /\ DOMAIN nodes \subseteq DOMAIN nodes'

---------------------------------------------------------------------------
(* A step that changes one list, and nothing else stored. *)
LEMMA ListChanges ==
    ASSUME Stores, NEW d, NEW z, zset' = [zset EXCEPT ![d] = z],
           d \in Domain => IsZSet(z, Node) /\ DOMAIN z \subseteq DOMAIN nodes,
           UNCHANGED <<db, route>>
    PROVE  Stores' /\ Grows
<1>1. UNCHANGED <<devices, nodes, members, route>>
  BY DEF db
<1>2. zset' = [e \in Domain |-> IF e = d THEN z ELSE zset[e]]
  BY DEF Stores
<1>3. \A e \in Domain : IsZSet(zset'[e], Node) /\ DOMAIN zset'[e] \subseteq DOMAIN nodes
  BY <1>2 DEF Stores, ReferencesHold, References
<1> QED BY <1>1, <1>2, <1>3 DEF Stores, Grows, ReferencesHold, References

(* A call of redis.rs about a known node is such a step; node_lefts also   *)
(* about any other.                                                        *)
LEMMA CallsChangeLists ==
    ASSUME Stores, NEW d, NEW n \in Node, NEW w \in Int,
           \/ n \in DOMAIN nodes /\ zset' = [zset EXCEPT ![d] = NodesJoin(@, n, w)]
           \/ n \in DOMAIN nodes /\ zset' = [zset EXCEPT ![d] = NodesUpjoin(@, n, w)]
           \/ zset' = [zset EXCEPT ![d] = NodeLefts(@, n, w)],
           UNCHANGED <<db, route>>
    PROVE  Stores' /\ Grows
<1>1. d \in Domain => IsZSet(zset[d], Node) /\ DOMAIN zset[d] \subseteq DOMAIN nodes
  BY DEF Stores, ReferencesHold, References
<1>2. Node \subseteq Nat /\ IsFiniteSet(Node)
  BY StoreAssumption
<1>3. ASSUME d \in Domain
      PROVE  /\ IsZSet(NodesJoin(zset[d], n, w), Node)
             /\ DOMAIN NodesJoin(zset[d], n, w) = DOMAIN zset[d] \cup {n}
             /\ IsZSet(NodesUpjoin(zset[d], n, w), Node)
             /\ DOMAIN NodesUpjoin(zset[d], n, w) = DOMAIN zset[d] \cup {n}
             /\ IsZSet(NodeLefts(zset[d], n, w), Node)
             /\ DOMAIN NodeLefts(zset[d], n, w) \subseteq DOMAIN zset[d]
  <2>1. IsZSet(zset[d], Node)
    BY <1>1, <1>3
  <2> QED BY <1>2, <2>1, ListsKeepType
<1>4. CASE n \in DOMAIN nodes /\ zset' = [zset EXCEPT ![d] = NodesJoin(@, n, w)]
  <2>1. d \in Domain => DOMAIN NodesJoin(zset[d], n, w) \subseteq DOMAIN nodes
    BY <1>1, <1>3, <1>4
  <2> QED BY <1>3, <1>4, <2>1, ListChanges
<1>5. CASE n \in DOMAIN nodes /\ zset' = [zset EXCEPT ![d] = NodesUpjoin(@, n, w)]
  <2>1. d \in Domain => DOMAIN NodesUpjoin(zset[d], n, w) \subseteq DOMAIN nodes
    BY <1>1, <1>3, <1>5
  <2> QED BY <1>3, <1>5, <2>1, ListChanges
<1>6. CASE zset' = [zset EXCEPT ![d] = NodeLefts(@, n, w)]
  <2>1. d \in Domain => DOMAIN NodeLefts(zset[d], n, w) \subseteq DOMAIN nodes
    BY <1>1, <1>3
  <2> QED BY <1>3, <1>6, <2>1, ListChanges
<1> QED BY <1>4, <1>5, <1>6

(* A step that changes rows of node_status, and nothing else stored. *)
LEMMA RowsChange ==
    ASSUME Stores, DOMAIN nodes' = DOMAIN nodes,
           nodes' = [n \in DOMAIN nodes |-> nodes'[n]],
           \A n \in DOMAIN nodes : nodes'[n] \in NodeRow(Device)
                                   /\ nodes'[n].device \in devices,
           UNCHANGED <<devices, members, redis>>
    PROVE  Stores' /\ Grows
<1>1. UNCHANGED <<devices, members, zset, route>>
  BY DEF redis
<1>2. IsTable(nodes', Node, NodeRow(Device))
  BY DEF Stores, IsTable
<1> QED BY <1>1, <1>2 DEF Stores, Grows, ReferencesHold, References

(* Every UPDATE of node_status is such a step, unless it names a device    *)
(* without a row.                                                          *)
LEMMA UpdatesChangeRows ==
    ASSUME Stores, NEW n, NEW d,
           \/ d \in devices /\ nodes' = update_node_status_more(nodes, n, d)
           \/ nodes' = update_online_node_last_active_time(nodes, d)
           \/ nodes' = update_node_status(nodes, d, n, OFFLINE)
           \/ nodes' = update_node_avail_time_and_status(nodes, n, ONLINE)
           \/ nodes' = unavail_node(nodes, n)
           \/ nodes' = close_expired_nodes(nodes)
           \/ nodes' = unavail_expired_nodes(nodes),
           UNCHANGED <<devices, members, redis>>
    PROVE  Stores' /\ Grows
<1>1. \A m \in DOMAIN nodes : nodes[m] \in NodeRow(Device) /\ nodes[m].device \in devices
  BY DEF Stores, IsTable, ReferencesHold, References
<1>2. devices \subseteq Device
  BY DEF Stores
<1>3. CASE d \in devices /\ nodes' = update_node_status_more(nodes, n, d)
  BY <1>1, <1>2, <1>3, RowsChange DEF update_node_status_more, Update, NodeRow, ONLINE
<1>4. CASE nodes' = update_online_node_last_active_time(nodes, d)
  BY <1>1, <1>4, RowsChange DEF update_online_node_last_active_time, Update, NodeRow
<1>5. CASE nodes' = update_node_status(nodes, d, n, OFFLINE)
  BY <1>1, <1>5, RowsChange DEF update_node_status, Update, NodeRow, OFFLINE
<1>6. CASE nodes' = update_node_avail_time_and_status(nodes, n, ONLINE)
  BY <1>1, <1>6, RowsChange DEF update_node_avail_time_and_status, Update, NodeRow, ONLINE
<1>7. CASE nodes' = unavail_node(nodes, n)
  BY <1>1, <1>7, RowsChange DEF unavail_node, Update, NodeRow, UNAVAIL
<1>8. CASE nodes' = close_expired_nodes(nodes)
  BY <1>1, <1>8, RowsChange DEF close_expired_nodes, Update, NodeRow, OFFLINE
<1>9. CASE nodes' = unavail_expired_nodes(nodes)
  BY <1>1, <1>9, RowsChange DEF unavail_expired_nodes, Update, NodeRow, UNAVAIL
<1> QED BY <1>3, <1>4, <1>5, <1>6, <1>7, <1>8, <1>9

(* A step that changes nothing stored. *)
LEMMA NothingChanges ==
    ASSUME Stores, UNCHANGED <<db, redis>>
    PROVE  Stores' /\ Grows
BY DEF Stores, Grows, db, redis, ReferencesHold

---------------------------------------------------------------------------
(* Handlers: what a step does to the handler in slot s, the others only    *)
(* see the tables grow.                                                    *)
LEMMA SlotChanges ==
    ASSUME Handlers, Grows, NEW s \in Slot, NEW k,
           task' = [task EXCEPT ![s] = k],
           HandlerOK(k, devices', DOMAIN nodes')
    PROVE  Handlers'
<1>1. task' = [t \in Slot |-> IF t = s THEN k ELSE task[t]]
  BY DEF Handlers
<1>2. ASSUME NEW t \in Slot PROVE HandlerOK(task'[t], devices', DOMAIN nodes')
  <2>1. HandlerOK(task[t], devices, DOMAIN nodes)
    BY DEF Handlers
  <2>2. HandlerOK(task[t], devices', DOMAIN nodes')
    BY <2>1 DEF HandlerOK, DeviceSeen, NodeSeen, Grows
  <2> QED BY <1>1, <2>2
<1> QED BY <1>1, <1>2 DEF Handlers

LEMMA NoSlotChanges ==
    ASSUME Handlers, Grows, UNCHANGED task
    PROVE  Handlers'
<1>1. ASSUME NEW t \in Slot PROVE HandlerOK(task[t], devices', DOMAIN nodes')
  <2>1. HandlerOK(task[t], devices, DOMAIN nodes)
    BY DEF Handlers
  <2> QED BY <2>1 DEF HandlerOK, DeviceSeen, NodeSeen, Grows
<1> QED BY <1>1 DEF Handlers

(* A running handler has a request, and a node of it at hand. *)
LEMMA AtHand ==
    ASSUME Handlers, NEW s \in Slot, task[s].op # "none"
    PROVE  /\ RequestOK(task[s])
           /\ DeviceSeen(task[s], devices) /\ NodeSeen(task[s], DOMAIN nodes)
           /\ task[s].device \in Device
           /\ task[s].frps \in Frps \cup {NoFrps}
           /\ task[s].op \notin {"Login", "Ping"}
              => /\ This(s) \in Item /\ This(s).node \in Node
                 /\ This(s).weight \in Int
           /\ task[s].op = "PUT" => This(s) \in PutItem
<1>1. RequestOK(task[s]) /\ DeviceSeen(task[s], devices) /\ NodeSeen(task[s], DOMAIN nodes)
  BY DEF Handlers, HandlerOK, Idle
<1>2. task[s].device \in Device /\ task[s].frps \in Frps \cup {NoFrps}
      /\ task[s].todo \in Seq(Item)
  BY <1>1 DEF RequestOK, Task
<1>3. task[s].todo # << >> => This(s) \in Item
  BY <1>2, HeadTailProperties DEF This
<1>4. task[s].op = "PUT" => This(s) \in PutItem
  BY <1>1, HeadTailProperties DEF RequestOK, This
<1>5. \A i \in Item : i.node \in Node /\ i.weight \in Int
  <2>1. Weight \cup {0} \subseteq Int
    BY StoreAssumption
  <2> QED BY <2>1 DEF Item
<1> QED BY <1>1, <1>2, <1>3, <1>4, <1>5 DEF RequestOK

LEMMA DoneKeeps ==
    ASSUME Handlers, Grows, NEW s \in Slot, Done(s)
    PROVE  Handlers'
BY SlotChanges DEF Done, HandlerOK

LEMMA CallsAreCalls ==
    PCs = {"count_device_by_device_id", "create_device",
           "set_subdomain_frps_id", "query_device_by_device_id",
           "query_node_by_node_id", "update_node_status_more",
           "create_node_status", "query_domain_node_by_node_id",
           "nodes_upjoin", "del_subdomain", "update_node_status",
           "query_node_by_subdomain", "node_lefts",
           "update_online_node_last_active_time",
           "unavail_node", "update_node_avail_time_and_status",
           "query_domain_node", "update_domain_node", "insert_domain_node",
           "nodes_join", "delete_domain_node", "delete"}
<1>1. DOMAIN Calls = {"Login", "NewProxy", "CloseProxy", "Ping", "NodeHealth", "PUT", "DELETE"}
  BY DEF Calls
<1>2. PCs = UNION {Calls["Login"], Calls["NewProxy"], Calls["CloseProxy"], Calls["Ping"],
                   Calls["NodeHealth"], Calls["PUT"], Calls["DELETE"]}
  BY <1>1 DEF PCs
<1> QED
  BY <1>2 DEF Calls, LoginCalls, NewProxyCalls, CloseProxyCalls, PingCalls,
              NodeHealthCalls, PutCalls, DeleteCalls

LEMMA GotoKeeps ==
    ASSUME Handlers, Grows, NEW s \in Slot, NEW op, op # "none", task[s].op = op,
           NEW c \in PCs, Goto(s, c),
           op = "NewProxy" /\ c \in {"query_node_by_node_id",
                                    "update_node_status_more", "create_node_status"}
           => task[s].device \in devices',
           \/ op = "NewProxy" /\ c = "nodes_upjoin"
           \/ op = "PUT" /\ c \in {"insert_domain_node", "nodes_join", "nodes_upjoin"}
           => This(s).node \in DOMAIN nodes'
    PROVE  Handlers'
<1> DEFINE k == [task[s] EXCEPT !.pc = c]
<1>1. RequestOK(task[s])
  BY AtHand
<1>2. RequestOK(k) /\ k.op = op /\ k.pc = c /\ k.device = task[s].device
      /\ k.todo = task[s].todo
  BY <1>1 DEF RequestOK, Task, PCs
<1>3. task' = [task EXCEPT ![s] = k]
  BY DEF Goto, Handlers
<1> HIDE DEF k
<1>4. DeviceSeen(k, devices') /\ NodeSeen(k, DOMAIN nodes')
  BY <1>2 DEF DeviceSeen, NodeSeen, This
<1> QED BY <1>2, <1>3, <1>4, SlotChanges DEF HandlerOK

LEMMA NextItemKeeps ==
    ASSUME Handlers, Grows, NEW s \in Slot,
           NEW c, \/ task[s].op = "PUT" /\ c = "query_domain_node"
                  \/ task[s].op = "DELETE" /\ c = "delete_domain_node",
           NextItem(s, c)
    PROVE  Handlers'
<1> DEFINE k == [task[s] EXCEPT !.pc = c, !.todo = Tail(@)]
<1>1. RequestOK(task[s])
  BY AtHand
<1>2. CASE Done(s)
  BY <1>2, DoneKeeps
<1>3. CASE ~Done(s)
  <2>1. task' = [task EXCEPT ![s] = k] /\ Len(task[s].todo) # 1
    BY <1>3 DEF NextItem, Handlers
  <2>2. task[s].todo \in Seq(Item) /\ task[s].todo # << >>
    BY <1>1 DEF RequestOK, Task
  <2>3. Tail(task[s].todo) \in Seq(Item) /\ Tail(task[s].todo) # << >>
    <3>1. /\ Tail(task[s].todo) \in Seq(Item)
          /\ Len(Tail(task[s].todo)) = Len(task[s].todo) - 1
      BY <2>2, HeadTailProperties
    <3>2. Len(task[s].todo) \in Nat /\ Len(task[s].todo) # 1
      BY <2>1, <2>2, LenProperties
    <3>3. Len(Tail(task[s].todo)) # 0
      BY <3>1, <3>2
    <3> QED BY <3>1, <3>3, EmptySeq
  <2>4. task[s].op = "PUT" => Tail(task[s].todo) \in Seq(PutItem)
    BY <1>1, <2>2, HeadTailProperties DEF RequestOK
  <2>5. c \in PCs
    BY CallsAreCalls
  <2>6. RequestOK(k) /\ k.pc = c /\ k.op = task[s].op
    BY <1>1, <2>3, <2>4, <2>5 DEF RequestOK, Task, PCs
  <2>7. DeviceSeen(k, devices') /\ NodeSeen(k, DOMAIN nodes')
    BY <2>6 DEF DeviceSeen, NodeSeen
  <2> HIDE DEF k
  <2> QED BY <2>1, <2>6, <2>7, SlotChanges DEF HandlerOK
<1> QED BY <1>2, <1>3

LEMMA GotoWithKeeps ==
    ASSUME Handlers, Grows, NEW s \in Slot,
           task[s].op \in {"NewProxy", "CloseProxy", "DELETE"},
           NEW c \in PCs, NEW row \in DomainRow(Domain, Weight),
           c \in {"nodes_upjoin", "node_lefts", "delete"},
           c = "nodes_upjoin" => This(s).node \in DOMAIN nodes,
           GotoWith(s, c, row)
    PROVE  Handlers'
<1> DEFINE i == [This(s) EXCEPT !.domain = row.domain, !.weight = row.weight]
           l == [task[s].todo EXCEPT ![1] = i]
           k == [task[s] EXCEPT !.pc = c, !.todo = l]
<1>1. RequestOK(task[s]) /\ task[s].todo \in Seq(Item) /\ task[s].todo # << >>
      /\ This(s) \in Item
  BY AtHand DEF RequestOK, Task
<1>2. i \in Item /\ i.node = This(s).node
  BY <1>1 DEF Item, DomainRow
<1>3. l \in Seq(Item) /\ l # << >> /\ Head(l) = i
  <2>1. 1 \in 1..Len(task[s].todo)
    BY <1>1
  <2> HIDE DEF i
  <2>2. l \in Seq(Item) /\ Len(l) = Len(task[s].todo) /\ l[1] = i
    BY <1>1, <1>2, <2>1, ExceptSeq
  <2> QED BY <2>1, <2>2
<1>4. task' = [task EXCEPT ![s] = k]
  <2>1. This(s) = task[s].todo[1]
    BY <1>1 DEF This
  <2>2. DOMAIN task = Slot /\ task[s] \in Task
    BY <1>1 DEF Handlers, RequestOK
  <2> QED BY <2>1, <2>2 DEF GotoWith, Task
<1>5. RequestOK(k) /\ k.pc = c /\ k.op = task[s].op /\ k.todo = l
  <2> HIDE DEF l
  <2> QED BY <1>1, <1>3 DEF RequestOK, Task, PCs
<1>6. DeviceSeen(k, devices') /\ NodeSeen(k, DOMAIN nodes')
  <2> HIDE DEF k, l, i
  <2> QED BY <1>2, <1>3, <1>5 DEF DeviceSeen, NodeSeen, Grows
<1> HIDE DEF k
<1> QED BY <1>4, <1>5, <1>6, SlotChanges DEF HandlerOK

---------------------------------------------------------------------------
(* Handlers, call by call. *)
StepKeeps == Stores' /\ Grows /\ Handlers'

LEMMA LoginKeeps ==
    ASSUME Stores, Handlers, NEW s \in Slot, CountDevice(s) \/ CreateDevice(s)
    PROVE  StepKeeps
<1>1. CASE CountDevice(s)
  <2>1. Stores' /\ Grows
    BY <1>1, NothingChanges DEF CountDevice
  <2>2. task[s].op = "Login" /\ (Done(s) \/ Goto(s, "create_device"))
    BY <1>1 DEF CountDevice, At
  <2> QED BY <2>1, <2>2, DoneKeeps, GotoKeeps, CallsAreCalls DEF StepKeeps
<1>2. CASE CreateDevice(s)
  <2>1. /\ task[s].op = "Login" /\ Done(s)
        /\ devices' = devices \cup {task[s].device}
        /\ UNCHANGED <<nodes, members, zset, route>>
    BY <1>2 DEF CreateDevice, create_device, At, redis
  <2>2. task[s].device \in Device
    BY <2>1, AtHand
  <2>3. Stores' /\ Grows
    BY <2>1, <2>2 DEF Stores, Grows, ReferencesHold, References
  <2> QED BY <2>1, <2>3, DoneKeeps DEF StepKeeps
<1> QED BY <1>1, <1>2

LEMMA NewProxyKeeps ==
    ASSUME Stores, Handlers, NEW s \in Slot,
           \/ SetSubdomain(s) \/ QueryDevice(s) \/ QueryNode(s) \/ ReopenNode(s)
           \/ CreateNode(s) \/ QueryDomainOf(s, "NewProxy", "nodes_upjoin") \/ Rejoin(s)
    PROVE  StepKeeps
<1>1. task[s].op = "NewProxy"
  BY DEF SetSubdomain, QueryDevice, QueryNode, ReopenNode, CreateNode, QueryDomainOf,
         Rejoin, At
<1>2. This(s) \in Item /\ This(s).node \in Node /\ This(s).weight \in Int
      /\ task[s].device \in Device /\ task[s].frps \in Frps \cup {NoFrps}
  BY <1>1, AtHand
<1>3. CASE SetSubdomain(s)
  <2>1. Stores' /\ Grows
    BY <1>2, <1>3 DEF SetSubdomain, Stores, Grows, db, Put, IsTable, ReferencesHold
  <2> QED BY <1>1, <1>3, <2>1, GotoKeeps, CallsAreCalls DEF StepKeeps, SetSubdomain
<1>4. CASE QueryDevice(s)
  <2>1. Stores' /\ Grows
    BY <1>4, NothingChanges DEF QueryDevice
  <2>2. Done(s) \/ (Goto(s, "query_node_by_node_id") /\ task[s].device \in devices')
    BY <1>4 DEF QueryDevice, query_device_by_device_id, db
  <2> QED BY <1>1, <2>1, <2>2, DoneKeeps, GotoKeeps, CallsAreCalls DEF StepKeeps
<1>5. CASE QueryNode(s)
  <2>1. Stores' /\ Grows
    BY <1>5, NothingChanges DEF QueryNode
  <2>2. task[s].device \in devices'
    BY <1>1, <1>5, <2>1, AtHand DEF QueryNode, At, DeviceSeen, Grows
  <2>3. Done(s) \/ Goto(s, "update_node_status_more") \/ Goto(s, "create_node_status")
    BY <1>5 DEF QueryNode
  <2> QED BY <1>1, <2>1, <2>2, <2>3, DoneKeeps, GotoKeeps, CallsAreCalls DEF StepKeeps
<1>6. CASE ReopenNode(s)
  <2>1. task[s].device \in devices
    BY <1>1, <1>6, AtHand DEF ReopenNode, At, DeviceSeen
  <2>2. Stores' /\ Grows
    BY <1>6, <2>1, UpdatesChangeRows DEF ReopenNode
  <2> QED BY <1>1, <1>6, <2>2, GotoKeeps, CallsAreCalls DEF StepKeeps, ReopenNode
<1>7. CASE CreateNode(s)
  <2> DEFINE n == This(s).node
  <2>1. task[s].device \in devices
    BY <1>1, <1>7, AtHand DEF CreateNode, At, DeviceSeen
  <2>2. /\ UNCHANGED <<devices, members, zset, route>>
        /\ \/ nodes' = nodes
           \/ n \notin DOMAIN nodes /\ nodes' = create_node_status(nodes, n, task[s].device)
    BY <1>7 DEF CreateNode, redis
  <2>3. ASSUME nodes' = nodes PROVE Stores' /\ Grows
    BY <2>2, <2>3, NothingChanges DEF db, redis
  <2>4. ASSUME n \notin DOMAIN nodes, nodes' = create_node_status(nodes, n, task[s].device)
        PROVE  Stores' /\ Grows
    <3> HIDE DEF n
    <3>1. DOMAIN nodes' = DOMAIN nodes \cup {n} /\ n \in Node
      BY <1>2, <2>4 DEF create_node_status, Put, n
    <3>2. IsTable(nodes', Node, NodeRow(Device))
      BY <1>2, <2>4, <3>1 DEF create_node_status, Put, Stores, IsTable, NodeRow, ONLINE
    <3>3. \A m \in DOMAIN nodes' : nodes'[m].device \in devices
      BY <2>1, <2>4 DEF create_node_status, Put, Stores, ReferencesHold, References
    <3> QED BY <2>2, <3>1, <3>2, <3>3 DEF Stores, Grows, ReferencesHold, References
  <2>5. Stores' /\ Grows
    BY <2>2, <2>3, <2>4
  <2> QED BY <1>1, <1>7, <2>5, GotoKeeps, CallsAreCalls DEF StepKeeps, CreateNode
<1>8. CASE QueryDomainOf(s, "NewProxy", "nodes_upjoin")
  <2>1. Stores' /\ Grows
    BY <1>8, NothingChanges DEF QueryDomainOf
  <2>2. CASE Done(s)
    BY <2>1, <2>2, DoneKeeps DEF StepKeeps
  <2>3. CASE This(s).node \in DOMAIN members
             /\ GotoWith(s, "nodes_upjoin", members[This(s).node])
    <3>1. members[This(s).node] \in DomainRow(Domain, Weight)
          /\ This(s).node \in DOMAIN nodes
      BY <2>3 DEF Stores, IsTable, ReferencesHold, References
    <3> QED BY <1>1, <2>1, <2>3, <3>1, GotoWithKeeps, CallsAreCalls DEF StepKeeps
  <2> QED BY <1>8, <2>2, <2>3 DEF QueryDomainOf
<1>9. CASE Rejoin(s)
  <2>1. This(s).node \in DOMAIN nodes
    BY <1>1, <1>9, AtHand DEF Rejoin, At, NodeSeen, This
  <2>2. Stores' /\ Grows
    BY <1>2, <1>9, <2>1, CallsChangeLists DEF Rejoin
  <2> QED BY <1>9, <2>2, DoneKeeps DEF StepKeeps, Rejoin
<1> QED BY <1>3, <1>4, <1>5, <1>6, <1>7, <1>8, <1>9

LEMMA CloseProxyKeeps ==
    ASSUME Stores, Handlers, NEW s \in Slot,
           \/ DelSubdomain(s) \/ CloseNode(s) \/ QueryClosed(s)
           \/ QueryDomainOf(s, "CloseProxy", "node_lefts") \/ Leave(s)
    PROVE  StepKeeps
<1>1. task[s].op = "CloseProxy"
  BY DEF DelSubdomain, CloseNode, QueryClosed, QueryDomainOf, Leave, At
<1>2. This(s).node \in Node /\ This(s).weight \in Int
  BY <1>1, AtHand
<1>3. CASE DelSubdomain(s)
  <2>1. Stores' /\ Grows
    BY <1>3 DEF DelSubdomain, Stores, Grows, db, Without, IsTable, ReferencesHold
  <2> QED BY <1>1, <1>3, <2>1, GotoKeeps, CallsAreCalls DEF StepKeeps, DelSubdomain
<1>4. CASE CloseNode(s)
  <2>1. Stores' /\ Grows
    BY <1>4, UpdatesChangeRows DEF CloseNode
  <2> QED BY <1>1, <1>4, <2>1, GotoKeeps, CallsAreCalls DEF StepKeeps, CloseNode
<1>5. CASE QueryClosed(s)
  <2>1. Stores' /\ Grows
    BY <1>5, NothingChanges DEF QueryClosed
  <2>2. Done(s) \/ Goto(s, "query_domain_node_by_node_id")
    BY <1>5 DEF QueryClosed
  <2> QED BY <1>1, <2>1, <2>2, DoneKeeps, GotoKeeps, CallsAreCalls DEF StepKeeps
<1>6. CASE QueryDomainOf(s, "CloseProxy", "node_lefts")
  <2>1. Stores' /\ Grows
    BY <1>6, NothingChanges DEF QueryDomainOf
  <2>2. CASE Done(s)
    BY <2>1, <2>2, DoneKeeps DEF StepKeeps
  <2>3. CASE This(s).node \in DOMAIN members
             /\ GotoWith(s, "node_lefts", members[This(s).node])
    <3>1. members[This(s).node] \in DomainRow(Domain, Weight)
      BY <2>3 DEF Stores, IsTable
    <3> QED BY <1>1, <2>1, <2>3, <3>1, GotoWithKeeps, CallsAreCalls DEF StepKeeps
  <2> QED BY <1>6, <2>2, <2>3 DEF QueryDomainOf
<1>7. CASE Leave(s)
  <2>1. Stores' /\ Grows
    BY <1>2, <1>7, CallsChangeLists DEF Leave
  <2> QED BY <1>7, <2>1, DoneKeeps DEF StepKeeps, Leave
<1> QED BY <1>3, <1>4, <1>5, <1>6, <1>7

LEMMA FrpsKeeps ==
    ASSUME Stores, Handlers, NEW s \in Slot, FrpsStep(s)
    PROVE  StepKeeps
<1>1. CASE Ping(s)
  <2>1. Stores' /\ Grows
    BY <1>1, UpdatesChangeRows DEF Ping
  <2> QED BY <1>1, <2>1, DoneKeeps DEF StepKeeps, Ping
<1> QED BY <1>1, LoginKeeps, NewProxyKeeps, CloseProxyKeeps DEF FrpsStep

LEMMA HealthKeeps ==
    ASSUME Stores, Handlers, NEW s \in Slot, HealthStep(s)
    PROVE  StepKeeps
<1>1. task[s].op = "NodeHealth"
  BY DEF HealthStep, ReadHealth, SetAvail, SetUnavail, At
<1>2. CASE ReadHealth(s)
  <2>1. Stores' /\ Grows
    BY <1>2, NothingChanges DEF ReadHealth
  <2>2. \/ Done(s) \/ Goto(s, "unavail_node")
        \/ Goto(s, "update_node_avail_time_and_status")
    BY <1>2 DEF ReadHealth
  <2> QED BY <1>1, <2>1, <2>2, DoneKeeps, GotoKeeps, CallsAreCalls DEF StepKeeps
<1>3. CASE SetAvail(s) \/ SetUnavail(s)
  <2>1. Stores' /\ Grows
    BY <1>3, UpdatesChangeRows DEF SetAvail, SetUnavail
  <2> QED BY <1>3, <2>1, DoneKeeps DEF StepKeeps, SetAvail, SetUnavail
<1> QED BY <1>2, <1>3 DEF HealthStep

LEMMA PutKeeps ==
    ASSUME Stores, Handlers, NEW s \in Slot,
           \/ QueryMember(s) \/ UpdateMember(s) \/ UpjoinMember(s)
           \/ QueryOnline(s) \/ InsertMember(s) \/ JoinMember(s)
    PROVE  StepKeeps
<1>1. task[s].op = "PUT"
  BY DEF QueryMember, UpdateMember, UpjoinMember, QueryOnline, InsertMember, JoinMember, At
<1>2. This(s) \in PutItem /\ This(s).node \in Node /\ This(s).weight \in Int
  BY <1>1, AtHand
<1>3. CASE QueryMember(s)
  <2>1. Stores' /\ Grows
    BY <1>3, NothingChanges DEF QueryMember
  <2>2. \/ Goto(s, "query_node_by_node_id") \/ Goto(s, "update_domain_node")
        \/ NextItem(s, "query_domain_node")
    BY <1>3 DEF QueryMember
  <2> QED BY <1>1, <2>1, <2>2, GotoKeeps, NextItemKeeps, CallsAreCalls DEF StepKeeps
<1>4. CASE UpdateMember(s)
  <2> DEFINE i == This(s)
  <2>1. /\ members' = update_domain_node(members, i.domain, i.node, i.weight)
        /\ UNCHANGED <<devices, nodes, zset, route>>
        /\ \/ i.node \in DOMAIN members /\ Goto(s, "nodes_upjoin")
           \/ NextItem(s, "query_domain_node")
    BY <1>4 DEF UpdateMember, redis, InDomain
  <2>2. DOMAIN members' = DOMAIN members /\ IsTable(members', Node, DomainRow(Domain, Weight))
    <3>1. i.weight \in Weight
      BY <1>2 DEF PutItem
    <3> HIDE DEF i
    <3> QED BY <2>1, <3>1 DEF update_domain_node, Update, Stores, IsTable, DomainRow
  <2>3. Stores' /\ Grows
    BY <2>1, <2>2 DEF Stores, Grows, ReferencesHold, References
  <2>4. i.node \in DOMAIN members => i.node \in DOMAIN nodes'
    BY <2>1 DEF Stores, ReferencesHold, References
  <2> QED BY <1>1, <2>1, <2>3, <2>4, GotoKeeps, NextItemKeeps, CallsAreCalls DEF StepKeeps
<1>5. CASE UpjoinMember(s) \/ JoinMember(s)
  <2>1. This(s).node \in DOMAIN nodes
    BY <1>1, <1>5, AtHand DEF UpjoinMember, JoinMember, At, NodeSeen, This
  <2>2. Stores' /\ Grows
    BY <1>2, <1>5, <2>1, CallsChangeLists DEF UpjoinMember, JoinMember
  <2> QED BY <1>1, <1>5, <2>2, NextItemKeeps DEF StepKeeps, UpjoinMember, JoinMember
<1>6. CASE QueryOnline(s)
  <2>1. Stores' /\ Grows
    BY <1>6, NothingChanges DEF QueryOnline
  <2>2. \/ Goto(s, "insert_domain_node") /\ This(s).node \in DOMAIN nodes'
        \/ NextItem(s, "query_domain_node")
    BY <1>6, <2>1 DEF QueryOnline, IsOnline, Grows
  <2> QED BY <1>1, <2>1, <2>2, GotoKeeps, NextItemKeeps, CallsAreCalls DEF StepKeeps
<1>7. CASE InsertMember(s)
  <2> DEFINE i == This(s)
  <2>1. /\ UNCHANGED <<devices, nodes, zset, route>>
        /\ \/ /\ members' = Put(members, i.node, [domain |-> i.domain, weight |-> i.weight])
              /\ Goto(s, "nodes_join")
           \/ UNCHANGED members /\ Done(s)
    BY <1>7 DEF InsertMember, redis, insert_domain_node
  <2>2. i.node \in DOMAIN nodes
    BY <1>1, <1>7, AtHand DEF InsertMember, At, NodeSeen, This
  <2>3. CASE UNCHANGED members /\ Done(s)
    <3>1. Stores' /\ Grows
      BY <2>1, <2>3, NothingChanges DEF db, redis
    <3> QED BY <2>3, <3>1, DoneKeeps DEF StepKeeps
  <2>4. CASE members' = Put(members, i.node, [domain |-> i.domain, weight |-> i.weight])
             /\ Goto(s, "nodes_join")
    <3>1. [domain |-> i.domain, weight |-> i.weight] \in DomainRow(Domain, Weight)
      BY <1>2 DEF PutItem, DomainRow
    <3>2. DOMAIN members' = DOMAIN members \cup {i.node}
          /\ IsTable(members', Node, DomainRow(Domain, Weight))
      <4> DEFINE row == [domain |-> i.domain, weight |-> i.weight]
      <4> HIDE DEF i, row
      <4> QED BY <1>2, <2>4, <3>1 DEF Put, Stores, IsTable, i, row
    <3>3. Stores' /\ Grows
      <4> HIDE DEF i
      <4> QED BY <2>1, <2>2, <3>2 DEF Stores, Grows, ReferencesHold, References
    <3> QED BY <1>1, <2>1, <2>2, <2>4, <3>3, GotoKeeps, CallsAreCalls DEF StepKeeps
  <2> QED BY <2>1, <2>3, <2>4
<1> QED BY <1>3, <1>4, <1>5, <1>6, <1>7

LEMMA DeleteKeeps ==
    ASSUME Stores, Handlers, NEW s \in Slot,
           QueryDeleted(s) \/ DeleteMember(s) \/ LeftMember(s)
    PROVE  StepKeeps
<1>1. task[s].op = "DELETE"
  BY DEF QueryDeleted, DeleteMember, LeftMember, At
<1>2. This(s).node \in Node /\ This(s).weight \in Int
  BY <1>1, AtHand
<1>3. CASE QueryDeleted(s)
  <2>1. Stores' /\ Grows
    BY <1>3, NothingChanges DEF QueryDeleted
  <2>2. CASE NextItem(s, "delete_domain_node")
    BY <1>1, <2>1, <2>2, NextItemKeeps DEF StepKeeps
  <2>3. CASE This(s).node \in DOMAIN members
             /\ GotoWith(s, "delete", members[This(s).node])
    <3>1. members[This(s).node] \in DomainRow(Domain, Weight)
      BY <2>3 DEF Stores, IsTable
    <3> QED BY <1>1, <2>1, <2>3, <3>1, GotoWithKeeps, CallsAreCalls DEF StepKeeps
  <2> QED BY <1>3, <2>2, <2>3 DEF QueryDeleted, InDomain
<1>4. CASE DeleteMember(s)
  <2>1. /\ DOMAIN members' \subseteq DOMAIN members
        /\ IsTable(members', Node, DomainRow(Domain, Weight))
        /\ UNCHANGED <<devices, nodes, zset, route>>
    BY <1>4 DEF DeleteMember, DeleteDomainNode, Without, Stores, IsTable, redis
  <2>2. Stores' /\ Grows
    BY <2>1 DEF Stores, Grows, ReferencesHold, References
  <2> QED BY <1>1, <1>4, <2>2, GotoKeeps, CallsAreCalls DEF StepKeeps, DeleteMember
<1>5. CASE LeftMember(s)
  <2>1. Stores' /\ Grows
    BY <1>2, <1>5, CallsChangeLists DEF LeftMember
  <2> QED BY <1>1, <1>5, <2>1, NextItemKeeps DEF StepKeeps, LeftMember
<1> QED BY <1>3, <1>4, <1>5

---------------------------------------------------------------------------
(* Requests, failures and time. *)
LEMMA RequestsAreOK ==
    ASSUME NEW q \in Requests
    PROVE  HandlerOK(q, devices, DOMAIN nodes)
<1>1. /\ q \in Task /\ q.pc = First[q.op]
      /\ q.op \notin {"Login", "Ping"} => q.todo # << >>
      /\ \A i \in DOMAIN q.todo :
            q.op = "PUT" => q.todo[i].domain \in Domain /\ q.todo[i].weight \in Weight
  BY RequestAssumption
<1>2. q.todo \in Seq(Item)
  BY <1>1 DEF Task
<1>3. ASSUME q.op = "PUT" PROVE q.todo \in Seq(PutItem)
  <2> DEFINE l == q.todo
  <2>1. l \in Seq(Item) /\ \A i \in DOMAIN l : l[i].domain \in Domain /\ l[i].weight \in Weight
    BY <1>1, <1>2, <1>3
  <2> HIDE DEF l
  <2>2. Len(l) \in Nat /\ l \in [1..Len(l) -> Item] /\ DOMAIN l = 1..Len(l)
    BY <2>1, LenProperties
  <2>3. \A i \in 1..Len(l) : l[i] \in PutItem
    BY <2>1, <2>2 DEF Item, PutItem
  <2>4. l \in Seq(PutItem)
    BY <2>2, <2>3
  <2> QED BY <2>4 DEF l
<1>4. q.pc \notin {"query_node_by_node_id", "update_node_status_more", "create_node_status"}
      \/ q.op # "NewProxy"
  BY <1>1 DEF First
<1>5. /\ ~(q.op = "NewProxy" /\ q.pc = "nodes_upjoin")
      /\ ~(q.op = "PUT" /\ q.pc \in {"insert_domain_node", "nodes_join", "nodes_upjoin"})
  BY <1>1 DEF First
<1>6. RequestOK(q)
  BY <1>1, <1>3 DEF RequestOK
<1>7. DeviceSeen(q, devices)
  BY <1>4 DEF DeviceSeen
<1>8. NodeSeen(q, DOMAIN nodes)
  BY <1>5 DEF NodeSeen
<1> QED BY <1>6, <1>7, <1>8 DEF HandlerOK

LEMMA PassKept ==
    ASSUME Cron, Grows, UNCHANGED cron
    PROVE  Cron'
BY DEF Cron, PassOK, Grows, cron

LEMMA NoPassIsOK ==
    ASSUME NEW N, NEW c, c \in {"idle", "next", "panicked"}, NEW D, D \subseteq Domain
    PROVE  /\ PassOK([NoPass EXCEPT !.pc = c], N)
           /\ PassOK([NoPass EXCEPT !.pc = c, !.domains = D], N)
<1>1. IsTable(Empty, Node, Weight) /\ DOMAIN Empty = {}
  BY DEF Empty, IsTable
<1>2. IsZSet(EmptyZSet, Node)
  BY DEF EmptyZSet, IsZSet
<1>3. /\ DOMAIN NoPass = {"pc", "domains", "domain", "rows", "seen", "missing", "extra"}
      /\ NoPass.rows = Empty /\ NoPass.seen = EmptyZSet
      /\ NoPass.domains = {} /\ NoPass.missing = {} /\ NoPass.extra = {}
  BY DEF NoPass
<1>4. PassOK([NoPass EXCEPT !.pc = c], N)
  BY <1>1, <1>2, <1>3 DEF PassOK
<1>5. PassOK([NoPass EXCEPT !.pc = c, !.domains = D], N)
  BY <1>1, <1>2, <1>3 DEF PassOK
<1> QED BY <1>4, <1>5

(* A failing call leaves what the handler has done, and its memory. *)
LEMMA EnvKeeps ==
    ASSUME IInv, NEW s \in Slot,
           Begin(s) \/ Abort(s) \/ MappingFails(s) \/ CreateFails(s)
    PROVE  IInv'
<1>1. UNCHANGED <<db, redis, cron>>
  BY DEF Begin, Abort, MappingFails, CreateFails
<1>2. Stores' /\ Grows
  BY <1>1, NothingChanges DEF IInv
<1>3. Cron'
  BY <1>1, <1>2, PassKept DEF IInv
<1>4. Counters'
  BY StoreAssumption DEF IInv, Counters, Begin, Abort, MappingFails, CreateFails
<1>5. Handlers'
  <2>1. CASE Begin(s)
    <3>1. PICK q \in Requests : task' = [task EXCEPT ![s] = q]
      BY <2>1 DEF Begin
    <3>2. HandlerOK(q, devices', DOMAIN nodes')
      BY <1>1, RequestsAreOK DEF db
    <3> QED BY <1>2, <3>1, <3>2, SlotChanges DEF IInv
  <2>2. CASE Abort(s)
    BY <1>2, <2>2, DoneKeeps DEF Abort, IInv
  <2>3. CASE MappingFails(s)
    BY <1>2, <2>3, GotoKeeps, CallsAreCalls DEF MappingFails, IInv, At
  <2>4. CASE CreateFails(s)
    BY <1>2, <2>4, GotoKeeps, CallsAreCalls DEF CreateFails, IInv, At
  <2> QED BY <2>1, <2>2, <2>3, <2>4
<1> QED BY <1>2, <1>3, <1>4, <1>5 DEF IInv

LEMMA RestartKeeps ==
    ASSUME IInv, Restart
    PROVE  IInv'
<1>1. Stores' /\ Grows
  BY NothingChanges DEF IInv, Restart
<1>2. Handlers'
  BY DEF Handlers, Restart, HandlerOK
<1>3. Counters'
  BY StoreAssumption DEF IInv, Counters, Restart
<1>4. PassOK(NoPass, DOMAIN nodes')
  <2>1. NoPass = [NoPass EXCEPT !.pc = "idle"]
    BY DEF NoPass
  <2> QED BY <2>1, NoPassIsOK
<1>5. Cron'
  BY <1>4 DEF Cron, Restart
<1> QED BY <1>1, <1>2, <1>3, <1>5 DEF IInv

LEMMA AgesKeeps ==
    ASSUME IInv, NEW n \in Node, Ages(n)
    PROVE  IInv'
<1>1. \A m \in DOMAIN nodes : nodes[m] \in NodeRow(Device) /\ nodes[m].device \in devices
  BY DEF IInv, Stores, IsTable, ReferencesHold, References
<1>2. Stores' /\ Grows
  BY <1>1, RowsChange DEF Ages, IInv, NodeRow
<1>3. Handlers' /\ Cron' /\ Counters'
  BY <1>2, NoSlotChanges, PassKept DEF IInv, Ages, Counters, env
<1> QED BY <1>2, <1>3 DEF IInv

---------------------------------------------------------------------------
(* The cronjobs. *)
LEMMA SweepKeeps ==
    ASSUME IInv, SweepStep \/ SweepFails
    PROVE  IInv'
<1>1. Stores' /\ Grows
  <2>1. CASE UnavailExpired
    BY <2>1, UpdatesChangeRows DEF UnavailExpired, IInv
  <2>2. CASE CloseExpired
    BY <2>2, UpdatesChangeRows DEF CloseExpired, IInv
  <2>3. CASE SweepFails
    BY <2>3, NothingChanges DEF SweepFails, IInv
  <2> QED BY <2>1, <2>2, <2>3 DEF SweepStep
<1>2. Handlers'
  BY <1>1, NoSlotChanges DEF IInv, SweepStep, UnavailExpired, CloseExpired, SweepFails
<1>3. Cron'
  BY <1>1 DEF IInv, Cron, PassOK, Grows, SweepStep, UnavailExpired, CloseExpired, SweepFails
<1>4. Counters'
  BY StoreAssumption DEF IInv, Counters, env, SweepStep, UnavailExpired, CloseExpired, SweepFails
<1> QED BY <1>1, <1>2, <1>3, <1>4 DEF IInv

(* A step of the pass that writes no list. *)
LEMMA PassReads ==
    ASSUME IInv, UNCHANGED <<db, redis, task, sweep, requests>>,
           \/ faults' = faults
           \/ faults < MaxFaults /\ faults' = faults + 1,
           PassOK(pass', DOMAIN nodes)
    PROVE  IInv'
<1>1. Stores' /\ Grows
  BY NothingChanges DEF IInv
<1>2. Handlers'
  BY <1>1, NoSlotChanges DEF IInv
<1>3. Cron'
  BY DEF IInv, Cron, db
<1>4. Counters'
  BY StoreAssumption DEF IInv, Counters
<1> QED BY <1>1, <1>2, <1>3, <1>4 DEF IInv

(* A step of the pass that repairs the list of node n. *)
LEMMA PassRepairs ==
    ASSUME IInv, NEW n \in Node, NEW w \in Int,
           \/ n \in DOMAIN nodes /\ zset' = [zset EXCEPT ![pass.domain] = NodesJoin(@, n, w)]
           \/ zset' = [zset EXCEPT ![pass.domain] = NodeLefts(@, n, w)],
           UNCHANGED <<db, route, task, sweep, env>>,
           PassOK(pass', DOMAIN nodes)
    PROVE  IInv'
<1>1. Stores' /\ Grows
  BY CallsChangeLists DEF IInv
<1>2. Handlers'
  BY <1>1, NoSlotChanges DEF IInv
<1>3. Cron'
  BY DEF IInv, Cron, db
<1>4. Counters'
  BY DEF IInv, Counters, env
<1> QED BY <1>1, <1>2, <1>3, <1>4 DEF IInv

LEMMA PassKeeps ==
    ASSUME IInv, PassStep \/ RepairFails \/ PassPanics
    PROVE  IInv'
<1>1. PassOK(pass, DOMAIN nodes)
  BY DEF IInv, Cron
<1>2. CASE BeginPass
  <2>1. get_distinct_domains(members) \subseteq Domain
    BY DEF IInv, Stores, IsTable, DomainRow, get_distinct_domains
  <2>2. PassOK(pass', DOMAIN nodes)
    BY <1>2, <2>1, NoPassIsOK DEF BeginPass
  <2> QED BY <1>2, <2>2, PassReads DEF BeginPass, env
<1>3. CASE ReadRows
  <2>1. PICK d \in pass.domains :
            pass' = [pass EXCEPT !.pc = "get_domain_nodes",
                        !.domains = @ \ {d}, !.domain = d,
                        !.rows = get_nodes_by_domain(members, nodes, d)]
    BY <1>3 DEF ReadRows
  <2>2. d \in Domain /\ pass.missing = {} /\ pass.extra = {}
    BY <1>1, <1>3 DEF ReadRows, PassOK
  <2> DEFINE rows == get_nodes_by_domain(members, nodes, d)
  <2>3. IsTable(rows, Node, Weight) /\ DOMAIN rows \subseteq DOMAIN nodes
    BY DEF get_nodes_by_domain, IsTable, IInv, Stores, DomainRow
  <2>4. PassOK(pass', DOMAIN nodes)
    <3> HIDE DEF rows
    <3>1. pass' = [pass EXCEPT !.pc = "get_domain_nodes",
                       !.domains = @ \ {d}, !.domain = d, !.rows = rows]
      BY <2>1 DEF rows
    <3> QED BY <1>1, <2>2, <2>3, <3>1 DEF PassOK
  <2> QED BY <1>3, <2>4, PassReads DEF ReadRows, env
<1>4. CASE ReadRedis
  <2>1. PassOK(pass', DOMAIN nodes)
    BY <1>1, <1>4 DEF ReadRedis, PassOK, Missing, Extra, IInv, Stores
  <2> QED BY <1>4, <2>1, PassReads DEF ReadRedis, env
<1>5. CASE JoinMissing
  <2>1. PICK n \in pass.missing :
            /\ zset' = [zset EXCEPT ![pass.domain] = NodesJoin(@, n, pass.rows[n])]
            /\ pass' = [pass EXCEPT !.missing = @ \ {n}]
    BY <1>5 DEF JoinMissing
  <2>2. n \in Node /\ n \in DOMAIN nodes /\ pass.rows[n] \in Int
    <3>1. n \in Node /\ n \in DOMAIN nodes /\ pass.rows[n] \in Weight
      BY <1>1 DEF PassOK, IsTable
    <3>2. Weight \subseteq Int
      BY StoreAssumption
    <3> QED BY <3>1, <3>2
  <2>3. PassOK(pass', DOMAIN nodes)
    BY <1>1, <2>1 DEF PassOK
  <2> QED BY <1>5, <2>1, <2>2, <2>3, PassRepairs DEF JoinMissing
<1>6. CASE LeaveExtra
  <2>1. PICK n \in pass.extra :
            /\ zset' = [zset EXCEPT ![pass.domain] = NodeLefts(@, n, WeightOf(pass.seen, n))]
            /\ pass' = [pass EXCEPT !.extra = @ \ {n}]
    BY <1>6 DEF LeaveExtra
  <2>2. n \in Node /\ n \in DOMAIN pass.seen
    BY <1>1 DEF PassOK, IsZSet
  <2>3. WeightOf(pass.seen, n) \in Int
    <3>1. FiniteZSet(pass.seen)
      BY <1>1, StoreAssumption, FS_Subset DEF PassOK, IsZSet, FiniteZSet
    <3> QED BY <2>2, <3>1, FloorGivesWeight
  <2>4. PassOK(pass', DOMAIN nodes)
    BY <1>1, <2>1 DEF PassOK
  <2> QED BY <1>6, <2>1, <2>2, <2>3, <2>4, PassRepairs DEF LeaveExtra
<1>7. CASE EndDomain
  <2>1. PassOK(pass', DOMAIN nodes)
    <3>1. NoPass = [NoPass EXCEPT !.pc = "idle"]
      BY DEF NoPass
    <3>2. pass.domains \subseteq Domain
      BY <1>1 DEF PassOK
    <3> QED BY <1>7, <3>1, <3>2, NoPassIsOK DEF EndDomain
  <2> QED BY <1>7, <2>1, PassReads DEF EndDomain, env
<1>8. CASE RepairFails
  <2>1. PICK n : \/ pass' = [pass EXCEPT !.missing = @ \ {n}]
                 \/ pass' = [pass EXCEPT !.extra = @ \ {n}]
    BY <1>8 DEF RepairFails
  <2>2. PassOK(pass', DOMAIN nodes)
    BY <1>1, <2>1 DEF PassOK
  <2> QED BY <1>8, <2>2, PassReads DEF RepairFails
<1>9. CASE PassPanics
  <2>1. PassOK(pass', DOMAIN nodes)
    BY <1>9, NoPassIsOK DEF PassPanics
  <2> QED BY <1>9, <2>1, PassReads DEF PassPanics
<1> QED BY <1>2, <1>3, <1>4, <1>5, <1>6, <1>7, <1>8, <1>9 DEF PassStep

---------------------------------------------------------------------------
LEMMA InitIInv ==
    Init => IInv
<1> SUFFICES ASSUME Init PROVE IInv
  OBVIOUS
<1>1. Stores
  <2>1. PICK i \in Initial :
            /\ devices = i.devices /\ nodes = i.nodes /\ members = i.members
            /\ zset = i.zset /\ route = i.route
    BY DEF Init
  <2>2. /\ i.devices \subseteq Device
        /\ IsTable(i.nodes, Node, NodeRow(Device))
        /\ IsTable(i.members, Node, DomainRow(Domain, Weight))
        /\ DOMAIN i.zset = Domain /\ \A d \in Domain : IsZSet(i.zset[d], Node)
        /\ IsTable(i.route, Node, Frps)
        /\ References(i.devices, i.nodes, i.members, i.zset)
    BY InitialAssumption
  <2> QED BY <2>1, <2>2 DEF Stores, ReferencesHold
<1>2. Handlers
  BY DEF Init, Handlers, HandlerOK
<1>3. PassOK(NoPass, DOMAIN nodes)
  <2>1. NoPass = [NoPass EXCEPT !.pc = "idle"]
    BY DEF NoPass
  <2> QED BY <2>1, NoPassIsOK
<1>4. Cron /\ Counters
  BY <1>3, StoreAssumption DEF Init, Cron, Counters
<1> QED BY <1>1, <1>2, <1>4 DEF IInv

LEMMA NextKeeps ==
    IInv /\ [Next]_vars => IInv'
<1> SUFFICES ASSUME IInv, [Next]_vars PROVE IInv'
  OBVIOUS
<1>1. CASE UNCHANGED vars
  <2>1. Stores' /\ Grows
    BY <1>1, NothingChanges DEF vars, IInv
  <2> QED BY <1>1, <2>1, NoSlotChanges, PassKept DEF vars, IInv, Counters, env
<1>2. ASSUME NEW s \in Slot, HandlerStep(s) PROVE IInv'
  <2>1. StepKeeps
    BY <1>2, FrpsKeeps, HealthKeeps, PutKeeps, DeleteKeeps
       DEF HandlerStep, DomainStep, PutStep, DeleteStep, IInv
  <2> QED BY <1>2, <2>1, PassKept DEF HandlerStep, StepKeeps, IInv, Counters, env
<1> QED BY <1>1, <1>2, EnvKeeps, RestartKeeps, AgesKeeps, SweepKeeps, PassKeeps DEF Next

LEMMA IInvImplies ==
    IInv => TypeOK /\ ReferencesHold
<1> SUFFICES ASSUME IInv PROVE TypeOK /\ ReferencesHold
  OBVIOUS
<1>1. \A s \in Slot : task[s] = Idle \/ task[s] \in Task
  BY DEF IInv, Handlers, HandlerOK, RequestOK
<1> QED BY <1>1 DEF IInv, Stores, Cron, Counters, PassOK, TypeOK

LEMMA InvariantHolds ==
    Spec => []IInv
BY InitIInv, NextKeeps, PTL DEF Spec

(* Tables, lists, handlers and jobs keep their types: no statement of      *)
(* db.rs and no call of redis.rs is made with an argument that is none.    *)
THEOREM TypesAreKept ==
    Spec => []TypeOK
BY InvariantHolds, IInvImplies, PTL

(* However requests, cronjobs and failures interleave, what the tables and *)
(* the lists in redis refer to exists, though the schema has no foreign    *)
(* keys: devices and nodes are never deleted, and every handler has seen   *)
(* the row it refers to.                                                   *)
THEOREM ReferencesAreKept ==
    Spec => []ReferencesHold
BY InvariantHolds, IInvImplies, PTL
=============================================================================
