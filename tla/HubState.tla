------------------------------ MODULE HubState ------------------------------
(***************************************************************************)
(* The state the handlers and the cronjobs of the hub share: the tables of *)
(* the SQLite database, the keys of redis, and how far each running        *)
(* handler and cronjob has come.                                           *)
(*                                                                         *)
(* A handler awaits nothing between reading its request and answering, but *)
(* connections are served by the threads of a multi-threaded runtime (and  *)
(* by several instances with --cluster), so handlers interleave between    *)
(* any two calls of db.rs and redis.rs.  One such call is one step; pc     *)
(* names the call that is next.  That a function of redis.rs is one step   *)
(* is what module ZSetTxn is about.                                        *)
(***************************************************************************)
EXTENDS Tables, ZSet, Sequences

CONSTANTS
    Node, Device, Domain, Weight, Frps,
    NoDomain, NoFrps,   \* absent values
    Slot,               \* bound: the handlers that run at once
    Requests,           \* the requests that may come, as handlers about to begin
    Initial,            \* the contents of the stores the run starts from
    Overlap,            \* may requests about the same node overlap?
    Jobs,               \* the cronjobs that run
    MaxRequests,        \* bound: the requests in all
    MaxFaults           \* bound: the failures in all

ASSUME StoreAssumption ==
    /\ Node \subseteq Nat /\ IsFiniteSet(Node)
    /\ Weight \subseteq Nat \ {0}
    /\ NoDomain \notin Domain /\ NoFrps \notin Frps
    /\ MaxRequests \in Nat /\ MaxFaults \in Nat

VARIABLES
    devices,    \* table devices
    nodes,      \* table node_status
    members,    \* table domain_nodes
    zset,       \* redis: the sorted set of each domain
    route,      \* redis: the frps each subdomain is mapped to
    task,       \* the handler in each slot
    sweep,      \* the statement close_expired_nodes runs next
    pass,       \* where cross_compare_domain_nodes is
    requests,   \* the requests that have come
    faults      \* the failures there have been

db    == <<devices, nodes, members>>
redis == <<zset, route>>
cron  == <<sweep, pass>>
env   == <<requests, faults>>

---------------------------------------------------------------------------
(* One node of a request, with the domain and the weight the request names *)
(* or, in a handler that looks its domain_nodes row up, those of the row.  *)
Item == [node : Node, domain : Domain \cup {NoDomain}, weight : Weight \cup {0}]

(* What each handler calls, in the order of the code. *)
LoginCalls      == {"count_device_by_device_id", "create_device"}
NewProxyCalls   == {"set_subdomain_frps_id", "query_device_by_device_id",
                    "query_node_by_node_id", "update_node_status_more",
                    "create_node_status", "query_domain_node_by_node_id",
                    "nodes_upjoin"}
CloseProxyCalls == {"del_subdomain", "update_node_status",
                    "query_node_by_subdomain", "query_domain_node_by_node_id",
                    "node_lefts"}
PingCalls       == {"update_online_node_last_active_time"}
NodeHealthCalls == {"query_node_by_node_id", "unavail_node",
                    "update_node_avail_time_and_status"}
PutCalls        == {"query_domain_node", "update_domain_node", "nodes_upjoin",
                    "query_node_by_node_id", "insert_domain_node", "nodes_join"}
DeleteCalls     == {"delete_domain_node", "delete", "node_lefts"}

Calls == [Login |-> LoginCalls, NewProxy |-> NewProxyCalls,
          CloseProxy |-> CloseProxyCalls, Ping |-> PingCalls,
          NodeHealth |-> NodeHealthCalls, PUT |-> PutCalls, DELETE |-> DeleteCalls]

(* todo holds the node or nodes the handler still has to deal with. *)
Task == [op : DOMAIN Calls, pc : UNION {Calls[o] : o \in DOMAIN Calls},
         device : Device, frps : Frps \cup {NoFrps}, healthy : BOOLEAN,
         todo : Seq(Item)]

(* The first call of each handler. *)
First ==
    [Login |-> "count_device_by_device_id", NewProxy |-> "set_subdomain_frps_id",
     CloseProxy |-> "del_subdomain", Ping |-> "update_online_node_last_active_time",
     NodeHealth |-> "query_node_by_node_id", PUT |-> "query_domain_node",
     DELETE |-> "delete_domain_node"]

ASSUME RequestAssumption ==
    \A q \in Requests :
        /\ q \in Task /\ q.pc = First[q.op]
        /\ q.op \notin {"Login", "Ping"} => q.todo # << >>
        /\ \A i \in DOMAIN q.todo :
              /\ q.op \in {"PUT", "DELETE"} => q.todo[i].domain \in Domain
              /\ q.op = "PUT" => q.todo[i].weight \in Weight

Idle == [op |-> "none", pc |-> "idle", todo |-> << >>]

At(s, op, call) == task[s].op = op /\ task[s].pc = call
This(s) == Head(task[s].todo)

Goto(s, call) == task' = [task EXCEPT ![s].pc = call]
Done(s) == task' = [task EXCEPT ![s] = Idle]

(* Goes on with the domain_nodes row of the node at hand. *)
GotoWith(s, call, row) ==
    task' = [task EXCEPT ![s].pc = call,
                         ![s].todo[1] = [@ EXCEPT !.domain = row.domain,
                                                  !.weight = row.weight]]

(* continue: the next node of the request, if there is one. *)
NextItem(s, call) ==
    IF Len(task[s].todo) = 1
    THEN Done(s)
    ELSE task' = [task EXCEPT ![s].pc = call, ![s].todo = Tail(@)]

Names(k) == {k.todo[i].node : i \in DOMAIN k.todo}

(* No running handler has n still to deal with. *)
Quiet(n) == \A s \in Slot : n \notin Names(task[s])

IsOnline(n) == n \in DOMAIN nodes /\ nodes[n].status = ONLINE

---------------------------------------------------------------------------
NoPass == [pc |-> "idle", domains |-> {}, domain |-> NoDomain,
           rows |-> Empty, seen |-> EmptyZSet, missing |-> {}, extra |-> {}]

(* A node's device, a domain's node and a list's node are known. *)
References(ds, ns, ms, z) ==
    /\ \A n \in DOMAIN ns : ns[n].device \in ds
    /\ DOMAIN ms \subseteq DOMAIN ns
    /\ \A d \in Domain : DOMAIN z[d] \subseteq DOMAIN ns

ASSUME InitialAssumption ==
    \A i \in Initial :
        /\ i.devices \subseteq Device
        /\ IsTable(i.nodes, Node, NodeRow(Device))
        /\ IsTable(i.members, Node, DomainRow(Domain, Weight))
        /\ DOMAIN i.zset = Domain /\ \A d \in Domain : IsZSet(i.zset[d], Node)
        /\ IsTable(i.route, Node, Frps)
        /\ References(i.devices, i.nodes, i.members, i.zset)

Init ==
    /\ \E i \in Initial :
          /\ devices = i.devices /\ nodes = i.nodes /\ members = i.members
          /\ zset = i.zset /\ route = i.route
    /\ task = [s \in Slot |-> Idle]
    /\ sweep = "unavail_expired_nodes"
    /\ pass = NoPass
    /\ requests = 0 /\ faults = 0

(* A request comes in. *)
Begin(s) ==
    /\ task[s] = Idle
    /\ requests < MaxRequests
    /\ requests' = requests + 1
    /\ \E q \in Requests :
          /\ \/ Overlap
             \/ pass = NoPass /\ \A n \in Names(q) : Quiet(n)
          /\ task' = [task EXCEPT ![s] = q]
    /\ UNCHANGED <<db, redis, cron, faults>>

(* A call of the handler fails or panics: what it has done stays, the rest *)
(* is not done.                                                            *)
Abort(s) ==
    /\ task[s] # Idle
    /\ faults < MaxFaults
    /\ faults' = faults + 1
    /\ Done(s)
    /\ UNCHANGED <<db, redis, cron, requests>>

(* The process dies and is started again: handlers and jobs are gone, the  *)
(* stores keep what they have, and the jobs begin anew.                    *)
Restart ==
    /\ faults < MaxFaults
    /\ faults' = faults + 1
    /\ task' = [s \in Slot |-> Idle]
    /\ sweep' = "unavail_expired_nodes"
    /\ pass' = NoPass
    /\ UNCHANGED <<db, redis, requests>>

(* Time passes without a Ping, or without a health report, of node n. *)
Ages(n) ==
    /\ n \in DOMAIN nodes
    /\ \/ nodes[n].active = "fresh"
          /\ nodes' = [nodes EXCEPT ![n].active = "stale"]
       \/ nodes[n].avail = "fresh"
          /\ nodes' = [nodes EXCEPT ![n].avail = "stale"]
    /\ UNCHANGED <<devices, members, redis, task, cron, env>>
=============================================================================
