----------------------------- MODULE FrpsEvents -----------------------------
(***************************************************************************)
(* The plugin events of the frp servers, as handler_inner of frps.rs       *)
(* handles them.                                                           *)
(***************************************************************************)
EXTENDS HubState

CountDevice(s) ==
    /\ At(s, "Login", "count_device_by_device_id")
    /\ IF count_device_by_device_id(devices, task[s].device) > 0
       THEN Done(s)                     \* update_device sets login_time only
       ELSE Goto(s, "create_device")
    /\ UNCHANGED <<db, redis>>

(* A second INSERT of a device fails and changes nothing. *)
CreateDevice(s) ==
    /\ At(s, "Login", "create_device")
    /\ devices' = create_device(devices, task[s].device)
    /\ Done(s)
    /\ UNCHANGED <<nodes, members, redis>>

---------------------------------------------------------------------------
SetSubdomain(s) ==
    /\ At(s, "NewProxy", "set_subdomain_frps_id")
    /\ route' = IF task[s].frps = NoFrps
                THEN route
                ELSE Put(route, This(s).node, task[s].frps)
    /\ Goto(s, "query_device_by_device_id")
    /\ UNCHANGED <<db, zset>>

QueryDevice(s) ==
    /\ At(s, "NewProxy", "query_device_by_device_id")
    /\ IF query_device_by_device_id(devices, task[s].device) = {}
       THEN Done(s)
       ELSE Goto(s, "query_node_by_node_id")
    /\ UNCHANGED <<db, redis>>

QueryNode(s) ==
    LET n == This(s).node
    IN  /\ At(s, "NewProxy", "query_node_by_node_id")
        /\ \/ n \notin DOMAIN nodes /\ Goto(s, "create_node_status")
           \/ /\ n \in DOMAIN nodes
              /\ IF nodes[n].status = OFFLINE
                 THEN Goto(s, "update_node_status_more")
                 ELSE Done(s)
        /\ UNCHANGED <<db, redis>>

ReopenNode(s) ==
    /\ At(s, "NewProxy", "update_node_status_more")
    /\ nodes' = update_node_status_more(nodes, This(s).node, task[s].device)
    /\ Goto(s, "query_domain_node_by_node_id")
    /\ UNCHANGED <<devices, members, redis>>

(* node_id is UNIQUE: a second INSERT of a node fails, which is not looked *)
(* at.                                                                     *)
CreateNode(s) ==
    LET n == This(s).node
    IN  /\ At(s, "NewProxy", "create_node_status")
        /\ nodes' = IF n \in DOMAIN nodes
                    THEN nodes
                    ELSE create_node_status(nodes, n, task[s].device)
        /\ Goto(s, "query_domain_node_by_node_id")
        /\ UNCHANGED <<devices, members, redis>>

(* The last read of NewProxy and of CloseProxy. *)
QueryDomainOf(s, op, call) ==
    LET n == This(s).node
    IN  /\ At(s, op, "query_domain_node_by_node_id")
        /\ IF n \in DOMAIN members THEN GotoWith(s, call, members[n]) ELSE Done(s)
        /\ UNCHANGED <<db, redis>>

(* Mutant of Rejoin: nodes_join in place of nodes_upjoin. *)
RejoinAppends(s) ==
    LET i == This(s)
    IN  /\ At(s, "NewProxy", "nodes_upjoin")
        /\ zset' = [zset EXCEPT ![i.domain] = NodesJoin(@, i.node, i.weight)]
        /\ Done(s)
        /\ UNCHANGED <<db, route>>

Rejoin(s) ==
    LET i == This(s)
    IN  /\ At(s, "NewProxy", "nodes_upjoin")
        /\ zset' = [zset EXCEPT ![i.domain] = NodesUpjoin(@, i.node, i.weight)]
        /\ Done(s)
        /\ UNCHANGED <<db, route>>

---------------------------------------------------------------------------
DelSubdomain(s) ==
    /\ At(s, "CloseProxy", "del_subdomain")
    /\ route' = IF task[s].frps = NoFrps
                THEN route
                ELSE Without(route, This(s).node)
    /\ Goto(s, "update_node_status")
    /\ UNCHANGED <<db, zset>>

CloseNode(s) ==
    /\ At(s, "CloseProxy", "update_node_status")
    /\ nodes' = update_node_status(nodes, task[s].device, This(s).node, OFFLINE)
    /\ Goto(s, "query_node_by_subdomain")
    /\ UNCHANGED <<devices, members, redis>>

QueryClosed(s) ==
    /\ At(s, "CloseProxy", "query_node_by_subdomain")
    /\ IF This(s).node \in DOMAIN nodes
       THEN Goto(s, "query_domain_node_by_node_id")
       ELSE Done(s)
    /\ UNCHANGED <<db, redis>>

Leave(s) ==
    LET i == This(s)
    IN  /\ At(s, "CloseProxy", "node_lefts")
        /\ zset' = [zset EXCEPT ![i.domain] = NodeLefts(@, i.node, i.weight)]
        /\ Done(s)
        /\ UNCHANGED <<db, route>>

---------------------------------------------------------------------------
Ping(s) ==
    /\ At(s, "Ping", "update_online_node_last_active_time")
    /\ nodes' = update_online_node_last_active_time(nodes, task[s].device)
    /\ Done(s)
    /\ UNCHANGED <<devices, members, redis>>

FrpsStep(s) ==
    \/ CountDevice(s) \/ CreateDevice(s)
    \/ SetSubdomain(s) \/ QueryDevice(s) \/ QueryNode(s) \/ ReopenNode(s)
    \/ CreateNode(s) \/ QueryDomainOf(s, "NewProxy", "nodes_upjoin") \/ Rejoin(s)
    \/ DelSubdomain(s) \/ CloseNode(s) \/ QueryClosed(s)
    \/ QueryDomainOf(s, "CloseProxy", "node_lefts") \/ Leave(s)
    \/ Ping(s)

(* redis fails while the mapping of a subdomain is written: the event is   *)
(* handled all the same.                                                   *)
MappingFails(s) ==
    /\ faults < MaxFaults
    /\ faults' = faults + 1
    /\ \/ At(s, "NewProxy", "set_subdomain_frps_id")
          /\ Goto(s, "query_device_by_device_id")
       \/ At(s, "CloseProxy", "del_subdomain")
          /\ Goto(s, "update_node_status")
    /\ UNCHANGED <<db, redis, cron, requests>>

(* Nor is it when the INSERT fails for another reason: the event goes on   *)
(* as if the node were online.                                             *)
CreateFails(s) ==
    /\ At(s, "NewProxy", "create_node_status")
    /\ faults < MaxFaults
    /\ faults' = faults + 1
    /\ Goto(s, "query_domain_node_by_node_id")
    /\ UNCHANGED <<db, redis, cron, requests>>
=============================================================================
