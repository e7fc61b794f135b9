----------------------------- MODULE NodeHealth -----------------------------
(***************************************************************************)
(* The health reports a node sends of itself: node_health_handler of       *)
(* node_services.rs reads the row and writes it in two statements.         *)
(***************************************************************************)
EXTENDS HubState

(* Mutant of Keeps: any node that was active lately is reopened. *)
KeepsActive(n) ==
    /\ n \in DOMAIN nodes
    /\ nodes[n].status = ONLINE \/ nodes[n].active = "fresh"

(* A healthy node is kept online, or reopened if it was made unavailable   *)
(* and its frpc is still connected.                                        *)
Keeps(n) ==
    /\ n \in DOMAIN nodes
    /\ \/ nodes[n].status = ONLINE
       \/ nodes[n].status = UNAVAIL /\ nodes[n].active = "fresh"

ReadHealth(s) ==
    LET n == This(s).node
        keep == task[s].healthy /\ Keeps(n)
        close == ~task[s].healthy /\ IsOnline(n)
    IN  /\ At(s, "NodeHealth", "query_node_by_node_id")
        /\ \/ keep /\ Goto(s, "update_node_avail_time_and_status")
           \/ close /\ Goto(s, "unavail_node")
           \/ ~keep /\ ~close /\ Done(s)
        /\ UNCHANGED <<db, redis>>

(* The node is available: refreshed when it was online, reopened when not. *)
SetAvail(s) ==
    /\ At(s, "NodeHealth", "update_node_avail_time_and_status")
    /\ nodes' = update_node_avail_time_and_status(nodes, This(s).node, ONLINE)
    /\ Done(s)
    /\ UNCHANGED <<devices, members, redis>>

SetUnavail(s) ==
    /\ At(s, "NodeHealth", "unavail_node")
    /\ nodes' = unavail_node(nodes, This(s).node)
    /\ Done(s)
    /\ UNCHANGED <<devices, members, redis>>

HealthStep(s) == ReadHealth(s) \/ SetAvail(s) \/ SetUnavail(s)
=============================================================================
