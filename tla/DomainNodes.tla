---------------------------- MODULE DomainNodes -----------------------------
(***************************************************************************)
(* PUT and DELETE /domain_nodes: the handlers of domain_nodes.rs take the  *)
(* nodes of a request one after the other, each in several calls.          *)
(***************************************************************************)
EXTENDS HubState

QueryMember(s) ==
    LET i == This(s)
    IN  /\ At(s, "PUT", "query_domain_node")
        /\ \/ ~InDomain(members, i.node, i.domain)
              /\ Goto(s, "query_node_by_node_id")
           \/ /\ InDomain(members, i.node, i.domain)
              /\ IF members[i.node].weight # i.weight
                 THEN Goto(s, "update_domain_node")
                 ELSE NextItem(s, "query_domain_node")
        /\ UNCHANGED <<db, redis>>

(* Mutant of UpdateMember: redis is not told of the new weight. *)
UpdateMemberOnly(s) ==
    LET i == This(s)
    IN  /\ At(s, "PUT", "update_domain_node")
        /\ members' = update_domain_node(members, i.domain, i.node, i.weight)
        /\ NextItem(s, "query_domain_node")
        /\ UNCHANGED <<devices, nodes, redis>>

(* The row may have gone since; redis is only told of a row updated. *)
UpdateMember(s) ==
    LET i == This(s)
    IN  /\ At(s, "PUT", "update_domain_node")
        /\ members' = update_domain_node(members, i.domain, i.node, i.weight)
        /\ IF InDomain(members, i.node, i.domain)
           THEN Goto(s, "nodes_upjoin")
           ELSE NextItem(s, "query_domain_node")
        /\ UNCHANGED <<devices, nodes, redis>>

UpjoinMember(s) ==
    LET i == This(s)
    IN  /\ At(s, "PUT", "nodes_upjoin")
        /\ zset' = [zset EXCEPT ![i.domain] = NodesUpjoin(@, i.node, i.weight)]
        /\ NextItem(s, "query_domain_node")
        /\ UNCHANGED <<db, route>>

(* Mutant of QueryOnline: any node will do. *)
QueryAny(s) ==
    /\ At(s, "PUT", "query_node_by_node_id")
    /\ Goto(s, "insert_domain_node")
    /\ UNCHANGED <<db, redis>>

(* A node without a row, or not online, is passed over. *)
QueryOnline(s) ==
    /\ At(s, "PUT", "query_node_by_node_id")
    /\ IF IsOnline(This(s).node)
       THEN Goto(s, "insert_domain_node")
       ELSE NextItem(s, "query_domain_node")
    /\ UNCHANGED <<db, redis>>

(* A node that has a row, in this domain or in another one, makes the      *)
(* INSERT fail and the request end there.                                  *)
InsertMember(s) ==
    LET i == This(s)
    IN  /\ At(s, "PUT", "insert_domain_node")
        /\ \/ /\ i.node \notin DOMAIN members
              /\ members' = insert_domain_node(members, i.domain, i.node, i.weight)
              /\ Goto(s, "nodes_join")
           \/ /\ i.node \in DOMAIN members
              /\ Done(s)
              /\ UNCHANGED members
        /\ UNCHANGED <<devices, nodes, redis>>

JoinMember(s) ==
    LET i == This(s)
    IN  /\ At(s, "PUT", "nodes_join")
        /\ zset' = [zset EXCEPT ![i.domain] = NodesJoin(@, i.node, i.weight)]
        /\ NextItem(s, "query_domain_node")
        /\ UNCHANGED <<db, route>>

---------------------------------------------------------------------------
(* delete_domain_node reads the row and then deletes it. *)
QueryDeleted(s) ==
    LET i == This(s)
    IN  /\ At(s, "DELETE", "delete_domain_node")
        /\ IF InDomain(members, i.node, i.domain)
           THEN GotoWith(s, "delete", members[i.node])
           ELSE NextItem(s, "delete_domain_node")
        /\ UNCHANGED <<db, redis>>

DeleteMember(s) ==
    LET i == This(s)
    IN  /\ At(s, "DELETE", "delete")
        /\ members' = DeleteDomainNode(members, i.domain, i.node)
        /\ Goto(s, "node_lefts")
        /\ UNCHANGED <<devices, nodes, redis>>

LeftMember(s) ==
    LET i == This(s)
    IN  /\ At(s, "DELETE", "node_lefts")
        /\ zset' = [zset EXCEPT ![i.domain] = NodeLefts(@, i.node, i.weight)]
        /\ NextItem(s, "delete_domain_node")
        /\ UNCHANGED <<db, route>>

PutStep(s) ==
    \/ QueryMember(s) \/ UpdateMember(s) \/ UpjoinMember(s)
    \/ QueryOnline(s) \/ InsertMember(s) \/ JoinMember(s)

DeleteStep(s) == QueryDeleted(s) \/ DeleteMember(s) \/ LeftMember(s)

DomainStep(s) == PutStep(s) \/ DeleteStep(s)
=============================================================================
