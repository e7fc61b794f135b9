------------------------------- MODULE Tables -------------------------------
(***************************************************************************)
(* The three tables of the hub and the statements of db.rs.                *)
(*                                                                         *)
(*   devices      the set of device_ids with a row                         *)
(*   node_status  a function from the node_ids with a row to their rows    *)
(*   domain_nodes a function from the node_ids with a row to their rows;   *)
(*                node_id is UNIQUE there, so a node has one domain        *)
(*                                                                         *)
(* A time is kept as what the code compares it with: is it at most         *)
(* NODE_LIVING_DURATION old?  last_avail_time may also be NULL, which no   *)
(* comparison of SQL selects.  A node has one subdomain, which stands for  *)
(* it in the statements that select by subdomain.                          *)
(***************************************************************************)
EXTENDS Integers

ONLINE  == "online"
OFFLINE == "offline"
UNAVAIL == "unavail"

NodeRow(D) == [status : {ONLINE, OFFLINE, UNAVAIL},
               device : D,
               active : {"fresh", "stale"},            \* last_active_time
               avail  : {"null", "fresh", "stale"}]    \* last_avail_time

DomainRow(S, W) == [domain : S, weight : W]

(* t is a table of rows of R, keyed by members of K. *)
IsTable(t, K, R) == DOMAIN t \subseteq K /\ t \in [DOMAIN t -> R]

Empty == [k \in {} |-> 0]

Put(t, k, row) == [j \in DOMAIN t \cup {k} |-> IF j = k THEN row ELSE t[j]]
Without(t, k)  == [j \in DOMAIN t \ {k} |-> t[j]]

(* UPDATE .. WHERE: Upd of every row that Where selects. *)
Update(t, Where(_), Upd(_)) ==
    [k \in DOMAIN t |-> IF Where(k) THEN Upd(t[k]) ELSE t[k]]

---------------------------------------------------------------------------
(* devices *)

create_device(ds, d) == ds \cup {d}    \* device_id is UNIQUE

count_device_by_device_id(ds, d) == IF d \in ds THEN 1 ELSE 0

query_device_by_device_id(ds, d) == {e \in ds : e = d}

---------------------------------------------------------------------------
(* node_status *)

(* Mutant of create_node_status: the row gets the default status of the    *)
(* schema.                                                                 *)
CreateUnknown(ns, n, d) ==
    Put(ns, n, [status |-> "unknown", device |-> d,
                active |-> "fresh", avail |-> "null"])

create_node_status(ns, n, d) ==
    Put(ns, n, [status |-> ONLINE, device |-> d,
                active |-> "fresh", avail |-> "null"])

(* last_avail_time keeps its old value. *)
update_node_status_more(ns, n, d) ==
    Update(ns, LAMBDA k : k = n,
           LAMBDA r : [r EXCEPT !.status = ONLINE, !.device = d,
                                !.active = "fresh"])

update_online_node_last_active_time(ns, d) ==
    Update(ns, LAMBDA k : ns[k].device = d /\ ns[k].status \in {ONLINE, UNAVAIL},
           LAMBDA r : [r EXCEPT !.active = "fresh"])

update_node_status(ns, d, n, s) ==
    Update(ns, LAMBDA k : ns[k].device = d /\ k = n,
           LAMBDA r : [r EXCEPT !.status = s, !.active = "fresh"])

update_node_avail_time_and_status(ns, n, s) ==
    Update(ns, LAMBDA k : k = n,
           LAMBDA r : [r EXCEPT !.status = s, !.avail = "fresh"])

unavail_node(ns, n) ==
    Update(ns, LAMBDA k : k = n, LAMBDA r : [r EXCEPT !.status = UNAVAIL])

(* Mutant of close_expired_nodes: it goes by last_avail_time. *)
CloseUnavailable(ns) ==
    Update(ns, LAMBDA k : ns[k].avail = "stale" /\ ns[k].status = ONLINE,
           LAMBDA r : [r EXCEPT !.status = OFFLINE])

close_expired_nodes(ns) ==
    Update(ns, LAMBDA k : ns[k].active = "stale" /\ ns[k].status = ONLINE,
           LAMBDA r : [r EXCEPT !.status = OFFLINE])

unavail_expired_nodes(ns) ==
    Update(ns, LAMBDA k : ns[k].avail = "stale" /\ ns[k].status = ONLINE,
           LAMBDA r : [r EXCEPT !.status = UNAVAIL])

---------------------------------------------------------------------------
(* domain_nodes *)

(* query_domain_node finds a row. *)
InDomain(ms, n, d) == n \in DOMAIN ms /\ ms[n].domain = d

insert_domain_node(ms, d, n, w) == Put(ms, n, [domain |-> d, weight |-> w])

update_domain_node(ms, d, n, w) ==
    Update(ms, LAMBDA k : InDomain(ms, n, d) /\ k = n,
           LAMBDA r : [r EXCEPT !.weight = w])

(* The DELETE of delete_domain_node. *)
DeleteDomainNode(ms, d, n) == IF InDomain(ms, n, d) THEN Without(ms, n) ELSE ms

get_distinct_domains(ms) == {ms[n].domain : n \in DOMAIN ms}

(* Mutant of get_nodes_by_domain: without the filter on the status. *)
AllNodesByDomain(ms, ns, d) ==
    [n \in {m \in DOMAIN ms \cap DOMAIN ns : ms[m].domain = d} |-> ms[n].weight]

(* The members of the domain that are online, with their weights. *)
get_nodes_by_domain(ms, ns, d) ==
    [n \in {m \in DOMAIN ms \cap DOMAIN ns :
               ms[m].domain = d /\ ns[m].status = ONLINE} |-> ms[n].weight]
=============================================================================
