-------------------------------- MODULE Hub ---------------------------------
(***************************************************************************)
(* The hub: request handlers and cronjobs over the database and redis.     *)
(***************************************************************************)
EXTENDS FrpsEvents, NodeHealth, DomainNodes, CronJobs

vars == <<db, redis, task, cron, env>>

(* One call of the handler in slot s. *)
HandlerStep(s) ==
    (FrpsStep(s) \/ HealthStep(s) \/ DomainStep(s)) /\ UNCHANGED <<cron, env>>

Next ==
    \/ \E s \in Slot : Begin(s) \/ HandlerStep(s) \/ Abort(s)
                    \/ MappingFails(s) \/ CreateFails(s)
    \/ \E n \in Node : Ages(n)
    \/ Restart
    \/ SweepStep \/ SweepFails \/ PassStep \/ RepairFails \/ PassPanics

Spec == Init /\ [][Next]_vars

(* The runtime schedules every handler and every cronjob.  Nothing makes   *)
(* requests come or rows age.                                              *)
FairSpec ==
    /\ Spec
    /\ \A s \in Slot : WF_vars(HandlerStep(s))
    /\ WF_vars(SweepStep)
    /\ WF_vars(PassStep)

---------------------------------------------------------------------------
(* Tables, keys, handlers and cronjobs have their types. *)
TypeOK ==
    /\ devices \subseteq Device
    /\ IsTable(nodes, Node, NodeRow(Device))
    /\ IsTable(members, Node, DomainRow(Domain, Weight))
    /\ DOMAIN zset = Domain /\ \A d \in Domain : IsZSet(zset[d], Node)
    /\ IsTable(route, Node, Frps)
    /\ \A s \in Slot : task[s] = Idle \/ task[s] \in Task
    /\ sweep \in {"unavail_expired_nodes", "close_expired_nodes"}
    /\ pass.pc \in {"idle", "next", "get_domain_nodes", "repair", "panicked"}
    /\ pass.domains \subseteq Domain
    /\ IsTable(pass.rows, Node, Weight) /\ IsZSet(pass.seen, Node)
    /\ pass.missing \subseteq DOMAIN pass.rows
    /\ pass.extra \subseteq DOMAIN pass.seen
    /\ requests \in 0..MaxRequests /\ faults \in 0..MaxFaults

(* No table has a foreign key, and yet, with requests and cronjobs in any  *)
(* interleaving and calls that fail: a node's device is known, a node of a *)
(* domain is known, and whatever redis is told to choose from is known.    *)
ReferencesHold == References(devices, nodes, members, zset)

(* As long as requests about the same node do not overlap, no pass runs    *)
(* meanwhile and no call fails: a node that redis would choose is in that  *)
(* domain, and with the weight it has in the database.                     *)
RedisAgrees ==
    \A d \in Domain : \A n \in DOMAIN zset[d] :
        Quiet(n) => members[n] = [domain |-> d, weight |-> WeightOf(zset[d], n)]

(* Under the same conditions, each step is one of DomainWeights, or none,   *)
(* in every domain: no handler and no repair changes the weight of a node  *)
(* other than the one it is about.                                         *)
DW(d) == INSTANCE DomainWeights WITH weights <- Weights(zset[d])
DomainsImplementWeights ==
    [][\A d \in Domain : [DW(d)!Next]_(Weights(zset[d]))]_vars

(* Under the same conditions, when a pass is done with a domain, the list  *)
(* is what it has read from the database: whatever it joined and removed,  *)
(* in whichever order, no weight was disturbed on the way.  No node has    *)
(* another weight in redis then than in the database; module               *)
(* HubListsProofs has theorems about passes that find such nodes.          *)
PassSynchronises ==
    pass.pc = "repair" /\ pass.missing = {} /\ pass.extra = {}
    => Weights(zset[pass.domain]) = pass.rows

(* The list of domain d is its online members, with their weights. *)
SynchronisedIn(d) ==
    Weights(zset[d]) =
        [n \in {m \in DOMAIN members : IsOnline(m) /\ members[m].domain = d}
            |-> members[n].weight]

(* Under the same conditions, once requests stop coming, the passes bring   *)
(* redis in line with the database for good, whatever was closed or made   *)
(* unavailable without redis being told.                                   *)
Converges == <>[](\A d \in Domain : SynchronisedIn(d))

(* With requests that overlap each other and the passes, calls that fail   *)
(* and processes that die: the passes repair what came of it, in every     *)
(* domain that still has a row, unless the job itself is gone.  This needs *)
(* that a node with another weight in redis than in the database has none  *)
(* to keep behind it in its list, while no other node is missing from it.  *)
Recovers ==
    <>[](\/ pass.pc = "panicked"
         \/ \A d \in get_distinct_domains(members) : SynchronisedIn(d))

(* A node that is silent for good, with neither a Ping nor a new proxy,    *)
(* ends up in no list, although close_expired_nodes skips it if it was     *)
(* made unavailable before.                                                *)
SilentNodesLeave ==
    \A n \in Node :
        <>[](n \in DOMAIN nodes /\ nodes[n].active = "stale")
        => <>[](\A d \in Domain : n \notin DOMAIN zset[d])

(* A node that is not closed has a mapping to an frps, as long as a proxy  *)
(* is opened and closed by the device of its node, over an frps that names *)
(* itself, requests about the same node do not overlap and no call fails.  *)
OpenNodesAreRouted ==
    \A n \in DOMAIN nodes :
        Quiet(n) /\ nodes[n].status # OFFLINE => n \in DOMAIN route

---------------------------------------------------------------------------
(* What comments of the code say of it. *)

(* "Only online nodes can be added to domain": PUT adds only those to the  *)
(* list redis has.                                                         *)
OnlyOnlineAdded ==
    [][\A s \in Slot, d \in Domain :
          task[s].op = "PUT" /\ task'[s] # task[s]
          => \A n \in DOMAIN zset'[d] \ DOMAIN zset[d] :
                nodes[n].status = ONLINE]_vars

(* "Reopen the avail node while frpc is connected by checking              *)
(* last_active_time": a report brings no closed node back.                 *)
ClosedStayClosed ==
    [][\A s \in Slot, n \in DOMAIN nodes :
          /\ At(s, "NodeHealth", "update_node_avail_time_and_status")
          /\ task'[s] # task[s]
          /\ nodes[n].status = OFFLINE
          => nodes'[n].status = OFFLINE]_vars

(* "Remove the subdomain and frps_id mapping from redis": CloseProxy       *)
(* removes the mapping to the frps it comes from.                          *)
OwnMappingRemoved ==
    [][\A s \in Slot, n \in DOMAIN route \ DOMAIN route' :
          At(s, "CloseProxy", "del_subdomain") /\ task'[s] # task[s]
          => route[n] = task[s].frps]_vars
=============================================================================
