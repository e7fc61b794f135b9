---------------------------- MODULE HealthCheck -----------------------------
(***************************************************************************)
(* The cronjob check_nodes_health of main.rs: it goes through the online   *)
(* nodes page by page in the order of their login_time, sends each a chat  *)
(* request, a limited number at a time, and makes a node that answers with *)
(* an error unavailable, while the handlers of the hub change the rows.    *)
(***************************************************************************)
EXTENDS Tables, FiniteSets

CONSTANTS
    Node,
    PageSize,       \* page_size
    Permits,        \* the permits of the semaphore
    Login,          \* the values of login_time, in seconds
    Initial,        \* the tables the run starts from
    Timestampdiff,  \* does the database have the function TIMESTAMPDIFF?
    MaxEvents       \* bound: what other requests and failures do in all

(* A row as the job sees it; lived: it was active least_lived_secs or more *)
(* after its login.                                                        *)
StatusRow == [status : {ONLINE, OFFLINE, UNAVAIL}, login_time : Login, lived : BOOLEAN]

LivingNode == [node_id : Node, login_time : Login]

ASSUME CheckAssumption ==
    /\ IsFiniteSet(Node)
    /\ PageSize \in Nat \ {0} /\ Permits \in Nat \ {0}
    /\ Login \subseteq Nat \ {0}
    /\ Initial \subseteq [Node -> StatusRow]
    /\ Timestampdiff \in BOOLEAN /\ MaxEvents \in Nat

VARIABLES
    nodes,      \* table node_status
    earliest,   \* earliest_login_time
    page, len,  \* the nodes of the page still to spawn a task for; its length
    pc,         \* what the job does next
    probes,     \* the spawned tasks
    steady,     \* history: the nodes that are to be checked in this run,
                \* unless another request wrote their status meanwhile
    checked,    \* history: the nodes a task was spawned for in this run
    cuts,       \* history: the last login_time of each full page of this run
    events      \* the changes and failures there have been

job  == <<earliest, page, len, pc>>
vars == <<nodes, job, probes, steady, checked, cuts, events>>

(* Mutant of Living: login_time.ge. *)
LivingSince(t) ==
    {n \in Node : /\ nodes[n].status = ONLINE /\ nodes[n].lived
                  /\ nodes[n].login_time >= t}

Living(t) ==
    {n \in Node : /\ nodes[n].status = ONLINE /\ nodes[n].lived
                  /\ nodes[n].login_time > t}

(* Mutant of query_living_nodes_by_login_time: without the order. *)
AnyLivingNodes(size, t) ==
    {P \in SUBSET Living(t) :
        Cardinality(P) <= size /\ (P = Living(t) \/ Cardinality(P) = size)}

(* ORDER BY login_time LIMIT size: nodes that logged in at the same time   *)
(* come in any order.                                                      *)
query_living_nodes_by_login_time(size, t) ==
    {P \in SUBSET Living(t) :
        /\ Cardinality(P) <= size
        /\ P = Living(t) \/ Cardinality(P) = size
        /\ \A n \in P, m \in Living(t) \ P :
              nodes[n].login_time <= nodes[m].login_time}

Init ==
    /\ nodes \in Initial
    /\ earliest = 0 /\ page = {} /\ len = 0 /\ pc = "idle"
    /\ probes = {}
    /\ steady = {} /\ checked = {} /\ cuts = {}
    /\ events = 0

---------------------------------------------------------------------------
(* The interval is long enough for the tasks of the last run to time out.  *)
BeginRun ==
    /\ pc = "idle" /\ probes = {}
    /\ pc' = "query" /\ earliest' = 0
    /\ steady' = Living(0) /\ checked' = {} /\ cuts' = {}
    /\ UNCHANGED <<nodes, page, len, probes, events>>

QueryPage ==
    /\ pc = "query" /\ Timestampdiff
    /\ \E P \in query_living_nodes_by_login_time(PageSize, earliest) :
          /\ P # {}
          /\ \E n \in P :
                /\ \A m \in P : nodes[m].login_time <= nodes[n].login_time
                /\ earliest' = nodes[n].login_time
          /\ page' = {[node_id |-> n, login_time |-> nodes[n].login_time] : n \in P}
          /\ len' = Cardinality(P)
          /\ cuts' = cuts \cup IF Cardinality(P) = PageSize THEN {earliest'} ELSE {}
    /\ pc' = "page"
    /\ UNCHANGED <<nodes, probes, steady, checked, events>>

(* Mutant of NoPage: continue in place of break. *)
NoPageGoesOn ==
    /\ pc = "query"
    /\ Timestampdiff => Living(earliest) = {}
    /\ UNCHANGED vars

(* break: there are no more nodes, or the query is an error. *)
NoPage ==
    /\ pc = "query"
    /\ Timestampdiff => Living(earliest) = {}
    /\ pc' = "idle"
    /\ UNCHANGED <<nodes, earliest, page, len, probes, steady, checked, cuts, events>>

(* The next node of the page, when the semaphore has a permit. *)
SpawnNext ==
    /\ pc = "page"
    /\ Cardinality(probes) < Permits
    /\ \E e \in page :
          /\ \A f \in page : e.login_time <= f.login_time
          /\ page' = page \ {e}
          /\ probes' = probes \cup {e}
          /\ checked' = checked \cup {e.node_id}
    /\ UNCHANGED <<nodes, earliest, len, pc, steady, cuts, events>>

EndPage ==
    /\ pc = "page" /\ page = {}
    /\ pc' = IF len < PageSize THEN "idle" ELSE "query"
    /\ UNCHANGED <<nodes, earliest, page, len, probes, steady, checked, cuts, events>>

(* Mutant of ProbeEnds: a status the table does not have. *)
ProbeClears(e) ==
    /\ probes' = probes \ {e}
    /\ \/ UNCHANGED nodes
       \/ nodes' = Update(nodes, LAMBDA k : k = e.node_id,
                          LAMBDA r : [r EXCEPT !.status = "unhealthy"])
    /\ UNCHANGED <<job, steady, checked, cuts, events>>

(* The answer is a success or does not come (or unavail_node fails), or it *)
(* is an error; the status the node has by now is not looked at.           *)
ProbeEnds(e) ==
    /\ probes' = probes \ {e}
    /\ \/ UNCHANGED nodes
       \/ nodes' = unavail_node(nodes, e.node_id)
    /\ UNCHANGED <<job, steady, checked, cuts, events>>

---------------------------------------------------------------------------
(* NewProxy, CloseProxy, the expiry job or a health report write the       *)
(* status of n, whatever it has become since they read the row.  A node    *)
(* that NewProxy opens has the last login_time of its device, which other  *)
(* nodes of the device may have too; opening it twice changes nothing.     *)
StatusChanges(n) ==
    /\ events < MaxEvents /\ events' = events + 1
    /\ \/ /\ nodes[n].status # ONLINE
          /\ \E t \in Login, l \in BOOLEAN :
                nodes' = [nodes EXCEPT ![n] =
                             [status |-> ONLINE, login_time |-> t, lived |-> l]]
       \/ \E s \in {ONLINE, OFFLINE, UNAVAIL} \ {nodes[n].status} :
             nodes' = [nodes EXCEPT ![n].status = s]
    /\ steady' = steady \ {n}
    /\ UNCHANGED <<job, probes, checked, cuts>>

(* Ping *)
Ping(n) ==
    /\ events < MaxEvents /\ events' = events + 1
    /\ nodes[n].status # OFFLINE /\ ~nodes[n].lived
    /\ nodes' = [nodes EXCEPT ![n].lived = TRUE]
    /\ UNCHANGED <<job, probes, steady, checked, cuts>>

(* There is no connection: break.  This run leaves the rest to the next.   *)
QueryFails ==
    /\ pc = "query"
    /\ events < MaxEvents /\ events' = events + 1
    /\ pc' = "idle"
    /\ steady' = {}
    /\ UNCHANGED <<nodes, earliest, page, len, probes, checked, cuts>>

JobStep == QueryPage \/ NoPage \/ SpawnNext \/ EndPage

Next ==
    \/ BeginRun \/ JobStep \/ QueryFails
    \/ \E e \in probes : ProbeEnds(e)
    \/ \E n \in Node : StatusChanges(n) \/ Ping(n)

Spec == Init /\ [][Next]_vars

(* The runtime schedules the job, and a task ends: its request times out.  *)
FairSpec ==
    /\ Spec
    /\ WF_vars(JobStep)
    /\ WF_vars(\E e \in probes : ProbeEnds(e))

---------------------------------------------------------------------------
TypeOK ==
    /\ nodes \in [Node -> StatusRow]
    /\ earliest \in Login \cup {0} /\ len \in 0..PageSize
    /\ page \subseteq LivingNode /\ probes \subseteq LivingNode
    /\ pc \in {"idle", "query", "page"}
    /\ page # {} => pc = "page"
    /\ steady \subseteq Node /\ checked \subseteq Node
    /\ cuts \subseteq Login /\ events \in 0..MaxEvents

(* "Cronjob for checking nodes health": when a run is over, every node     *)
(* that was online when it began and whose status nobody wrote since has   *)
(* been checked, but for nodes that logged in in the same second as the    *)
(* last one of a full page.                                                *)
EveryoneIsChecked ==
    pc = "idle" => \A n \in steady \ checked : nodes[n].login_time \in cuts

(* A node whose status nobody wrote is not asked twice in a run.           *)
NobodyIsAskedTwice ==
    \A e \in page : e.node_id \in steady => e.node_id \notin checked

(* A run ends, however many nodes log in at the same time.                 *)
RunsEnd == pc # "idle" ~> pc = "idle"
=============================================================================
