------------------------------ MODULE CronJobs ------------------------------
(***************************************************************************)
(* Two of the cronjobs of main.rs: close_expired_nodes and                 *)
(* cross_compare_domain_nodes.  Each is run over and over by one task, so  *)
(* runs of the same job do not overlap; with --cluster the lock of the job *)
(* is taken to keep the instances apart.                                   *)
(***************************************************************************)
EXTENDS HubState

UnavailExpired ==
    /\ "expiry" \in Jobs
    /\ sweep = "unavail_expired_nodes"
    /\ nodes' = unavail_expired_nodes(nodes)
    /\ sweep' = "close_expired_nodes"
    /\ UNCHANGED <<devices, members, redis, task, pass, env>>

CloseExpired ==
    /\ "expiry" \in Jobs
    /\ sweep = "close_expired_nodes"
    /\ nodes' = close_expired_nodes(nodes)
    /\ sweep' = "unavail_expired_nodes"
    /\ UNCHANGED <<devices, members, redis, task, pass, env>>

(* A statement that fails is logged, and the job goes on. *)
SweepFails ==
    /\ "expiry" \in Jobs
    /\ faults < MaxFaults
    /\ faults' = faults + 1
    /\ sweep' = IF sweep = "unavail_expired_nodes" THEN "close_expired_nodes"
                                                  ELSE "unavail_expired_nodes"
    /\ UNCHANGED <<db, redis, task, pass, requests>>

---------------------------------------------------------------------------
(* The members of the two lists of which the other list has no equal pair. *)
Missing(rows, seen) ==
    {n \in DOMAIN rows : n \notin DOMAIN seen \/ WeightOf(seen, n) # rows[n]}
(* Mutant of Extra: only nodes that have a row are taken out. *)
ExtraReweighted(rows, seen) ==
    {n \in DOMAIN seen \cap DOMAIN rows : WeightOf(seen, n) # rows[n]}
Extra(rows, seen) ==
    {n \in DOMAIN seen : n \notin DOMAIN rows \/ WeightOf(seen, n) # rows[n]}

BeginPass ==
    /\ "compare" \in Jobs
    /\ pass = NoPass
    /\ Overlap \/ \A s \in Slot : task[s] = Idle
    /\ members # Empty
    /\ pass' = [NoPass EXCEPT !.pc = "next",
                              !.domains = get_distinct_domains(members)]
    /\ UNCHANGED <<db, redis, task, sweep, env>>

(* The next domain's members that are online ... *)
ReadRows ==
    /\ pass.pc = "next"
    /\ \E d \in pass.domains :
          pass' = [pass EXCEPT !.pc = "get_domain_nodes",
                      !.domains = @ \ {d}, !.domain = d,
                      !.rows = get_nodes_by_domain(members, nodes, d)]
    /\ UNCHANGED <<db, redis, task, sweep, env>>

(* ... and those redis has. *)
ReadRedis ==
    LET seen == zset[pass.domain]
    IN  /\ pass.pc = "get_domain_nodes"
        /\ pass' = [pass EXCEPT !.pc = "repair", !.seen = seen,
                       !.missing = Missing(pass.rows, seen),
                       !.extra = Extra(pass.rows, seen)]
        /\ UNCHANGED <<db, redis, task, sweep, env>>

JoinMissing ==
    /\ pass.pc = "repair"
    /\ \E n \in pass.missing :
          /\ zset' = [zset EXCEPT ![pass.domain] = NodesJoin(@, n, pass.rows[n])]
          /\ pass' = [pass EXCEPT !.missing = @ \ {n}]
    /\ UNCHANGED <<db, route, task, sweep, env>>

(* In the order of the ranks, with the weights redis had. *)
LeaveExtra ==
    /\ pass.pc = "repair"
    /\ pass.missing = {}
    /\ \E n \in pass.extra :
          /\ pass.extra \cap Before(pass.seen, n) = {}
          /\ zset' = [zset EXCEPT ![pass.domain] =
                         NodeLefts(@, n, WeightOf(pass.seen, n))]
          /\ pass' = [pass EXCEPT !.extra = @ \ {n}]
    /\ UNCHANGED <<db, route, task, sweep, env>>

EndDomain ==
    /\ pass.pc = "repair"
    /\ pass.missing = {} /\ pass.extra = {}
    /\ pass' = IF pass.domains = {}
               THEN NoPass
               ELSE [NoPass EXCEPT !.pc = "next", !.domains = pass.domains]
    /\ UNCHANGED <<db, redis, task, sweep, env>>

(* A repair that fails is logged, and the pass goes on. *)
RepairFails ==
    /\ pass.pc = "repair"
    /\ faults < MaxFaults
    /\ faults' = faults + 1
    /\ \/ \E n \in pass.missing : pass' = [pass EXCEPT !.missing = @ \ {n}]
       \/ /\ pass.missing = {}
          /\ \E n \in pass.extra :
                /\ pass.extra \cap Before(pass.seen, n) = {}
                /\ pass' = [pass EXCEPT !.extra = @ \ {n}]
    /\ UNCHANGED <<db, redis, task, sweep, requests>>

(* A read of the pass fails and its unwrap panics, the one of the domains  *)
(* to begin with: the job does not run again until the process restarts.   *)
PassPanics ==
    /\ "compare" \in Jobs
    /\ pass.pc \in {"idle", "next", "get_domain_nodes"}
    /\ faults < MaxFaults
    /\ faults' = faults + 1
    /\ pass' = [NoPass EXCEPT !.pc = "panicked"]
    /\ UNCHANGED <<db, redis, task, sweep, requests>>

SweepStep == UnavailExpired \/ CloseExpired
PassStep  == BeginPass \/ ReadRows \/ ReadRedis \/ JoinMissing \/ LeaveExtra
             \/ EndDomain
=============================================================================
