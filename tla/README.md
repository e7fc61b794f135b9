# A TLA+ model of gaia-hub

gaia-hub keeps track of the nodes of a network of frp clients. frp servers
(frps) call it through their plugin hook when a client logs in, opens or closes
a proxy, or pings; the nodes report their health to it; an administrator puts
nodes into domains with a weight. What it knows it keeps in a SQLite database,
and in redis it keeps, for whoever routes requests, one weighted list of nodes
per domain and the frps each subdomain is reached through. Database and redis
are written by separate calls, by handlers that interleave, and cronjobs repair
what came apart.

The modules here model that: the redis lists down to single commands, the
handlers and the cronjobs down to single calls of `db.rs` and `redis.rs`.
`PROJECT.json` maps every definition to the lines it stands for; source paths
below are relative to `src/src/`.

## Inventory

| Part | Source | State | Operations |
|---|---|---|---|
| Weighted node lists | `redis.rs` | a sorted set per domain; the score of a member is the sum of its weight and the weights before it | `nodes_join`, `nodes_upjoin`, `node_lefts`, `get_domain_nodes` |
| Subdomain mapping | `redis.rs` | one key per subdomain | `set_subdomain_frps_id`, `del_subdomain` |
| frps events | `frps.rs` | none of its own | Login, NewProxy, CloseProxy, Ping |
| Health reports | `node_services.rs` | none | node-health, node-info |
| Domain membership | `domain_nodes.rs` | none | PUT, DELETE, GET /domain_nodes |
| Database | `db.rs`, `migrations/init.sql` | `devices`, `node_status`, `domain_nodes`; no foreign keys, UNIQUE keys on the ids | one statement per function, `delete_domain_node` two |
| Expiry job | `main.rs` | none | `close_expired_nodes`: two UPDATEs every NODE_LIVING_DURATION |
| Cross comparison job | `main.rs` | the lists it has read | `cross_compare_domain_nodes`: per domain read the database, read redis, join what is missing, remove what is extra |
| Health check job | `main.rs`, `db.rs` | cursor, page, semaphore, running tasks | `check_nodes_health` |
| Scheduler | `main.rs` | a redis lock per job with `--cluster` | `cronjob` |
| Connection pool | `db.rs` | a mutex around the pool | `establish_connection` |
| Listings | `frps.rs`, `db.rs` | none | `query_nodes_by_parameters`, `query_living_nodes` |
| HTTP, logging, arguments | `main.rs`, `logging.rs`, `args.rs` | none | routing |

How they interact. A handler is called over HTTP and calls `db.rs` and
`redis.rs` one after the other; it holds no lock and no transaction across two
calls. Handlers and cronjobs meet only in the database and in redis. No answer
of a redis call is stored in the database, and no redis failure undoes a
database write.

What is hard here, and what makes each part correct:

- *Lists.* A list stores sums, so an operation on one node rewrites the scores
  of all that follow it, between commands of other callers. Correct: the list
  stands for a map of weights, each operation changes one node's weight
  (`ImplementsWeights`) and no node's rank (`RankOrderKept`), no two members
  share a score (`ScoresCumulative`), and a call takes effect at once whatever
  comes between its commands (`CallsAreAtomic`) and ends (`CallsReturn`).
- *Database against redis.* Correct: redis lists only members of the domain,
  with the weight of their row (`RedisAgrees`), a handler changes the weight of
  nobody but its node (`DomainsImplementWeights`), a pass leaves a list as it
  has read the rows (`PassSynchronises`), and in the end the lists are
  the online members (`Converges`), also when requests overlap, calls fail or a
  process dies (`Recovers`, which has a condition, see finding 1), and a node
  nobody hears of any more is in no list (`SilentNodesLeave`).
- *References.* The three tables and the lists name each other's rows without
  foreign keys. Correct, under every interleaving and failure: what is named
  exists (`ReferencesHold`).
- *Node status.* It is read, decided on and written in separate calls by
  NewProxy, CloseProxy, the health report, Ping and the expiry job. Correct: a
  node that is not offline has a mapping (`OpenNodesAreRouted`), and what the
  comments promise (the claims among the findings below).
- *Cluster lock.* The lock is set with an expiry and never released. Correct:
  an instance begins while another one works only when that has taken
  lock_duration, so never if the job is shorter (`NoDuplicateWork`), a job
  begins at most once in lock_duration (`StartsAreSpaced`), and instances that
  die or lose an answer do not keep it from running for long, if the work itself
  does not outlast the lock (`RunsInTime`).
- *Health check.* It walks through the online nodes by `login_time`, a page at
  a time, while their rows change. Correct: a run reaches every node
  (`EveryoneIsChecked`) once (`NobodyIsAskedTwice`), and ends (`RunsEnd`).

`PROJECT.json` lists the hazards, each at its line, with the properties that
would catch it.

## Modules

```
ZSet ----------- DomainZSet ---- DomainZSetProofs     DomainWeights
  |  \               (implements) --------------------------^
  |   ZSetLemmas ---/                                       |
  |                                                         |
  +-- ZSetTxn ---- ZSetTxnProofs                            |
  |                                                         |
  +-- HubState -- FrpsEvents --+                            |
Tables --/    \-- NodeHealth --+                            |
               \- DomainNodes -+-- Hub (implements, per domain)
                \ CronJobs ----+    |
                                    HubProofs --- HubQuietProofs --- HubListsProofs

CronLock ------- CronLockProofs

Tables ---- HealthCheck ---- HealthCheckProofs
```

- **ZSet**: sorted sets as functions from members to scores, and the functions
  of `redis.rs` as operators on them. Members are naturals because redis breaks
  ties by the member's order. `Weights` is `get_domain_nodes`.
- **DomainWeights**: the abstract specification of a domain: a map from nodes
  to weights; a step sets one node's weight or removes one node.
- **DomainZSet**: the sorted set changed by calls made as their callers mean
  them (join a node that is not there, leave with the weight it has). It
  implements DomainWeights with `weights <- Weights(zset)`.
- **ZSetLemmas**, **DomainZSetProofs**: the proofs about these.
- **ZSetTxn**: the same functions as what they are, loops of
  `redis::transaction`. A step is one command: WATCH, ZRANK, ZRANGE or
  MULTI/EXEC. `dirty[c]` is redis' flag that the key watched by `c` changed;
  any caller's write sets it for all who watch. **ZSetTxnProofs**: its proofs.
- **Tables**: the tables as functions from key to row, and each statement of
  `db.rs` that changes a row as an operator with the function's name.
- **HubState**: the shared variables, and the handlers as records. `task[s]` is
  the handler in slot `s`: its operation `op`, the call that comes next `pc`,
  what its request carried, and `todo`, the nodes it still has to deal with.
  Begin, Abort (a call fails), Restart (the process dies and comes back), Ages
  (a node's times become too old). Two calls of NewProxy and CloseProxy may fail
  without ending the handler: MappingFails and CreateFails of FrpsEvents.
- **FrpsEvents**, **NodeHealth**, **DomainNodes**, **CronJobs**: one action per
  call of `db.rs` or `redis.rs`. `pc` carries the name of the function.
- **Hub**: all of them together, the specification and the properties.
- **HubProofs**: that the hub keeps its types and its references.
  **HubQuietProofs**: that open nodes have a mapping, while proxy events and
  health reports about one node come one after the other, as they do with
  `Overlap = FALSE`. **HubListsProofs**: that redis has what the database
  says while a node is dealt with by one request or pass at a time, and what a
  pass repairs where it was not.
- **CronLock**, **CronLockProofs**: function `cronjob` with `--cluster`, on
  several instances, with a clock of ticks; `job` holds its two arguments. It
  stands alone: what the jobs do is in CronJobs, where one pass runs at a time.
- **HealthCheck**, **HealthCheckProofs**: `check_nodes_health`. `earliest` is
  `earliest_login_time`, `page` the nodes of the page still to be spawned,
  `probes` the spawned tasks, each of which holds a permit. It stands alone
  because it goes by `login_time`, which nothing else in the hub reads; what
  the handlers do to a row is `StatusChanges` and `Ping`. `Timestampdiff` says
  whether the database has that function.
- **MC...**: the instances TLC runs.

One call of `db.rs` is one step because it is one SQLite statement.
`delete_domain_node`, which is a query and a DELETE, is two. One call of
`redis.rs` is one step in Hub; what ZSetTxn shows is that this is right except
for one path, the early `return Ok(..)` of `nodes_upjoin` (`redis.rs:74`), which
answers from reads that no EXEC confirms (`StaleShortcut` in that module). If a
member leaves between ZRANK and ZRANGE the reply may also be too short for
`get(0).unwrap()` (`redis.rs:66`): the task panics (`ZrangeUnwrapPanics`), for
the hub one more call that fails.

### What is abstracted

- A node has one subdomain, and the model writes the node for it. `node_id`
  and `subdomain` are both taken from the request and not compared with the
  row, so two nodes that use one subdomain are outside the model.
- A time is "fresh" or "stale": at most NODE_LIVING_DURATION old, or older.
  That is all the code asks of `last_active_time` and `last_avail_time`, apart
  from the health check job. `avail = "null"` is an SQL NULL.
- Versions, addresses, `meta`, `run_id` and the columns node-info writes
  describe a node and are left out, and so is `login_time` except in
  HealthCheck; `update_device` thus does nothing.
- In HealthCheck a time is a small number of seconds, and `lived` is what the
  query computes with TIMESTAMPDIFF. What a task gets for an answer is a choice.
  A run begins when the tasks of the last one are over: their requests time out
  after 5 s, the interval is 60 s.
- Weights are positive (`WeightAssumption`, `StoreAssumption`). The code does
  not check that; what 0 or less does to a list is left to a later run.
- Logging, HTTP, JSON and the answers are left out, but for the requests they
  end.

## Runs

| Run | Shows |
|---|---|
| `domain_zset` | TypeOK, ScoresCumulative, RankOrderKept and ImplementsWeights of DomainZSet |
| `zset_txn` | two callers on one list, 3 calls: each call takes effect at one step (`CallsAreAtomic`, with its named exception) and, if its caller goes on, returns |
| `hub_quiet` | RedisAgrees, DomainsImplementWeights, PassSynchronises, OpenNodesAreRouted, Converges and SilentNodesLeave while requests about one node come one after the other |
| `hub_overlap` | TypeOK and ReferencesHold, everything overlapping, with one failure |
| `hub_recovers` | Recovers: overlap, a failure or a restart, about the last node of a list |
| `health_check` | EveryoneIsChecked, NobodyIsAskedTwice and RunsEnd of HealthCheck, where the query works |
| `cron_lock` | NoDuplicateWork, StartsAreSpaced and RunsInTime of CronLock |
| `hub_repair` | finding 1: the passes never repair the weight of a node that is not last |
| `hub_mapping` | finding 2: a late CloseProxy removes the new mapping |
| `hub_put_offline` | finding 3: PUT puts a closed node into redis |
| `hub_reopened` | finding 4: a late health report reopens a closed node |
| `health_sqlite` | finding 5: on SQLite the health check checks nobody |

Conditions. `RedisAgrees`, `DomainsImplementWeights`, `PassSynchronises`,
`Converges` and `OpenNodesAreRouted` are checked with `Overlap = FALSE` and
`MaxFaults = 0`: two requests about the same node do not overlap, no request runs
during a pass and no call fails.
All but `Converges` are proved from weaker conditions, which say what matters in
each case (below, under Proofs). The code does not enforce them. frps sends
the events of one proxy in sequence, but a PUT or a pass (one a minute) may well
overlap them; then the first three do not hold (a
node joined twice, or removed with a weight it no longer has), and only the
next passes repair it, which is what `Recovers` is about. Even under the
condition they are not obvious: requests about different nodes interleave in one
list, and a handler's row is read several calls before it is used. The runs of
`PassSynchronises` meet no node whose weight differs in redis; what passes do to
such nodes is proved (`RepairsMend`, `TwoPassesMend`). `OpenNodesAreRouted` also needs that the
device that closes a proxy is the one that opened it, and that frps names
itself in the request (`task.frps # NoFrps`).

`Recovers` is claimed for `Overlap = TRUE`, for the domains that have a row, and
as long as the comparison job is there. `hub_recovers` and `hub_repair` check
the same property on the two sides of its condition: in the first the requests
are about the node that is last in its list, in the second about the one before
it. The exact condition on the list (`Mendable`) is in the proofs. A list whose domain has lost its last row is not in `get_distinct_domains`;
if a NewProxy that read the row before a DELETE calls `nodes_upjoin` after it,
the node stays in that list, which is why such domains are left out. A pass
whose read fails panics, and its job is gone until the process restarts; for
that reason `hub_recovers` does not check deadlock.

`SilentNodesLeave` covers the gap between the two statements of the expiry job:
`unavail_expired_nodes` may make a node unavailable one statement before
`close_expired_nodes`, which then skips it although `db.rs:327` speaks of every
row. The node keeps its status, but the next pass takes it out of redis.

`EveryoneIsChecked` names what the paging misses: nodes with the `login_time` of
the last node of a full page. `login_time` is the device's, so nodes of one
device share it, and more of them than fit on the rest of the page are not
checked. A run that a failing connection ends is not held to it.

Bounds. Two slots: every interaction above is between two actors, and a pass
and the expiry job run besides. Three or four requests: what goes wrong needs
one request to set up a state and two to meet in it. Two nodes are needed for
followers in a list, three to have one before and one after (DomainZSet);
weights 1 and 2 tell a node's weight from its follower's. `hub_overlap` has
one node and one failure, since the references of different nodes do not meet.
`MaxRequests`, `MaxFaults` and `MaxOps` are the only cuts, and each is a
conjunct of the action it bounds. The ZSetTxn runs stop when MaxOps calls
are made, so deadlock is not checked there; in the hub the expiry job always
has a next statement. `hub_recovers` has two nodes, three requests about one of them and
one failure: one request to change the list, two to overlap, one call that
fails half way. Its requests are not about the first node: a weight that is then
wrong in the middle of the list is moved on by every pass, the scores rise without
bound in most instances, and TLC has no end of states (`hub_repair` is an instance
where they do not). What is not checked for that reason is a DELETE that gives
back a weight a PUT has just changed (`db.rs:493`) while a node follows.
`health_check` has four nodes and pages of two, hence two full
pages, the last of them perhaps cut within equal times; three values of
`login_time` for ties before, at and after the cut; two permits, so that a task
may outlive its page; and two events (`MaxEvents`), enough for a node to close
and to come back elsewhere in the order. Between two steps of the job any status
may be written over any other, as by handlers that decided on an old row.

CronLock runs with three instances (one that works, one that waits, one that
comes late), four failures, so that all three may be gone and one is started
again, and a lock of one interval, as the expiry and the
comparison job have it, or longer, as the health check has it. The work of one of
the jobs takes longer than two of its locks. Ticks are a
fraction of the real intervals; what matters is the order of the sleeps, the
work and the expiry, and all of it occurs with 2 to 5 ticks. `RunsInTime` is
tight: with one tick less it is violated. `MaxAge` is above every bound it
compares.

Fairness. Weak fairness of each running handler, of the expiry job and of the
comparison job, in HealthCheck of the job and of the tasks it spawned (their
requests time out): each is a tokio task, and the runtime polls every task that
can go on. None on requests, ageing or failures. In ZSetTxn, weak fairness per
caller; that calls return then follows because a failed EXEC means that another
call succeeded, and calls are finitely many.

Mutants. For every property of a passing run PROJECT.json names a bug the code
might have had (redis not told of a new weight, the score and the member
swapped, ranks counted from one, a status check forgotten) under which TLC
finds that property violated.

## Findings

1. `main.rs:163`: "not found in redis" is also said of a node redis has with
   another weight. It is joined a second time, at the end, which leaves its gap
   to its follower, and is then removed with its old weight. In the next pass
   the follower's weight is wrong, and with two nodes the wrong weight goes
   round for ever, as the run shows. Two passes repair the list if all that rank
   behind the node are to be removed as well and nobody else is missing from it
   (a node that is missing is joined behind and becomes such a follower), which
   `RepairsMend` and `TwoPassesMend` prove. One redis call
   that fails after `update_domain_node` is enough to get there, and sending the
   PUT again does not help, since its weight is the one in the database.
2. `frps.rs:225`: `del_subdomain` does not look at the frps the mapping names. A
   CloseProxy of the old frps that comes after the NewProxy of the new one
   removes the new mapping.
3. `domain_nodes.rs:88`: "Only online nodes can be added to domain"
   (`domain_nodes.rs:100`) does not hold for a node that has a row already.
4. `node_services.rs:53`: the report decides on a row read earlier and writes
   ONLINE without a condition, over a CloseProxy that came between.
5. `db.rs:538`: the health check's query uses TIMESTAMPDIFF, which SQLite does
   not have, and its error ends the loop without a word.

What `health_check` shows is thus what the job does once that query is replaced
by one SQLite understands, or on a database that knows the function.

## Proofs

Of DomainZSet, for any finite set of naturals as nodes and any positive
weights (`NodeAssumption`, `WeightAssumption`): `TypeCorrect`,
`ScoresStayCumulative`, `RankOrderIsKept` and `WeightsImplemented`, the
refinement of DomainWeights. The inductive invariant is

    IInv == FiniteZSet(zset) /\ TypeOK /\ ScoresCumulative

ScoresCumulative alone is not inductive: the score a node is appended on, and
the score before a member, are maxima, which exist because the list is finite.
The argument, in ZSetLemmas: `HighestExists` (a finite nonempty list has a
highest member, by well-founded order of finite sets), `TopScoreIsHighest`,
`FloorGivesWeight` (the weight of a member is its score less any number that is
the top of those before it), `RankIsScoreOrder` (without equal scores redis'
tie-break never matters), then one lemma per function: `NodesJoinAppends`,
`NodesUpjoinMoves`, `NodeLeftsRemoves`, each saying what becomes of the scores,
the order and the weights. DomainZSetProofs has one lemma per action on them.

Of Hub, for any number of handlers at once, any requests, stores, weights and
bounds (`StoreAssumption`, `RequestAssumption`, `InitialAssumption`), with
requests that overlap or not and with failures and restarts: `TypesAreKept`
and `ReferencesAreKept`. References alone are not inductive, since a handler
writes several calls after it looked. HubProofs' `IInv` adds what a handler
knows at each call (`DeviceSeen`, `NodeSeen`), that a running handler has a node
at hand, that a PUT names domains and weights, and that the rows a pass has
read are of known nodes. What makes it inductive is `Grows`: no statement
deletes a device or a node, so what was seen stays. The lemmas are: what a
statement or a call does to the stores (`UpdatesChangeRows`,
`CallsChangeLists`), what a step does to its handler (`GotoKeeps`,
`NextItemKeeps`, `GotoWithKeeps`, `DoneKeeps`), then one lemma per handler and
job with one step per action.

What the theorem says of the code: were a statement added that deletes a node
or a device, `ReferencesHold` would need something new.

Also of Hub, `OpenNodesStayRouted`. Its conditions are about the actors, not
about `Overlap`: requests that map, open or close a node come one after the
other for each node (`Apart(RouteOps)`; PUT, DELETE, Ping, Login and the passes
may overlap them and each other), the proxies of a node are opened and closed by
one device over an frps that names itself, and of the failures only two are left
out (`MappingsStand`): a NewProxy goes on after its mapping failed, or a
CloseProxy dies between removing the mapping and closing the node. Each of these
does leave an open node without a mapping. The invariant `RInv` says that a
node's row names the device of its proxies (`Owned`), that a handler about to
open a node has mapped it or has seen it open (`RoutedBy`), and that a node that
is open without a mapping is about to be closed (`Routed`).

`RedisStaysAgreed` and `DomainsAreImplemented` need `NodesApart`, that a node is
dealt with by one at a time: by one PUT, DELETE, NewProxy or CloseProxy, or by the
pass that has read it. Health reports, Pings, the expiry job and requests about
nodes the pass has not read are free to overlap everything. Of the failures they leave out one
(`RedisIsTold`): a handler ends between changing a row and telling redis. The invariant `LInv` speaks of
the weights the lists stand for, not of scores: every list is cumulative, so that
UpjoinSets and LeftDrops reduce a call of redis.rs to one that sets or drops one
weight (by ZSetLemmas). It says of every node that it agrees (`Agrees`) unless a
handler has changed its row and is about to tell redis (`Tells`), of every
handler that what it has read or written of its node is still so when it uses it
(`Knows`), and the same of the pass (`PassKnows`). RedisAgrees is not inductive
without `Knows`: node_lefts and the repair of a pass take away a weight they were
told some calls ago. `PassesSynchronise` adds `PassMends`, that the list is what
the pass has read but for what is left to do; it needs that during a repair no
handler changes a list (`RequestsWait`) and no call of the repair fails.

`OpenNodesStayRoutedAlone` and `ListsStayAlone` say that with `Overlap = FALSE` and
no failures, as in the run `hub_quiet`, these conditions are met, for any number
of slots, nodes, domains and requests. `Overlap` is of the model: the code has no
such guard, and the two theorems tie the run to the theorems before them.

`RepairsMend` has no condition on the past: requests may have overlapped, calls
failed and processes died, and the list may have any scores a cumulative list can
have. It says what a pass makes of such a list if it is left alone (`LeftAlone`:
no one else writes the list during the repair and no call of the repair fails).
If no weight is wrong (`Reweighted` is empty), the list is the rows afterwards.
If some are, and from the first of them on (`Rear`) there is nobody to keep and
nobody else is missing, the list is the rows without these nodes.

`TwoPassesMend` goes on from the end of such a repair, made from the rows that are
still in the database: as long as the domain's online rows stand, only passes
change its list and no repair of it fails (`Undisturbed`), the next pass over the
domain, which joins the nodes that were left out, ends with the list in line with
the database, and it stays in line. Requests about other domains, restarts,
panics and further passes may come between. The invariant is `Settled`: the list
is a part of the rows with the right weights, so that a pass that reads it finds
nothing to remove and joins only nodes that are not there; `Looked` says that it
has found all of them. The two theorems are the half of `Recovers` that is safety;
that passes come and requests stop is the other.

 The invariant of `RepairsMend`, `Mending`, splits the list. The front is, but for what is
left to do, what it should be. The rear may have any scores, since its nodes are
joined a second time and taken out with weights they do not have there; what has
to be shown is that it stays behind the front, which is why the front is not
disturbed. It does since the nodes are taken out in the order of their ranks:
each lets the others down by no more than the room it had when the pass read
the list. The lemmas are JoinLeavesPart, LeftLeavesPart and LeftOfPart of
ZSetLemmas. The condition is needed: another node that is missing is joined
behind the wrong one and inherits its gap when that is taken out, so the next
pass finds a wrong weight and a missing node again. A list that is not cumulative
(scores that are equal or not positive, which removals with stale weights can
leave) is outside the theorem; that `Recovers` holds in such cases too is known
for the instance of `hub_recovers` only.

Of ZSetTxn, for any callers, weights and calls: `TypesAreKept` (with at least
one node) and `TransactionsAreAtomic`. The invariant says of every caller
(`Fresh`): as long as the key it watches is not dirty, the rank it has
read is its node's in the list as it is, and the commands it has queued do the
whole operation. The lemmas before it are about ranks: `RankIsOrder`,
`RanksAreHeld` (every rank below the size of a list is someone's),
`LastOfFirst` and `RangesFollow`, which together say what a ZRANGE by rank
returns.

Of CronLock, for any number of instances, any interval, lock_duration and number
of failures (`CronAssumption`): `StartsStaySpaced`, by the invariant
`LockIsNew` (the ticks since the work began and those the lock has left are at
least lock_duration); `WorkIsJoinedLate`, that an instance joins another one's
work only when that has taken lock_duration, by `LockOutlastsWork` (what a worker
has left to do is at most what the lock has left, and what the work takes beyond
a lock_duration), and from it `NobodyDuplicatesWork`, for jobs whose work is shorter than the
lock; and `RunsComeInTime`, for jobs that take no longer than the lock, by
`InTime` (an interval after the lock and the works there are, and at the end of
every sleep, the deadline has not passed).
The conditions are needed: the lock is not renewed, so a pass over the domains
that takes more than its 60 s is joined by that of another instance, and if every
instance is at work for longer than that, none begins.

Of HealthCheck, for any nodes, tables, page size and number of permits
(`CheckAssumption`), whatever other requests do meanwhile: `TypesAreKept`,
`NobodyGetsAskedTwice`, and, given `Timestampdiff`, `EveryoneGetsChecked`. The
invariant says where a node is that is still to be checked (`Remaining`: after
the cursor, in the page, or tied with the last node of a full page) and that the
cursor is past everything that was checked or is in the page (`CursorPast`).
`PageIsLiving` is the lemma about the query: LIMIT cuts only a full page, and no
node left out logged in before one that is in.

Only model-checked: liveness (`Converges`, `Recovers`, `SilentNodesLeave`,
`CallsReturn`, `RunsEnd`), which is beyond the prover, and what the code is
claimed to do and does not (the findings). Of `Recovers` and `Converges`, what
one pass does is proved (above); that passes come round is not.

## Not modelled

- *Connection pool.* `establish_connection` holds the pool's mutex while it
  waits for a connection. Each function of `db.rs` takes one connection and
  returns it, so callers only wait for each other. What the rest of the hub sees
  of it, a call that comes late or fails, is in the interleavings and faults.
- *Listings.* `query_nodes_by_parameters` and `query_living_nodes` read once and
  change nothing. The second uses TIMESTAMPDIFF as well.
- *node-info* writes three columns nothing else here reads, in one UPDATE.
- *Two nodes that use one subdomain*: `node_id` and `subdomain` of a request are
  taken as they come.
- *Weights of 0 and less*: members share scores or the sums do not rise, and no
  property of the lists holds.
- *A node that changes its device while unavail*: NewProxy does nothing then
  (`frps.rs:192`). The model has it; no property speaks of whose the node is.
- HTTP, logging, arguments.

## Plan

Everything above is done. What is left: an invariant of the lists for weights of
any sign.
