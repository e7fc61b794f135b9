------------------------------- MODULE MCHub --------------------------------
(* Small instances of the hub: two or three nodes, two devices, one or two *)
(* domains, one frps, weights 1 and 2.                                     *)
EXTENDS Hub

CONSTANTS dev1, dev2, s1, s2

dom1 == "dom1"
dom2 == "dom2"
frps1 == "frps_1"
MCNoDomain == "no domain"
MCNoFrps == "no frps"
MCFrps == {frps1}
MCWeight == {1, 2}
TwoNodes == {1, 2}
ThreeNodes == {1, 2, 3}
OneDevice == {dev1}
TwoDevices == {dev1, dev2}
OneDomain == {dom1}
TwoDomains == {dom1, dom2}
TwoSlots == {s1, s2}
OneSlot == {s1}
Expiry == {"expiry"}
Compare == {"compare"}
BothJobs == {"expiry", "compare"}

---------------------------------------------------------------------------
(* The requests. *)
Request(op, device, frps, healthy, todo) ==
    [op |-> op, pc |-> First[op], device |-> device, frps |-> frps,
     healthy |-> healthy, todo |-> todo]

NodeItem(n) == [node |-> n, domain |-> MCNoDomain, weight |-> 0]
WeightItem(n, d, w) == [node |-> n, domain |-> d, weight |-> w]

Logins(D) ==
    {Request("Login", d, frps1, FALSE, << >>) : d \in D}
NewProxies(N, D, F) ==
    {Request("NewProxy", d, f, FALSE, <<NodeItem(n)>>) :
        n \in N, d \in D, f \in F}
CloseProxies(N, D, F) ==
    {Request("CloseProxy", d, f, FALSE, <<NodeItem(n)>>) :
        n \in N, d \in D, f \in F}
Pings(D) ==
    {Request("Ping", d, frps1, FALSE, << >>) :
        d \in D}
Reports(N, H) ==
    {Request("NodeHealth", dev1, frps1, h, <<NodeItem(n)>>) :
        n \in N, h \in H}
Puts(L) == {Request("PUT", dev1, frps1, FALSE, l) : l \in L}
Deletes(L) == {Request("DELETE", dev1, frps1, FALSE, l) : l \in L}

Singles(N, D, W) == {<<WeightItem(n, d, w)>> : n \in N, d \in D, w \in W}

---------------------------------------------------------------------------
(* The stores to start from: empty, and those of a hub that has run.       *)
NothingYet ==
    [devices |-> {}, nodes |-> Empty, members |-> Empty,
     zset |-> [d \in Domain |-> EmptyZSet], route |-> Empty]

Row == [status |-> ONLINE, device |-> dev1, active |-> "fresh", avail |-> "null"]

(* Every node is online, and those of M are in dom1, with weights W. *)
Running(M, W) ==
    [devices |-> Device,
     nodes |-> [n \in Node |-> Row],
     members |-> [n \in M |-> [domain |-> dom1, weight |-> W[n]]],
     zset |-> [d \in Domain |->
                  IF d = dom1
                  THEN [n \in M |-> FoldSet(LAMBDA m, t : t + W[m], 0,
                                            {m \in M : m <= n})]
                  ELSE EmptyZSet],
     route |-> [n \in Node |-> frps1]]
=============================================================================
