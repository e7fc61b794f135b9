---------------------------- MODULE MCHubOverlap ----------------------------
(* Any two requests may overlap each other and the cronjobs, and one call  *)
(* may fail.  The stores start empty or in use.                            *)
EXTENDS MCHub

OverlapInitial == {NothingYet, Running({1}, <<2>>)}
OneNode == {1}

OverlapRequests ==
    Logins(OneDevice)
    \cup NewProxies({1}, OneDevice, {frps1})
    \cup CloseProxies({1}, OneDevice, {frps1, MCNoFrps})
    \cup Pings(OneDevice)
    \cup Reports({1}, BOOLEAN)
    \cup Puts(Singles({1}, {dom1}, MCWeight))
    \cup Deletes({<<WeightItem(1, dom1, 0)>>})
=============================================================================
