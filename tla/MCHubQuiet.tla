----------------------------- MODULE MCHubQuiet -----------------------------
(* Requests about the same node do not overlap, and each proxy is opened   *)
(* and closed by the device of its node.  Node 1 and 2 start in dom1; they *)
(* may be closed, reported unhealthy or expire, and a PUT may change their *)
(* weights, list two nodes, or ask for another domain.                     *)
EXTENDS MCHub

QuietInitial == {Running({1, 2}, <<2, 1>>)}

QuietRequests ==
    NewProxies({1, 2}, OneDevice, {frps1})
    \cup CloseProxies({1, 2}, OneDevice, {frps1})
    \cup Reports({1}, BOOLEAN)
    \cup Puts(Singles({2}, {dom1}, MCWeight)
              \cup {<<WeightItem(1, dom2, 1)>>,
                    <<WeightItem(1, dom1, 1), WeightItem(2, dom1, 2)>>})
    \cup Deletes({<<WeightItem(1, dom1, 0)>>,
                  <<WeightItem(1, dom1, 0), WeightItem(2, dom1, 0)>>})
=============================================================================
