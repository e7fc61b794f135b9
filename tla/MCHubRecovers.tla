---------------------------- MODULE MCHubRecovers ---------------------------
(* Two nodes of dom1.  The requests are about one of them: about the last  *)
(* of the list, with every overlap and a failure, or about the first.      *)
EXTENDS MCHub

RecoversInitial == {Running({1, 2}, <<2, 1>>)}

(* The other node is silent already, which no request or job looks at.     *)
LastInitial == {[i EXCEPT !.nodes[1].active = "stale"] : i \in RecoversInitial}

LastRequests ==
    NewProxies({2}, OneDevice, {frps1})
    \cup CloseProxies({2}, TwoDevices, {frps1})
    \cup Reports({2}, BOOLEAN)
    \cup Puts({<<WeightItem(2, dom1, 2)>>})
    \cup Deletes({<<WeightItem(2, dom1, 0)>>})

FirstRequests == Puts({<<WeightItem(1, dom1, 1)>>})
=============================================================================
