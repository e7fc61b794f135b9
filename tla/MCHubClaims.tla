---------------------------- MODULE MCHubClaims -----------------------------
(* One online node of dom1 with weight 2, for the runs that hold what the  *)
(* comments of the code say against what the code does.                    *)
EXTENDS MCHub

OneNode == {1}
ClaimsInitial == {Running({1}, <<2>>)}


(* The node moves from one frps to another. *)
frps2 == "frps_2"
TwoFrps == {frps1, frps2}
MappingRequests ==
    NewProxies({1}, OneDevice, {frps2}) \cup CloseProxies({1}, OneDevice, {frps1})

ClaimsRequests ==
    NewProxies({1}, OneDevice, {frps1})
    \cup CloseProxies({1}, OneDevice, {frps1})
    \cup Reports({1}, BOOLEAN)
    \cup Puts(Singles({1}, {dom1}, MCWeight))
=============================================================================
