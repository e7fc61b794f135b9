--------------------------- MODULE MCHealthCheck ----------------------------
(* Pages of two: four nodes make two full pages, or one in the middle of   *)
(* nodes that logged in together.                                          *)
EXTENDS HealthCheck

FourNodes == 1..4
Logins == 1..3

(* Which node is which does not matter: they are numbered by their logins. *)
Opened ==
    {t \in [FourNodes -> [status : {ONLINE}, login_time : Logins, lived : {TRUE}]] :
        \A n \in 1..3 : t[n].login_time <= t[n + 1].login_time}
(* In one of the tables a node has just logged in. *)
Together == [n \in FourNodes |-> [status |-> ONLINE, login_time |-> 2, lived |-> TRUE]]
MCInitial == Opened \cup {[Together EXCEPT ![1].lived = FALSE]}
=============================================================================
