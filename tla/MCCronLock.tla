----------------------------- MODULE MCCronLock -----------------------------
(* The expiry job and the comparison job have a lock of one interval; that *)
(* of the health check is longer.  The work of the second job may take     *)
(* longer than its lock: the lock expires twice while it goes on.          *)
EXTENDS CronLock

CONSTANTS i1, i2, i3
MCInstance == {i1, i2, i3}
MCSchedule == {[interval |-> 3, lock |-> 3, work |-> 2],
               [interval |-> 2, lock |-> 2, work |-> 5],
               [interval |-> 2, lock |-> 5, work |-> 4]}
=============================================================================
