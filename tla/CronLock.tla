------------------------------ MODULE CronLock ------------------------------
(***************************************************************************)
(* One cronjob of main.rs on the instances of a cluster: function cronjob  *)
(* with --cluster.  Every instance tries to set the job's lock in redis    *)
(* (SET .. NX EX), works if it has set it, and sleeps in any case.  The    *)
(* lock is never released: it expires.                                     *)
(*                                                                         *)
(* Time passes in ticks.  A call of redis takes less than a tick; the work *)
(* takes any number of ticks up to job.work, which nothing in the code     *)
(* bounds.                                                                 *)
(***************************************************************************)
EXTENDS Integers

CONSTANTS
    Instance,
    Schedule,   \* the jobs: the arguments interval and lock_duration of
                \* cronjob, and the longest the work takes
    MaxFaults,  \* bound: the failures in all
    MaxAge      \* bound: no count goes on from there

ASSUME CronAssumption ==
    /\ Schedule \subseteq [interval : Nat \ {0}, lock : Nat \ {0}, work : Nat]
    /\ MaxFaults \in Nat /\ MaxAge \in Nat
    /\ \A j \in Schedule : j.lock <= MaxAge

VARIABLES
    job,        \* which job it is
    pc,         \* pc[i]: what instance i does next
    timer,      \* timer[i]: the ticks i sleeps, or works at most, still
    lock,       \* the ticks until the lock expires; 0: there is none
    age,        \* history: the ticks since the work last began
    delay,      \* history: those of them in which an instance was left
    faults      \* the failures there have been

hist == <<age, delay>>
vars == <<job, pc, timer, lock, hist, faults>>

(* Processes start at different times: the first attempt of an instance    *)
(* comes at any time.  The job has not run lately.                         *)
Init ==
    /\ job \in Schedule
    /\ pc = [i \in Instance |-> "sleep"]
    /\ timer \in [Instance -> 0..job.interval]
    /\ lock = 0
    /\ age = job.lock /\ delay = job.lock
    /\ faults = 0

(* tokio::time::sleep(interval) *)
Sleep(i) ==
    /\ pc' = [pc EXCEPT ![i] = "sleep"]
    /\ timer' = [timer EXCEPT ![i] = job.interval]

(* The instances on which the job is not gone. *)
Left == {i \in Instance : pc[i] # "panicked"}

Fault == faults < MaxFaults /\ faults' = faults + 1

Wake(i) ==
    /\ pc[i] = "sleep" /\ timer[i] = 0
    /\ pc' = [pc EXCEPT ![i] = "set"]
    /\ UNCHANGED <<job, timer, lock, hist, faults>>

(* Mutant of TakeLock: the work begins whatever the answer is. *)
TakeAnyLock(i) ==
    /\ pc[i] = "set"
    /\ lock' = IF lock = 0 THEN job.lock ELSE lock
    /\ age' = 0 /\ delay' = 0
    /\ pc' = [pc EXCEPT ![i] = "work"]
    /\ timer' = [timer EXCEPT ![i] = job.work]
    /\ UNCHANGED <<job, faults>>

(* Mutant of TakeLock: SET without EX. *)
TakeForever(i) ==
    /\ pc[i] = "set" /\ lock = 0
    /\ lock' = MaxAge + 1 /\ age' = 0 /\ delay' = 0
    /\ pc' = [pc EXCEPT ![i] = "work"]
    /\ timer' = [timer EXCEPT ![i] = job.work]
    /\ UNCHANGED <<job, faults>>

(* Mutant of TakeLock: interval and lock_duration change places. *)
TakeForInterval(i) ==
    /\ pc[i] = "set" /\ lock = 0
    /\ lock' = job.interval /\ age' = 0 /\ delay' = 0
    /\ pc' = [pc EXCEPT ![i] = "work"]
    /\ timer' = [timer EXCEPT ![i] = job.work]
    /\ UNCHANGED <<job, faults>>

(* There was no lock (the answer is nil): the work begins. *)
TakeLock(i) ==
    /\ pc[i] = "set" /\ lock = 0
    /\ lock' = job.lock /\ age' = 0 /\ delay' = 0
    /\ pc' = [pc EXCEPT ![i] = "work"]
    /\ timer' = [timer EXCEPT ![i] = job.work]
    /\ UNCHANGED <<job, faults>>

(* Mutant of LockTaken: SET without NX, which sets the lock again.  With   *)
(* GET the answer is still the old value.                                  *)
LockSetAgain(i) ==
    /\ pc[i] = "set"
    /\ lock > 0 /\ lock' = job.lock
    /\ Sleep(i)
    /\ UNCHANGED <<job, hist, faults>>

LockTaken(i) ==
    /\ pc[i] = "set"
    /\ lock > 0
    /\ Sleep(i)
    /\ UNCHANGED <<job, lock, hist, faults>>

EndWork(i) ==
    /\ pc[i] = "work"
    /\ Sleep(i)
    /\ UNCHANGED <<job, lock, hist, faults>>

(* The SET fails, perhaps with the lock set all the same. *)
SetFails(i) ==
    /\ pc[i] = "set"
    /\ Fault
    /\ \/ lock = 0 /\ lock' = job.lock
       \/ UNCHANGED lock
    /\ Sleep(i)
    /\ UNCHANGED <<job, hist>>

(* No connection to redis, or a panic of the work: the task of the job is  *)
(* gone.                                                                   *)
Panic(i) ==
    /\ pc[i] \in {"set", "work"}
    /\ Fault
    /\ pc' = [pc EXCEPT ![i] = "panicked"]
    /\ timer' = [timer EXCEPT ![i] = 0]
    /\ UNCHANGED <<job, lock, hist>>

(* The process dies and is started again. *)
Restart(i) ==
    /\ Fault
    /\ pc' = [pc EXCEPT ![i] = "set"]
    /\ timer' = [timer EXCEPT ![i] = 0]
    /\ UNCHANGED <<job, lock, hist>>

(* Nobody is in the middle of a call, and no sleep or work is over. *)
Tick ==
    /\ \A i \in Instance : pc[i] = "panicked" \/ (pc[i] # "set" /\ timer[i] > 0)
    /\ timer' = [i \in Instance |-> IF timer[i] > 0 THEN timer[i] - 1 ELSE 0]
    /\ lock' = IF lock > 0 THEN lock - 1 ELSE 0
    /\ age' = IF age < MaxAge THEN age + 1 ELSE age
    /\ delay' = IF delay < MaxAge /\ Left # {} THEN delay + 1 ELSE delay
    /\ UNCHANGED <<job, pc, faults>>

Next ==
    \/ \E i \in Instance :
          \/ Wake(i) \/ TakeLock(i) \/ LockTaken(i) \/ EndWork(i)
          \/ SetFails(i) \/ Panic(i) \/ Restart(i)
    \/ Tick

Spec == Init /\ [][Next]_vars

---------------------------------------------------------------------------
(* Counts stay in their ranges, and a key has no negative time to live. *)
TypeOK ==
    /\ job \in Schedule
    /\ pc \in [Instance -> {"sleep", "set", "work", "panicked"}]
    /\ timer \in [Instance -> Nat]
    /\ lock \in 0..job.lock /\ faults \in 0..MaxFaults
    /\ age \in 0..MaxAge /\ delay \in 0..MaxAge

Working == {i \in Instance : pc[i] = "work"}

(* "Use distributed redis lock to avoid duplicate work": an instance joins *)
(* another one's work only when that has taken lock_duration already.  So  *)
(* if the work takes less than its lock, no two instances work at the same *)
(* time; and if it takes longer, as many as there are locks in it do.      *)
NoDuplicateWork ==
    \A i, j \in Working :
        \/ i = j
        \/ timer[i] + job.lock <= timer[j]
        \/ timer[j] + job.lock <= timer[i]

(* "each attempt to acquire the lock will fail before the lock expires":   *)
(* whatever fails, and however long the work takes, it begins at most once *)
(* in lock_duration.                                                       *)
StartsAreSpaced ==
    [][\A i \in Instance : i \notin Working /\ i \in Working' => age >= job.lock]_vars

(* While an instance is left, the work begins again within an interval of  *)
(* the lock's expiry, and each failure delays it by no more than that,     *)
(* unless it is the work itself that outlasts the lock.                    *)
RunsInTime ==
    job.work <= job.lock => delay <= (1 + faults) * (job.interval + job.lock)
=============================================================================
