--------------------------- MODULE CronLockProofs ---------------------------
(***************************************************************************)
(* For any number of instances, any interval and lock_duration and any     *)
(* failures: a job begins at most once in lock_duration, an instance joins *)
(* another one's work not before lock_duration is over, and the job is not *)
(* left out for long while there is an instance.                           *)
(***************************************************************************)
EXTENDS CronLock, TLAPS

(* The lock has not been there for longer than the work has.  This and the *)
(* types are inductive whatever the work takes.                            *)
LockIsNew == age + lock >= job.lock

LInv == TypeOK /\ LockIsNew

LEMMA Schedules ==
    \A j \in Schedule : /\ j.interval \in Nat \ {0} /\ j.lock \in Nat \ {0}
                        /\ j.work \in Nat /\ j.lock <= MaxAge
BY CronAssumption

LEMMA InitLInv ==
    Init => LInv
<1> SUFFICES ASSUME Init PROVE LInv
  OBVIOUS
<1>1. /\ job.interval \in Nat /\ job.lock \in Nat /\ job.lock <= MaxAge
      /\ MaxFaults \in Nat /\ MaxAge \in Nat
  BY Schedules, CronAssumption DEF Init
<1>2. timer \in [Instance -> Nat]
  BY <1>1 DEF Init
<1> QED BY <1>1, <1>2 DEF Init, LInv, TypeOK, LockIsNew

LEMMA StepLInv ==
    LInv /\ [Next]_vars => LInv'
<1> SUFFICES ASSUME LInv, [Next]_vars PROVE LInv'
  OBVIOUS
<1>1. /\ job \in Schedule /\ lock \in 0..job.lock /\ age \in 0..MaxAge
      /\ pc \in [Instance -> {"sleep", "set", "work", "panicked"}]
      /\ timer \in [Instance -> Nat] /\ faults \in 0..MaxFaults
      /\ delay \in 0..MaxAge /\ age + lock >= job.lock
  BY DEF LInv, TypeOK, LockIsNew
<1>2. /\ job.interval \in Nat /\ job.lock \in Nat /\ job.work \in Nat
      /\ job.lock <= MaxAge /\ MaxFaults \in Nat /\ MaxAge \in Nat
  BY <1>1, Schedules, CronAssumption
<1> USE DEF LInv, TypeOK, LockIsNew, hist
<1>3. CASE UNCHANGED vars
  BY <1>1, <1>3 DEF vars
<1>4. ASSUME NEW i \in Instance, Wake(i) PROVE LInv'
  BY <1>1, <1>4 DEF Wake
<1>5. ASSUME NEW i \in Instance, TakeLock(i) PROVE LInv'
  BY <1>1, <1>2, <1>5 DEF TakeLock
<1>6. ASSUME NEW i \in Instance, LockTaken(i) \/ EndWork(i) PROVE LInv'
  BY <1>1, <1>2, <1>6 DEF LockTaken, EndWork, Sleep
<1>7. ASSUME NEW i \in Instance, SetFails(i) PROVE LInv'
  BY <1>1, <1>2, <1>7 DEF SetFails, Sleep, Fault
<1>8. ASSUME NEW i \in Instance, Panic(i) \/ Restart(i) PROVE LInv'
  BY <1>1, <1>2, <1>8 DEF Panic, Restart, Fault
<1>9. CASE Tick
  BY <1>1, <1>2, <1>9 DEF Tick
<1> QED BY <1>3, <1>4, <1>5, <1>6, <1>7, <1>8, <1>9 DEF Next

LEMMA LInvHolds ==
    Spec => []LInv
BY InitLInv, StepLInv, PTL DEF Spec

(* The counts of the lock stay in their ranges. *)
THEOREM TypesAreKept ==
    Spec => []TypeOK
<1>1. LInv => TypeOK
  BY DEF LInv
<1> QED BY <1>1, LInvHolds, PTL

(* main.rs says that each attempt to acquire the lock will fail before the *)
(* lock expires: the work begins at most once in lock_duration, even if    *)
(* instances die, are restarted or lose answers of redis.                  *)
THEOREM StartsStaySpaced ==
    Spec => StartsAreSpaced
<1> DEFINE Spaced == \A i \in Instance : i \notin Working /\ i \in Working'
                                         => age >= job.lock
<1>1. LInv /\ [Next]_vars => [Spaced]_vars
  <2> SUFFICES ASSUME LInv, Next, NEW i \in Instance, i \notin Working, i \in Working'
               PROVE  age >= job.lock
    BY DEF Spaced
  <2>1. pc[i] # "work" /\ pc'[i] = "work"
    BY DEF Working
  <2>2. pc \in [Instance -> {"sleep", "set", "work", "panicked"}]
    BY DEF LInv, TypeOK
  <2>3. PICK j \in Instance : TakeLock(j)
    BY <2>1, <2>2 DEF Next, Wake, LockTaken, EndWork, SetFails, Panic, Restart, Sleep, Tick
  <2>4. lock = 0 /\ age \in Int /\ job.lock \in Int
    BY <2>3, Schedules DEF TakeLock, LInv, TypeOK
  <2> QED BY <2>4 DEF LInv, LockIsNew
<1> QED BY <1>1, LInvHolds, PTL DEF Spec, StartsAreSpaced

---------------------------------------------------------------------------
(* NoDuplicateWork is not inductive: it does not say that the lock is      *)
(* still there for as long as a work has not taken lock_duration.          *)
LockOutlastsWork ==
    \A i \in Working : timer[i] <= job.work /\ timer[i] + job.lock <= lock + job.work

WInv == LInv /\ LockOutlastsWork /\ NoDuplicateWork

LEMMA WInvHolds ==
    Spec => []WInv
<1>1. Init => WInv
  BY InitLInv DEF Init, WInv, LockOutlastsWork, NoDuplicateWork, Working
<1>2. WInv /\ [Next]_vars => WInv'
  <2> SUFFICES ASSUME WInv, [Next]_vars PROVE WInv'
    OBVIOUS
  <2>1. LInv'
    BY StepLInv DEF WInv
  <2>2. /\ job \in Schedule /\ lock \in Nat /\ timer \in [Instance -> Nat]
        /\ pc \in [Instance -> {"sleep", "set", "work", "panicked"}]
        /\ job.lock \in Nat /\ job.work \in Nat
    BY Schedules DEF WInv, LInv, TypeOK
  <2> DEFINE Late(t, i) == t[i] <= job.work /\ t[i] + job.lock <= lock + job.work
             Late2(t, i) == t[i] <= job.work /\ t[i] + job.lock <= lock' + job.work
             Spaced(t, i, j) == \/ i = j
                                \/ t[i] + job.lock <= t[j]
                                \/ t[j] + job.lock <= t[i]
  <2>3. /\ \A i \in Instance : pc[i] = "work" => Late(timer, i)
        /\ \A i, j \in Instance : pc[i] = "work" /\ pc[j] = "work" => Spaced(timer, i, j)
    BY DEF WInv, LockOutlastsWork, NoDuplicateWork, Working
  <2> DEFINE Kept == /\ \A i \in Instance : pc'[i] = "work" => Late2(timer', i)
                     /\ \A i, j \in Instance :
                           pc'[i] = "work" /\ pc'[j] = "work" => Spaced(timer', i, j)
  <2>4. ASSUME UNCHANGED vars PROVE Kept
    BY <2>3, <2>4 DEF vars
  <2>5. ASSUME NEW i \in Instance, Wake(i) \/ LockTaken(i) \/ EndWork(i)
                                   \/ Panic(i) \/ Restart(i)
        PROVE  Kept
    BY <2>2, <2>3, <2>5 DEF Wake, LockTaken, EndWork, Panic, Restart, Sleep
  <2>6. ASSUME NEW i \in Instance, TakeLock(i) PROVE Kept
    BY <2>2, <2>3, <2>6 DEF TakeLock
  <2>7. ASSUME NEW i \in Instance, SetFails(i) PROVE Kept
    BY <2>2, <2>3, <2>7 DEF SetFails, Sleep
  <2>8. ASSUME Tick PROVE Kept
    BY <2>2, <2>3, <2>8 DEF Tick
  <2>9. Kept
    BY <2>4, <2>5, <2>6, <2>7, <2>8 DEF Next
  <2>10. job' = job
    BY DEF Next, vars, Wake, TakeLock, LockTaken, EndWork, SetFails, Panic, Restart, Tick
  <2> QED BY <2>1, <2>9, <2>10 DEF WInv, LockOutlastsWork, NoDuplicateWork, Working
<1> QED BY <1>1, <1>2, PTL DEF Spec

(* "Use distributed redis lock to avoid duplicate work": an instance joins *)
(* the work of another one only when that has taken lock_duration, for any *)
(* jobs, instances and failures.                                           *)
THEOREM WorkIsJoinedLate ==
    Spec => []NoDuplicateWork
<1>1. WInv => NoDuplicateWork
  BY DEF WInv
<1> QED BY <1>1, WInvHolds, PTL

(* Hence two instances do not work at the same time, if the work takes     *)
(* less than lock_duration.                                                *)
THEOREM NobodyDuplicatesWork ==
    ASSUME \A j \in Schedule : j.work < j.lock
    PROVE  Spec => [](\A i, j \in Working : i = j)
<1>1. WInv => \A i, j \in Working : i = j
  <2> SUFFICES ASSUME WInv, NEW i \in Working, NEW j \in Working PROVE i = j
    OBVIOUS
  <2>1. /\ job.work \in Nat /\ job.lock \in Nat /\ job.work < job.lock
        /\ timer[i] \in Nat /\ timer[j] \in Nat
    BY Schedules DEF WInv, LInv, TypeOK, Working
  <2>2. timer[i] <= job.work /\ timer[j] <= job.work
    BY DEF WInv, LockOutlastsWork
  <2> QED BY <2>1, <2>2 DEF WInv, NoDuplicateWork
<1> QED BY <1>1, WInvHolds, PTL

---------------------------------------------------------------------------
(* By when the work begins again, after f failures. *)
Deadline(f) == (1 + f) * (job.interval + job.lock)

(* Neither the lock, while it is there, nor the sleep of an instance lasts *)
(* until the deadline, and who works will be able to sleep before it.      *)
InTime ==
    /\ lock > 0 => delay + lock + job.interval <= Deadline(faults)
    /\ \A i \in Left : delay + timer[i] <= Deadline(faults)
    /\ \A i \in Working : /\ timer[i] <= job.work
                          /\ delay + timer[i] + job.interval <= Deadline(faults)

DInv == LInv /\ (job.work <= job.lock => InTime /\ RunsInTime)

LEMMA Deadlines ==
    ASSUME job \in Schedule, NEW f \in Nat
    PROVE  /\ Deadline(f) \in Nat /\ Deadline(f) >= job.interval + job.lock
           /\ Deadline(f + 1) = Deadline(f) + job.interval + job.lock
<1>1. job.interval \in Nat /\ job.lock \in Nat
  BY Schedules
<1> DEFINE c == job.interval + job.lock
<1>2. c \in Nat
  BY <1>1
<1>3. (1 + f) * c \in Nat /\ (1 + f) * c = c + f * c /\ f * c \in Nat
      /\ (1 + (f + 1)) * c = (1 + f) * c + c
  <2> HIDE DEF c
  <2> QED BY <1>2
<1> HIDE DEF c
<1>4. (1 + f) * c >= c
  BY <1>2, <1>3
<1> QED BY <1>1, <1>3, <1>4 DEF Deadline, c

(* While an instance is left, the work begins again in time: at most an    *)
(* interval and a lock_duration after it last began, and as much later for *)
(* each failure, if it takes no longer than the lock.                      *)
THEOREM RunsComeInTime ==
    Spec => []RunsInTime
<1>1. Init => DInv
  <2> SUFFICES ASSUME Init PROVE DInv
    OBVIOUS
  <2>1. /\ job \in Schedule /\ job.interval \in Nat /\ job.lock \in Nat
        /\ lock = 0 /\ faults = 0 /\ delay = job.lock /\ Working = {}
    BY Schedules DEF Init, Working
  <2>2. \A i \in Instance : timer[i] \in 0..job.interval
    BY <2>1 DEF Init
  <2>3. Deadline(0) = job.interval + job.lock
    BY <2>1 DEF Deadline
  <2>4. RunsInTime
    BY <2>1, <2>3 DEF RunsInTime, Deadline
  <2>5. InTime
    BY <2>1, <2>2, <2>3 DEF InTime, Left
  <2> QED BY <2>4, <2>5, InitLInv DEF DInv
<1>2. DInv /\ [Next]_vars => DInv'
  <2> SUFFICES ASSUME DInv, [Next]_vars PROVE DInv'
    OBVIOUS
  <2>1. LInv' /\ job' = job
    BY StepLInv DEF DInv, Next, vars, Wake, TakeLock, LockTaken, EndWork, SetFails, Panic,
                    Restart, Tick
  <2> SUFFICES ASSUME job.work <= job.lock PROVE InTime' /\ RunsInTime'
    BY <2>1 DEF DInv
  <2>2. /\ job \in Schedule /\ lock \in Nat /\ timer \in [Instance -> Nat]
        /\ pc \in [Instance -> {"sleep", "set", "work", "panicked"}]
        /\ delay \in Nat /\ faults \in Nat /\ lock <= job.lock
        /\ job.interval \in Nat /\ job.lock \in Nat /\ job.work \in Nat
        /\ job.work <= job.lock
    BY Schedules, CronAssumption DEF DInv, LInv, TypeOK
  <2> DEFINE now == Deadline(faults)
             later == Deadline(faults + 1)
  <2>3. /\ now \in Nat /\ now >= job.interval + job.lock
        /\ later = now + job.interval + job.lock /\ later \in Nat
    BY <2>2, Deadlines
  <2>4. /\ delay <= now
        /\ lock > 0 => delay + lock + job.interval <= now
        /\ \A i \in Instance : pc[i] # "panicked" => delay + timer[i] <= now
        /\ \A i \in Instance : pc[i] = "work" =>
              timer[i] <= job.work /\ delay + timer[i] + job.interval <= now
    BY DEF DInv, InTime, RunsInTime, Deadline, Left, Working
  <2> DEFINE D(d) ==
               /\ delay' <= d
               /\ lock' > 0 => delay' + lock' + job.interval <= d
               /\ \A i \in Instance : pc'[i] # "panicked" => delay' + timer'[i] <= d
               /\ \A i \in Instance : pc'[i] = "work" =>
                     timer'[i] <= job.work /\ delay' + timer'[i] + job.interval <= d
  <2> HIDE DEF now, later
  <2>5. ASSUME UNCHANGED vars PROVE D(now)
    BY <2>4, <2>5 DEF vars, hist
  <2>6. ASSUME NEW i \in Instance, Wake(i) PROVE D(now)
    BY <2>2, <2>3, <2>4, <2>6 DEF Wake, hist
  <2>7. ASSUME NEW i \in Instance, TakeLock(i) PROVE D(now)
    BY <2>2, <2>3, <2>4, <2>7 DEF TakeLock
  <2>8. ASSUME NEW i \in Instance, LockTaken(i) \/ EndWork(i) PROVE D(now)
    BY <2>2, <2>3, <2>4, <2>8 DEF LockTaken, EndWork, Sleep, hist
  <2>9. ASSUME NEW i \in Instance, SetFails(i) PROVE D(later)
    BY <2>2, <2>3, <2>4, <2>9 DEF SetFails, Sleep, hist
  <2>10. ASSUME NEW i \in Instance, Panic(i) \/ Restart(i) PROVE D(later)
    BY <2>2, <2>3, <2>4, <2>10 DEF Panic, Restart, hist
  <2>11. ASSUME Tick PROVE D(now)
    BY <2>2, <2>3, <2>4, <2>11 DEF Tick, Left
  <2>12. \/ faults' = faults /\ D(now)
         \/ faults' = faults + 1 /\ D(later)
    BY <2>5, <2>6, <2>7, <2>8, <2>9, <2>10, <2>11
    DEF Next, vars, Wake, TakeLock, LockTaken, EndWork, SetFails, Panic, Restart,
        Fault, Tick
  <2>13. D(Deadline(faults)')
    BY <2>1, <2>12 DEF now, later, Deadline
  <2> QED BY <2>1, <2>13 DEF InTime, RunsInTime, Deadline, Left, Working
<1>3. DInv => RunsInTime
  BY DEF DInv, RunsInTime
<1> QED BY <1>1, <1>2, <1>3, PTL DEF Spec
=============================================================================
