---------------------------- MODULE PyPoolProofs ----------------------------
(***************************************************************************)
(* Theorems about the Python pool, for any tasks and dependencies, any     *)
(* daemons and sessions, any number of requests and faults.                *)
(*                                                                         *)
(* AssignedIsTracked and NoDependentForgotten are inductive together with  *)
(* the type invariant.  ClaimsArePaidFor is not: a claim needs an UPDATE   *)
(* to ASSIGNED that no claim has used, which PaidInv counts, and a         *)
(* one-shot may claim a PENDING task too, which PaidInv rules out: nobody  *)
(* is sent to a task before it was assigned.                               *)
(***************************************************************************)
EXTENDS PyPool, TLAPS

Untouched(t) ==
  /\ assignedQ[t] = 0 /\ shots[t] = 0 /\ running[t] = 0
  /\ \A d \in Daemons : job[d] # t

PaidInv ==
  \A t \in Tasks :
    /\ status[t] \in {"NONE", "PENDING"} => Untouched(t)
    /\ claims[t] + (IF status[t] = "ASSIGNED" THEN 1 ELSE 0) <= assigns[t]

\* The pool begins as it should.
LEMMA PyPoolStart ==
  ASSUME Init
  PROVE  TypeOK /\ PaidInv /\ AssignedIsTracked /\ NoDependentForgotten
<1> USE PoolAssumption DEF Init, Tasks
<1>1. TypeOK
  BY DEF TypeOK, Statuses
<1>2. PaidInv
  BY DEF PaidInv, Untouched
<1>3. AssignedIsTracked /\ NoDependentForgotten
  BY DEF AssignedIsTracked, NoDependentForgotten
<1> QED
  BY <1>1, <1>2, <1>3

\* Every step keeps the variables in their types.
LEMMA PyPoolTypeStep ==
  ASSUME TypeOK, [Next]_vars PROVE TypeOK'
<1> USE PoolAssumption DEF TypeOK, Statuses, Alive, calls, ears, daemonVars,
     shotVars, history
<1>1. ASSUME NEW t \in Tasks, Create(t)
      PROVE  TypeOK'
  BY <1>1 DEF Create, Upstream
<1>2. ASSUME NEW t \in Tasks, Age(t)
      PROVE  TypeOK'
  BY <1>2 DEF Age
<1>3. ASSUME NEW c \in Clients, NEW t \in Tasks, AskAssign(c, t)
      PROVE  TypeOK'
  BY <1>3 DEF AskAssign
<1>4. ASSUME NEW c \in Clients, NEW t \in Tasks, AskAgain(c, t)
      PROVE  TypeOK'
  BY <1>4 DEF AskAgain, SpawnAgent
<1>5. ASSUME NEW c \in Clients, WriteAssign(c)
      PROVE  TypeOK'
  BY <1>5 DEF WriteAssign, SpawnAgent, Notify
<1>6. ASSUME NEW c \in Clients, AbandonAssign(c)
      PROVE  TypeOK'
  BY <1>6 DEF AbandonAssign, Fault
<1>7. CASE PoolStart
  BY <1>7 DEF PoolStart
<1>8. CASE PoolSweep
  BY <1>8 DEF PoolSweep
<1>9. CASE FailSweep
  BY <1>9 DEF FailSweep, Fault
<1>10. CASE PoolListen
  BY <1>10 DEF PoolListen
<1>11. CASE PoolStop
  BY <1>11 DEF PoolStop, Fault, Deafened
<1>12. CASE PoolDeaf
  BY <1>12 DEF PoolDeaf, Fault, Deafened
<1>13. ASSUME NEW t \in Tasks, RouteToDaemon(t)
      PROVE  TypeOK'
  BY <1>13 DEF RouteToDaemon
<1>14. ASSUME NEW t \in Tasks, SpawnForTask(t)
      PROVE  TypeOK'
  BY <1>14 DEF SpawnForTask, Fault
<1>15. ASSUME NEW t \in Tasks, FailSpawn(t)
      PROVE  TypeOK'
  BY <1>15 DEF FailSpawn, Fault
<1>16. ASSUME NEW t \in Tasks, HandleCompleted(t)
      PROVE  TypeOK'
  BY <1>16 DEF HandleCompleted, Downstream
<1>17. ASSUME NEW t \in Tasks, FailCompleted(t)
      PROVE  TypeOK'
  BY <1>17 DEF FailCompleted, Fault
<1>18. ASSUME NEW d \in Daemons, Heartbeat(d)
      PROVE  TypeOK'
  BY <1>18 DEF Heartbeat
<1>19. ASSUME NEW d \in Daemons, Expire(d)
      PROVE  TypeOK'
  BY <1>19 DEF Expire
<1>20. CASE StaleSweep
  BY <1>20 DEF StaleSweep
<1>21. ASSUME NEW t \in Tasks, ClaimShot(t)
      PROVE  TypeOK'
  BY <1>21 DEF ClaimShot
<1>22. ASSUME NEW t \in Tasks, SkipShot(t)
      PROVE  TypeOK'
  BY <1>22 DEF SkipShot
<1>23. ASSUME NEW t \in Tasks, DieShot(t)
      PROVE  TypeOK'
  BY <1>23 DEF DieShot, Fault
<1>24. ASSUME NEW t \in Tasks, NEW o \in Ended, FinishShot(t, o)
      PROVE  TypeOK'
  BY <1>24 DEF FinishShot, WriteEnd, Notify, Ended
<1>25. ASSUME NEW d \in Daemons, NEW t \in Tasks, ClaimDaemon(d, t)
      PROVE  TypeOK'
  <2>1. t # 0
    BY DEF Tasks
  <2> QED
    BY <1>25, <2>1 DEF ClaimDaemon
<1>26. ASSUME NEW d \in Daemons, NEW o \in Ended, FinishDaemon(d, o)
      PROVE  TypeOK'
  BY <1>26 DEF FinishDaemon, WriteEnd, Notify, Ended
<1>27. ASSUME NEW d \in Daemons, DieDaemon(d)
      PROVE  TypeOK'
  BY <1>27 DEF DieDaemon, Fault
<1>28. CASE UNCHANGED vars
  BY <1>28 DEF vars
<1> HIDE DEF TypeOK, Statuses, Alive, calls, ears, daemonVars, shotVars, history
<1> QED
  BY <1>1, <1>2, <1>3, <1>4, <1>5, <1>6, <1>7, <1>8, <1>9, <1>10, <1>11,
     <1>12, <1>13, <1>14, <1>15, <1>16, <1>17, <1>18, <1>19, <1>20, <1>21,
     <1>22, <1>23, <1>24, <1>25, <1>26, <1>27, <1>28
  DEF Next, SessionStep, PoolStep, RunStep

\* Every step keeps the count of claims.
LEMMA PaidStep ==
  ASSUME TypeOK, PaidInv, [Next]_vars PROVE PaidInv'
<1> USE PoolAssumption DEF TypeOK, PaidInv, Untouched, calls, ears,
     daemonVars, shotVars, history
<1>1. ASSUME NEW t \in Tasks, Create(t)
      PROVE  PaidInv'
  BY <1>1 DEF Create, Upstream
<1>2. ASSUME NEW t \in Tasks, Age(t)
      PROVE  PaidInv'
  BY <1>2 DEF Age
<1>3. ASSUME NEW c \in Clients, NEW t \in Tasks, AskAssign(c, t)
      PROVE  PaidInv'
  BY <1>3 DEF AskAssign
<1>4. ASSUME NEW c \in Clients, NEW t \in Tasks, AskAgain(c, t)
      PROVE  PaidInv'
  BY <1>4 DEF AskAgain, SpawnAgent
<1>5. ASSUME NEW c \in Clients, WriteAssign(c)
      PROVE  PaidInv'
  BY <1>5 DEF WriteAssign, SpawnAgent, Notify
<1>6. ASSUME NEW c \in Clients, AbandonAssign(c)
      PROVE  PaidInv'
  BY <1>6 DEF AbandonAssign, Fault
<1>7. CASE PoolStart
  BY <1>7 DEF PoolStart
<1>8. CASE PoolSweep
  BY <1>8 DEF PoolSweep
<1>9. CASE FailSweep
  BY <1>9 DEF FailSweep, Fault
<1>10. CASE PoolListen
  BY <1>10 DEF PoolListen
<1>11. CASE PoolStop
  BY <1>11 DEF PoolStop, Fault, Deafened
<1>12. CASE PoolDeaf
  BY <1>12 DEF PoolDeaf, Fault, Deafened
<1>13. ASSUME NEW t \in Tasks, RouteToDaemon(t)
      PROVE  PaidInv'
  BY <1>13 DEF RouteToDaemon
<1>14. ASSUME NEW t \in Tasks, SpawnForTask(t)
      PROVE  PaidInv'
  BY <1>14 DEF SpawnForTask, Fault
<1>15. ASSUME NEW t \in Tasks, FailSpawn(t)
      PROVE  PaidInv'
  BY <1>15 DEF FailSpawn, Fault
<1>16. ASSUME NEW t \in Tasks, HandleCompleted(t)
      PROVE  PaidInv'
  BY <1>16 DEF HandleCompleted, Downstream
<1>17. ASSUME NEW t \in Tasks, FailCompleted(t)
      PROVE  PaidInv'
  BY <1>17 DEF FailCompleted, Fault
<1>18. ASSUME NEW d \in Daemons, Heartbeat(d)
      PROVE  PaidInv'
  BY <1>18 DEF Heartbeat
<1>19. ASSUME NEW d \in Daemons, Expire(d)
      PROVE  PaidInv'
  BY <1>19 DEF Expire
<1>20. CASE StaleSweep
  BY <1>20 DEF StaleSweep
<1>21. ASSUME NEW t \in Tasks, ClaimShot(t)
      PROVE  PaidInv'
  BY <1>21 DEF ClaimShot
<1>22. ASSUME NEW t \in Tasks, SkipShot(t)
      PROVE  PaidInv'
  BY <1>22 DEF SkipShot
<1>23. ASSUME NEW t \in Tasks, DieShot(t)
      PROVE  PaidInv'
  BY <1>23 DEF DieShot, Fault
<1>24. ASSUME NEW t \in Tasks, NEW o \in Ended, FinishShot(t, o)
      PROVE  PaidInv'
  BY <1>24 DEF FinishShot, WriteEnd, Notify, Ended
<1>25. ASSUME NEW d \in Daemons, NEW t \in Tasks, ClaimDaemon(d, t)
      PROVE  PaidInv'
  BY <1>25 DEF ClaimDaemon
<1>26. ASSUME NEW d \in Daemons, NEW o \in Ended, FinishDaemon(d, o)
      PROVE  PaidInv'
  <2>1. \A t \in Tasks, e \in Daemons : job[e] # t => job'[e] # t
    BY <1>26 DEF FinishDaemon, Tasks
  <2>2. \A t \in Tasks :
          IF t = job[d]
          THEN /\ status[t] \notin {"NONE", "PENDING"}
               /\ status'[t] \notin {"NONE", "PENDING", "ASSIGNED"}
          ELSE status'[t] = status[t]
    BY <1>26 DEF FinishDaemon, WriteEnd, Ended
  <2> QED
    BY <1>26, <2>1, <2>2 DEF FinishDaemon, WriteEnd
<1>27. ASSUME NEW d \in Daemons, DieDaemon(d)
      PROVE  PaidInv'
  <2>1. \A t \in Tasks, e \in Daemons : job[e] # t => job'[e] # t
    BY <1>27 DEF DieDaemon, Tasks
  <2> QED
    BY <1>27, <2>1 DEF DieDaemon
<1>28. CASE UNCHANGED vars
  BY <1>28 DEF vars
<1> HIDE DEF TypeOK, PaidInv, Untouched, calls, ears, daemonVars, shotVars,
     history
<1> QED
  BY <1>1, <1>2, <1>3, <1>4, <1>5, <1>6, <1>7, <1>8, <1>9, <1>10, <1>11,
     <1>12, <1>13, <1>14, <1>15, <1>16, <1>17, <1>18, <1>19, <1>20, <1>21,
     <1>22, <1>23, <1>24, <1>25, <1>26, <1>27, <1>28
  DEF Next, SessionStep, PoolStep, RunStep

\* Every step leaves each ASSIGNED task to somebody.
LEMMA TrackedStep ==
  ASSUME TypeOK, AssignedIsTracked, [Next]_vars PROVE AssignedIsTracked'
<1> USE PoolAssumption DEF TypeOK, AssignedIsTracked, Alive, calls, ears,
     daemonVars, shotVars, history
<1>1. ASSUME NEW t \in Tasks, Create(t)
      PROVE  AssignedIsTracked'
  BY <1>1 DEF Create, Upstream
<1>2. ASSUME NEW t \in Tasks, Age(t)
      PROVE  AssignedIsTracked'
  BY <1>2 DEF Age
<1>3. ASSUME NEW c \in Clients, NEW t \in Tasks, AskAssign(c, t)
      PROVE  AssignedIsTracked'
  BY <1>3 DEF AskAssign
<1>4. ASSUME NEW c \in Clients, NEW t \in Tasks, AskAgain(c, t)
      PROVE  AssignedIsTracked'
  BY <1>4 DEF AskAgain, SpawnAgent
<1>5. ASSUME NEW c \in Clients, WriteAssign(c)
      PROVE  AssignedIsTracked'
  BY <1>5 DEF WriteAssign, SpawnAgent, Notify
<1>6. ASSUME NEW c \in Clients, AbandonAssign(c)
      PROVE  AssignedIsTracked'
  BY <1>6 DEF AbandonAssign, Fault
<1>7. CASE PoolStart
  BY <1>7 DEF PoolStart
<1>8. CASE PoolSweep
  BY <1>8 DEF PoolSweep
<1>9. CASE FailSweep
  BY <1>9 DEF FailSweep, Fault
<1>10. CASE PoolListen
  BY <1>10 DEF PoolListen
<1>11. CASE PoolStop
  BY <1>11 DEF PoolStop, Fault, Deafened
<1>12. CASE PoolDeaf
  BY <1>12 DEF PoolDeaf, Fault, Deafened
<1>13. ASSUME NEW t \in Tasks, RouteToDaemon(t)
      PROVE  AssignedIsTracked'
  BY <1>13 DEF RouteToDaemon
<1>14. ASSUME NEW t \in Tasks, SpawnForTask(t)
      PROVE  AssignedIsTracked'
  BY <1>14 DEF SpawnForTask, Fault
<1>15. ASSUME NEW t \in Tasks, FailSpawn(t)
      PROVE  AssignedIsTracked'
  BY <1>15 DEF FailSpawn, Fault
<1>16. ASSUME NEW t \in Tasks, HandleCompleted(t)
      PROVE  AssignedIsTracked'
  BY <1>16 DEF HandleCompleted, Downstream
<1>17. ASSUME NEW t \in Tasks, FailCompleted(t)
      PROVE  AssignedIsTracked'
  BY <1>17 DEF FailCompleted, Fault
<1>18. ASSUME NEW d \in Daemons, Heartbeat(d)
      PROVE  AssignedIsTracked'
  BY <1>18 DEF Heartbeat
<1>19. ASSUME NEW d \in Daemons, Expire(d)
      PROVE  AssignedIsTracked'
  BY <1>19 DEF Expire
<1>20. CASE StaleSweep
  BY <1>20 DEF StaleSweep
<1>21. ASSUME NEW t \in Tasks, ClaimShot(t)
      PROVE  AssignedIsTracked'
  BY <1>21 DEF ClaimShot
<1>22. ASSUME NEW t \in Tasks, SkipShot(t)
      PROVE  AssignedIsTracked'
  BY <1>22 DEF SkipShot
<1>23. ASSUME NEW t \in Tasks, DieShot(t)
      PROVE  AssignedIsTracked'
  BY <1>23 DEF DieShot, Fault
<1>24. ASSUME NEW t \in Tasks, NEW o \in Ended, FinishShot(t, o)
      PROVE  AssignedIsTracked'
  BY <1>24 DEF FinishShot, WriteEnd, Notify, Ended
<1>25. ASSUME NEW d \in Daemons, NEW t \in Tasks, ClaimDaemon(d, t)
      PROVE  AssignedIsTracked'
  BY <1>25 DEF ClaimDaemon
<1>26. ASSUME NEW d \in Daemons, NEW o \in Ended, FinishDaemon(d, o)
      PROVE  AssignedIsTracked'
  BY <1>26 DEF FinishDaemon, WriteEnd, Notify, Ended
<1>27. ASSUME NEW d \in Daemons, DieDaemon(d)
      PROVE  AssignedIsTracked'
  BY <1>27 DEF DieDaemon, Fault
<1>28. CASE UNCHANGED vars
  BY <1>28 DEF vars
<1> HIDE DEF TypeOK, AssignedIsTracked, Alive, calls, ears, daemonVars,
     shotVars, history
<1> QED
  BY <1>1, <1>2, <1>3, <1>4, <1>5, <1>6, <1>7, <1>8, <1>9, <1>10, <1>11,
     <1>12, <1>13, <1>14, <1>15, <1>16, <1>17, <1>18, <1>19, <1>20, <1>21,
     <1>22, <1>23, <1>24, <1>25, <1>26, <1>27, <1>28
  DEF Next, SessionStep, PoolStep, RunStep

\* A result tells of the dependants, or is on record as untold.
LEMMA EndStep ==
  ASSUME TypeOK, NoDependentForgotten, NEW t \in Tasks, NEW o \in Ended,
         WriteEnd(t, o)
  PROVE  NoDependentForgotten'
<1> USE DEF TypeOK, NoDependentForgotten, Ready, Upstream, Ended, history
<1> SUFFICES ASSUME NEW s \in Tasks, status'[s] = "PENDING",
                    Upstream(s) # {}, Ready(s)'
             PROVE  \E u \in Upstream(s) : doneQ'[u] > 0 \/ u \in untold'
  OBVIOUS
<1>1. s # t /\ status[s] = "PENDING"
  BY DEF WriteEnd
<1>2. CASE t \in Upstream(s)
  <2>1. o = "COMPLETED"
    BY <1>2 DEF WriteEnd
  <2>2. doneQ'[t] > 0 \/ t \in untold'
    BY <2>1 DEF WriteEnd, Notify
  <2> QED
    BY <1>2, <2>2
<1>3. CASE t \notin Upstream(s)
  <2>1. Ready(s)
    BY <1>3 DEF WriteEnd
  <2>2. PICK u \in Upstream(s) : doneQ[u] > 0 \/ u \in untold
    BY <1>1, <2>1
  <2>3. doneQ'[u] > 0 \/ u \in untold'
    BY <2>2 DEF WriteEnd, Notify
  <2> QED
    BY <2>3
<1> QED
  BY <1>2, <1>3

\* Every step leaves each dependant to somebody.
LEMMA DependentStep ==
  ASSUME TypeOK, NoDependentForgotten, [Next]_vars PROVE NoDependentForgotten'
<1> USE PoolAssumption DEF TypeOK, NoDependentForgotten, Ready, Upstream,
     calls, ears, daemonVars, shotVars, history
<1>1. ASSUME NEW t \in Tasks, Create(t)
      PROVE  NoDependentForgotten'
  <2> SUFFICES ASSUME NEW s \in Tasks, status'[s] = "PENDING",
                      Upstream(s) # {}, Ready(s)'
               PROVE  \E u \in Upstream(s) : doneQ'[u] > 0 \/ u \in untold'
    OBVIOUS
  <2>1. doneQ' = doneQ /\ untold \subseteq untold'
    BY <1>1 DEF Create
  <2>2. CASE s = t
    <3>1. PICK u \in Upstream(s) : TRUE
      OBVIOUS
    <3>2. status'[u] = "COMPLETED" /\ status'[t] = "PENDING"
      BY <3>1, <2>2
    <3>3. u # t /\ status[u] = "COMPLETED"
      BY <3>1, <3>2, <1>1 DEF Create
    <3> QED
      BY <3>1, <3>3, <2>2, <1>1 DEF Create
  <2>3. CASE s # t
    <3>1. status[s] = "PENDING" /\ Ready(s)
      BY <2>3, <1>1 DEF Create
    <3>2. PICK u \in Upstream(s) : doneQ[u] > 0 \/ u \in untold
      BY <3>1
    <3> QED
      BY <3>2, <2>1
  <2> QED
    BY <2>2, <2>3
<1>2. ASSUME NEW t \in Tasks, Age(t)
      PROVE  NoDependentForgotten'
  BY <1>2 DEF Age
<1>3. ASSUME NEW c \in Clients, NEW t \in Tasks, AskAssign(c, t)
      PROVE  NoDependentForgotten'
  BY <1>3 DEF AskAssign
<1>4. ASSUME NEW c \in Clients, NEW t \in Tasks, AskAgain(c, t)
      PROVE  NoDependentForgotten'
  BY <1>4 DEF AskAgain, SpawnAgent
<1>5. ASSUME NEW c \in Clients, WriteAssign(c)
      PROVE  NoDependentForgotten'
  BY <1>5 DEF WriteAssign, SpawnAgent, Notify
<1>6. ASSUME NEW c \in Clients, AbandonAssign(c)
      PROVE  NoDependentForgotten'
  BY <1>6 DEF AbandonAssign, Fault
<1>7. CASE PoolStart
  BY <1>7 DEF PoolStart
<1>8. CASE PoolSweep
  BY <1>8 DEF PoolSweep
<1>9. CASE FailSweep
  BY <1>9 DEF FailSweep, Fault
<1>10. CASE PoolListen
  BY <1>10 DEF PoolListen
<1>11. CASE PoolStop
  BY <1>11 DEF PoolStop, Fault, Deafened
<1>12. CASE PoolDeaf
  BY <1>12 DEF PoolDeaf, Fault, Deafened
<1>13. ASSUME NEW t \in Tasks, RouteToDaemon(t)
      PROVE  NoDependentForgotten'
  BY <1>13 DEF RouteToDaemon
<1>14. ASSUME NEW t \in Tasks, SpawnForTask(t)
      PROVE  NoDependentForgotten'
  BY <1>14 DEF SpawnForTask, Fault
<1>15. ASSUME NEW t \in Tasks, FailSpawn(t)
      PROVE  NoDependentForgotten'
  BY <1>15 DEF FailSpawn, Fault
<1>16. ASSUME NEW t \in Tasks, HandleCompleted(t)
      PROVE  NoDependentForgotten'
  BY <1>16 DEF HandleCompleted, Downstream
<1>17. ASSUME NEW t \in Tasks, FailCompleted(t)
      PROVE  NoDependentForgotten'
  BY <1>17 DEF FailCompleted, Fault
<1>18. ASSUME NEW d \in Daemons, Heartbeat(d)
      PROVE  NoDependentForgotten'
  BY <1>18 DEF Heartbeat
<1>19. ASSUME NEW d \in Daemons, Expire(d)
      PROVE  NoDependentForgotten'
  BY <1>19 DEF Expire
<1>20. CASE StaleSweep
  BY <1>20 DEF StaleSweep
<1>21. ASSUME NEW t \in Tasks, ClaimShot(t)
      PROVE  NoDependentForgotten'
  BY <1>21 DEF ClaimShot
<1>22. ASSUME NEW t \in Tasks, SkipShot(t)
      PROVE  NoDependentForgotten'
  BY <1>22 DEF SkipShot
<1>23. ASSUME NEW t \in Tasks, DieShot(t)
      PROVE  NoDependentForgotten'
  BY <1>23 DEF DieShot, Fault
<1>24. ASSUME NEW t \in Tasks, NEW o \in Ended, FinishShot(t, o)
      PROVE  NoDependentForgotten'
  BY <1>24, EndStep DEF FinishShot
<1>25. ASSUME NEW d \in Daemons, NEW t \in Tasks, ClaimDaemon(d, t)
      PROVE  NoDependentForgotten'
  BY <1>25 DEF ClaimDaemon
<1>26. ASSUME NEW d \in Daemons, NEW o \in Ended, FinishDaemon(d, o)
      PROVE  NoDependentForgotten'
  <2>1. job[d] \in Tasks
    BY <1>26 DEF FinishDaemon
  <2> QED
    BY <1>26, <2>1, EndStep DEF FinishDaemon
<1>27. ASSUME NEW d \in Daemons, DieDaemon(d)
      PROVE  NoDependentForgotten'
  BY <1>27 DEF DieDaemon, Fault
<1>28. CASE UNCHANGED vars
  BY <1>28 DEF vars
<1> HIDE DEF TypeOK, NoDependentForgotten, Ready, Upstream, calls, ears,
     daemonVars, shotVars, history
<1> QED
  BY <1>1, <1>2, <1>3, <1>4, <1>5, <1>6, <1>7, <1>8, <1>9, <1>10, <1>11,
     <1>12, <1>13, <1>14, <1>15, <1>16, <1>17, <1>18, <1>19, <1>20, <1>21,
     <1>22, <1>23, <1>24, <1>25, <1>26, <1>27, <1>28
  DEF Next, SessionStep, PoolStep, RunStep

\* All of it together.
LEMMA PyPoolStep ==
  ASSUME TypeOK, PaidInv, AssignedIsTracked, NoDependentForgotten, [Next]_vars
  PROVE  /\ TypeOK' /\ PaidInv'
         /\ AssignedIsTracked' /\ NoDependentForgotten'
BY PyPoolTypeStep, PaidStep, TrackedStep, DependentStep

\* TypeOK is an invariant of the Python pool.
THEOREM PyPoolTypes == Spec => []TypeOK
<1> DEFINE Inv ==
      TypeOK /\ PaidInv /\ AssignedIsTracked /\ NoDependentForgotten
<1>1. Init => Inv
  BY PyPoolStart
<1>2. Inv /\ [Next]_vars => Inv'
  BY PyPoolStep
<1>3. Inv => TypeOK
  OBVIOUS
<1> QED
  BY <1>1, <1>2, <1>3, PTL DEF Spec

\* A task starts no more often than it was assigned: the guards of the two
\* claiming UPDATEs keep daemons and one-shots apart (runtime.py
\* _poll_for_task, dispatcher.py run_task).
THEOREM PyPoolClaimsArePaidFor == Spec => []ClaimsArePaidFor
<1> DEFINE Inv ==
      TypeOK /\ PaidInv /\ AssignedIsTracked /\ NoDependentForgotten
<1>1. Init => Inv
  BY PyPoolStart
<1>2. Inv /\ [Next]_vars => Inv'
  BY PyPoolStep
<1>3. Inv => ClaimsArePaidFor
  BY DEF TypeOK, PaidInv, ClaimsArePaidFor
<1> QED
  BY <1>1, <1>2, <1>3, PTL DEF Spec

\* An ASSIGNED task is never overlooked, but for the losses on record
\* (controller.py _sweep_stale_assignments, _on_task_assigned).
THEOREM PyPoolAssignedIsTracked == Spec => []AssignedIsTracked
<1> DEFINE Inv ==
      TypeOK /\ PaidInv /\ AssignedIsTracked /\ NoDependentForgotten
<1>1. Init => Inv
  BY PyPoolStart
<1>2. Inv /\ [Next]_vars => Inv'
  BY PyPoolStep
<1>3. Inv => AssignedIsTracked
  OBVIOUS
<1> QED
  BY <1>1, <1>2, <1>3, PTL DEF Spec

\* A dependant waits only for a NOTIFY under way, or for one that the
\* controller missed (controller.py _on_task_completed).
THEOREM PyPoolNoDependentForgotten == Spec => []NoDependentForgotten
<1> DEFINE Inv ==
      TypeOK /\ PaidInv /\ AssignedIsTracked /\ NoDependentForgotten
<1>1. Init => Inv
  BY PyPoolStart
<1>2. Inv /\ [Next]_vars => Inv'
  BY PyPoolStep
<1>3. Inv => NoDependentForgotten
  OBVIOUS
<1> QED
  BY <1>1, <1>2, <1>3, PTL DEF Spec
=============================================================================
