------------------------- MODULE TaskLifecycleProofs -------------------------
(***************************************************************************)
(* Theorems about the task lifecycle, for any number of tasks, any finite  *)
(* set of agents and any number of retries and faults.                     *)
(*                                                                         *)
(* PendingIsTracked and RunningIsTracked are inductive together with the   *)
(* type invariant.  RunsArePaidFor is not: a claim makes claims grow and   *)
(* says nothing of sent.  PaidInv also counts the runs that may still come *)
(* of what is on its way, so that a claim moves one from there to claims.  *)
(***************************************************************************)
EXTENDS TaskLifecycle, TLAPS

\* The claims that may still come without a new message: of the submission,
\* of a status ASSIGNED, of a message that is queued or being routed.
Outstanding(t) ==
  mail[t]
  + (IF route.task = t THEN 1 ELSE 0)
  + (IF status[t] = "ASSIGNED" THEN 1 ELSE 0)
  + (IF cli[t] \in {"new", "inserted"} THEN 1 ELSE 0)

PaidInv == \A t \in Tasks : claims[t] + Outstanding(t) <= 1 + sent[t]

\* Every step keeps the variables in their types.
LEMMA TypeStep ==
  TypeOK /\ [Next]_vars => TypeOK'
<1> SUFFICES ASSUME TypeOK, [Next]_vars
             PROVE  TypeOK'
  OBVIOUS
<1>1. ASSUME NEW t \in Tasks, Submit(t) PROVE TypeOK'
  BY <1>1 DEF Submit, SetStatus, TypeOK, Statuses, CliStates, PcStates,
     NoRoute, NoRescue, clientVars, poolVars, agentVars, recVars, history
<1>2. ASSUME NEW t \in Tasks, SubmitAssign(t) PROVE TypeOK'
  BY <1>2 DEF SubmitAssign, SetStatus, TypeOK, Statuses, CliStates, PcStates,
     NoRoute, NoRescue, clientVars, poolVars, agentVars, recVars, history
<1>3. ASSUME NEW t \in Tasks, Publish(t) PROVE TypeOK'
  BY <1>3 DEF Publish, Post, TypeOK, Statuses, CliStates, PcStates, NoRoute,
     NoRescue, clientVars, poolVars, agentVars, recVars, history
<1>4. ASSUME NEW t \in Tasks, RetryCheck(t) PROVE TypeOK'
  BY <1>4 DEF RetryCheck, TypeOK, Statuses, CliStates, PcStates, NoRoute,
     NoRescue, clientVars, poolVars, agentVars, recVars, history
<1>5. ASSUME NEW t \in Tasks, RetryReset(t) PROVE TypeOK'
  BY <1>5 DEF RetryReset, SetStatus, TypeOK, Statuses, CliStates, PcStates,
     NoRoute, NoRescue, clientVars, poolVars, agentVars, recVars, history
<1>6. ASSUME NEW t \in Tasks, CliCrash(t) PROVE TypeOK'
  BY <1>6 DEF CliCrash, Fault, TypeOK, Statuses, CliStates, PcStates, NoRoute,
     NoRescue, clientVars, poolVars, agentVars, recVars, history
<1>7. ASSUME NEW t \in Tasks, Cancel(t) PROVE TypeOK'
  BY <1>7 DEF Cancel, SetStatus, TypeOK, Statuses, CliStates, PcStates,
     NoRoute, NoRescue, clientVars, poolVars, agentVars, recVars, history
<1>8. ASSUME NEW t \in Tasks, LoseMail(t) PROVE TypeOK'
  BY <1>8 DEF LoseMail, Fault, TypeOK, Statuses, CliStates, PcStates, NoRoute,
     NoRescue, clientVars, poolVars, agentVars, recVars, history
<1>9. ASSUME NEW t \in Tasks, Take(t) PROVE TypeOK'
  <2>1. ASSUME NEW a \in known, route' = [task |-> t, agent |-> a],
               UNCHANGED <<spawns, dropped>>
        PROVE  TypeOK'
    <3>1. route' \in [task : Tasks, agent : Agents] /\ route' # NoRoute
      BY <1>9, <2>1 DEF TypeOK, NoRoute, Tasks
    <3>2. route'.task = t
      BY <2>1
    <3> QED
      BY <1>9, <2>1, <3>1, <3>2 DEF Take, TypeOK, Statuses, CliStates,
         PcStates, NoRoute, NoRescue,
         clientVars, poolVars, agentVars, recVars, history
  <2>2. ASSUME dropped' = [dropped EXCEPT ![t] = TRUE], UNCHANGED route,
               spawns' \in {spawns, spawns + 1}
        PROVE  TypeOK'
    BY <1>9, <2>2 DEF Take, TypeOK, Statuses, CliStates, PcStates, NoRoute,
       NoRescue,
       clientVars, poolVars, agentVars, recVars, history
  <2> QED
    BY <1>9, <2>1, <2>2 DEF Take
<1>10. CASE Assign
  BY <1>10 DEF Assign, SetStatus, TypeOK, Statuses, CliStates, PcStates,
     NoRoute, NoRescue, clientVars, poolVars, agentVars, recVars, history
<1>11. CASE FailAssign
  BY <1>11 DEF FailAssign, Fault, TypeOK, Statuses, CliStates, PcStates,
     NoRoute, NoRescue, clientVars, poolVars, agentVars, recVars, history
<1>12. CASE PoolRestart
  BY <1>12 DEF PoolRestart, Fault, TypeOK, Statuses, CliStates, PcStates,
     NoRoute, NoRescue, clientVars, poolVars, agentVars, recVars, history
<1>13. ASSUME NEW a \in Agents, PoolHear(a) PROVE TypeOK'
  BY <1>13 DEF PoolHear, TypeOK, Statuses, CliStates, PcStates, NoRoute,
     NoRescue, clientVars, poolVars, agentVars, recVars, history
<1>14. ASSUME NEW a \in Agents, PoolReap(a) PROVE TypeOK'
  BY <1>14 DEF PoolReap, Fault, TypeOK, Statuses, CliStates, PcStates,
     NoRoute, NoRescue, clientVars, poolVars, agentVars, recVars, history
<1>15. ASSUME NEW a \in Agents, Start(a) PROVE TypeOK'
  BY <1>15 DEF Start, TypeOK, Statuses, CliStates, PcStates, NoRoute,
     NoRescue, clientVars, poolVars, agentVars, recVars, history
<1>16. ASSUME NEW a \in Agents, Finish(a) PROVE TypeOK'
  <2>1. PICK st \in {"COMPLETED", "FAILED"} : SetStatus(job[a], st)
    BY <1>16 DEF Finish
  <2> QED
    BY <1>16, <2>1 DEF Finish, SetStatus, TypeOK, Statuses, CliStates,
       PcStates, NoRoute, NoRescue,
       clientVars, poolVars, agentVars, recVars, history
<1>17. ASSUME NEW a \in Agents, Wrapup(a) PROVE TypeOK'
  BY <1>17 DEF Wrapup, TypeOK, Statuses, CliStates, PcStates, NoRoute,
     NoRescue, clientVars, poolVars, agentVars, recVars, history
<1>18. ASSUME NEW a \in Agents, SaveCheckpoint(a) PROVE TypeOK'
  BY <1>18 DEF SaveCheckpoint, TypeOK, Statuses, CliStates, PcStates, NoRoute,
     NoRescue, clientVars, poolVars, agentVars, recVars, history
<1>19. ASSUME NEW a \in Agents, LeaveCheckpoint(a) PROVE TypeOK'
  BY <1>19 DEF LeaveCheckpoint, Fault, TypeOK, Statuses, CliStates, PcStates,
     NoRoute, NoRescue, clientVars, poolVars, agentVars, recVars, history
<1>20. ASSUME NEW a \in Agents, Abort(a) PROVE TypeOK'
  <2>1. orphaned' \in [Tasks -> BOOLEAN]
    BY <1>20 DEF Abort, TypeOK
  <2> QED
    BY <1>20, <2>1 DEF Abort, Fault, TypeOK, Statuses, CliStates, PcStates,
       NoRoute, NoRescue,
       clientVars, poolVars, agentVars, recVars, history
<1>21. ASSUME NEW a \in Agents, Die(a) PROVE TypeOK'
  BY <1>21 DEF Die, Fault, TypeOK, Statuses, CliStates, PcStates, NoRoute,
     NoRescue, clientVars, poolVars, agentVars, recVars, history
<1>22. ASSUME NEW a \in Agents, RecHear(a) PROVE TypeOK'
  BY <1>22 DEF RecHear, TypeOK, Statuses, CliStates, PcStates, NoRoute,
     NoRescue, clientVars, poolVars, agentVars, recVars, history
<1>23. ASSUME NEW a \in Agents, RecFind(a) PROVE TypeOK'
  <2>1. rescue' = rescue \/ \E t \in Tasks : rescue' = [task |-> t, step |-> "lookup"]
    BY <1>23 DEF RecFind, AssignedTo
  <2>2. rescue' \in [task : Tasks, step : {"lookup", "requeue", "publish"}]
                   \cup {NoRescue}
    BY <2>1 DEF TypeOK
  <2> QED
    BY <1>23, <2>2 DEF RecFind, TypeOK, Statuses, CliStates, PcStates,
       NoRoute, NoRescue,
       clientVars, poolVars, agentVars, recVars, history
<1>24. ASSUME NEW a \in Agents, NEW t \in Tasks, Claim(a, t) PROVE TypeOK'
  BY <1>24 DEF Claim, SetStatus, TypeOK, Statuses, CliStates, PcStates,
     NoRoute, NoRescue, clientVars, poolVars, agentVars, recVars, history
<1>25. ASSUME NEW D \in SUBSET Agents, RecReap(D) PROVE TypeOK'
  BY <1>25 DEF RecReap, Fault, TypeOK, Statuses, CliStates, PcStates, NoRoute,
     NoRescue, clientVars, poolVars, agentVars, recVars, history
<1>26. CASE RecLookup
  BY <1>26 DEF RecLookup, TypeOK, Statuses, CliStates, PcStates, NoRoute,
     NoRescue, clientVars, poolVars, agentVars, recVars, history
<1>27. CASE RecRequeue
  BY <1>27 DEF RecRequeue, SetStatus, TypeOK, Statuses, CliStates, PcStates,
     NoRoute, NoRescue, clientVars, poolVars, agentVars, recVars, history
<1>28. CASE RecPublish
  BY <1>28 DEF RecPublish, Post, TypeOK, Statuses, CliStates, PcStates,
     NoRoute, NoRescue, clientVars, poolVars, agentVars, recVars, history
<1>29. CASE RecFail
  BY <1>29 DEF RecFail, Fault, TypeOK, Statuses, CliStates, PcStates, NoRoute,
     NoRescue, clientVars, poolVars, agentVars, recVars, history
<1>30. CASE RecRestart
  BY <1>30 DEF RecRestart, Fault, TypeOK, Statuses, CliStates, PcStates,
     NoRoute, NoRescue, clientVars, poolVars, agentVars, recVars, history
<1>31. CASE UNCHANGED vars
  BY <1>31 DEF vars, TypeOK, Statuses, CliStates, PcStates, NoRoute, NoRescue,
     clientVars, poolVars, agentVars, recVars, history
<1> QED
  BY <1>1, <1>2, <1>3, <1>4, <1>5, <1>6, <1>7, <1>8, <1>9, <1>10, <1>11,
     <1>12, <1>13, <1>14, <1>15, <1>16, <1>17, <1>18, <1>19, <1>20, <1>21,
     <1>22, <1>23, <1>24, <1>25, <1>26, <1>27, <1>28, <1>29, <1>30, <1>31
     DEF Next, User, Cli, PoolReceives, AgentRuns, RecoveryRuns

\* Every step keeps the runs, made and outstanding, paid for.
LEMMA PaidStep ==
  TypeOK /\ PaidInv /\ [Next]_vars => PaidInv'
<1> SUFFICES ASSUME TypeOK, PaidInv, [Next]_vars
             PROVE  PaidInv'
  OBVIOUS
<1>1. ASSUME NEW t \in Tasks, Submit(t) PROVE PaidInv'
  BY <1>1 DEF Submit, SetStatus, TypeOK, PaidInv, Outstanding, NoRoute,
     clientVars, poolVars, agentVars, recVars, history
<1>2. ASSUME NEW t \in Tasks, SubmitAssign(t) PROVE PaidInv'
  BY <1>2 DEF SubmitAssign, SetStatus, TypeOK, PaidInv, Outstanding, NoRoute,
     clientVars, poolVars, agentVars, recVars, history
<1>3. ASSUME NEW t \in Tasks, Publish(t) PROVE PaidInv'
  BY <1>3 DEF Publish, Post, TypeOK, PaidInv, Outstanding, NoRoute,
     clientVars, poolVars, agentVars, recVars, history
<1>4. ASSUME NEW t \in Tasks, RetryCheck(t) PROVE PaidInv'
  BY <1>4 DEF RetryCheck, TypeOK, PaidInv, Outstanding, NoRoute, clientVars,
     poolVars, agentVars, recVars, history
<1>5. ASSUME NEW t \in Tasks, RetryReset(t) PROVE PaidInv'
  BY <1>5 DEF RetryReset, SetStatus, TypeOK, PaidInv, Outstanding, NoRoute,
     clientVars, poolVars, agentVars, recVars, history
<1>6. ASSUME NEW t \in Tasks, CliCrash(t) PROVE PaidInv'
  BY <1>6 DEF CliCrash, Fault, TypeOK, PaidInv, Outstanding, NoRoute,
     clientVars, poolVars, agentVars, recVars, history
<1>7. ASSUME NEW t \in Tasks, Cancel(t) PROVE PaidInv'
  BY <1>7 DEF Cancel, SetStatus, TypeOK, PaidInv, Outstanding, NoRoute,
     clientVars, poolVars, agentVars, recVars, history
<1>8. ASSUME NEW t \in Tasks, LoseMail(t) PROVE PaidInv'
  BY <1>8 DEF LoseMail, Fault, TypeOK, PaidInv, Outstanding, NoRoute,
     clientVars, poolVars, agentVars, recVars, history
<1>9. ASSUME NEW t \in Tasks, Take(t) PROVE PaidInv'
  BY <1>9 DEF Take, TypeOK, PaidInv, Outstanding, NoRoute, clientVars,
     poolVars, agentVars, recVars, history
<1>10. CASE Assign
  <2>1. route.task \in Tasks
    BY <1>10 DEF Assign, TypeOK, NoRoute
  <2>2. route'.task = 0
    BY <1>10 DEF Assign, NoRoute
  <2> QED
    BY <1>10, <2>1, <2>2 DEF Assign, SetStatus, TypeOK, PaidInv, Outstanding,
       Tasks,
       clientVars, poolVars, agentVars, recVars, history
<1>11. CASE FailAssign
  <2>1. route.task \in Tasks
    BY <1>11 DEF FailAssign, TypeOK, NoRoute
  <2>2. route'.task = 0
    BY <1>11 DEF FailAssign, NoRoute
  <2> QED
    BY <1>11, <2>1, <2>2 DEF FailAssign, Fault, TypeOK, PaidInv, Outstanding,
       Tasks,
       clientVars, poolVars, agentVars, recVars, history
<1>12. CASE PoolRestart
  <2>1. route'.task = 0
    BY <1>12 DEF PoolRestart, NoRoute
  <2> QED
    BY <1>12, <2>1 DEF PoolRestart, Fault, TypeOK, PaidInv, Outstanding,
       Tasks,
       clientVars, poolVars, agentVars, recVars, history
<1>13. ASSUME NEW a \in Agents, PoolHear(a) PROVE PaidInv'
  BY <1>13 DEF PoolHear, TypeOK, PaidInv, Outstanding, NoRoute, clientVars,
     poolVars, agentVars, recVars, history
<1>14. ASSUME NEW a \in Agents, PoolReap(a) PROVE PaidInv'
  BY <1>14 DEF PoolReap, Fault, TypeOK, PaidInv, Outstanding, NoRoute,
     clientVars, poolVars, agentVars, recVars, history
<1>15. ASSUME NEW a \in Agents, Start(a) PROVE PaidInv'
  BY <1>15 DEF Start, TypeOK, PaidInv, Outstanding, NoRoute, clientVars,
     poolVars, agentVars, recVars, history
<1>16. ASSUME NEW a \in Agents, Finish(a) PROVE PaidInv'
  BY <1>16 DEF Finish, SetStatus, TypeOK, PaidInv, Outstanding, NoRoute,
     clientVars, poolVars, agentVars, recVars, history
<1>17. ASSUME NEW a \in Agents, Wrapup(a) PROVE PaidInv'
  BY <1>17 DEF Wrapup, TypeOK, PaidInv, Outstanding, NoRoute, clientVars,
     poolVars, agentVars, recVars, history
<1>18. ASSUME NEW a \in Agents, SaveCheckpoint(a) PROVE PaidInv'
  BY <1>18 DEF SaveCheckpoint, TypeOK, PaidInv, Outstanding, NoRoute,
     clientVars, poolVars, agentVars, recVars, history
<1>19. ASSUME NEW a \in Agents, LeaveCheckpoint(a) PROVE PaidInv'
  BY <1>19 DEF LeaveCheckpoint, Fault, TypeOK, PaidInv, Outstanding, NoRoute,
     clientVars, poolVars, agentVars, recVars, history
<1>20. ASSUME NEW a \in Agents, Abort(a) PROVE PaidInv'
  BY <1>20 DEF Abort, Fault, TypeOK, PaidInv, Outstanding, NoRoute,
     clientVars, poolVars, agentVars, recVars, history
<1>21. ASSUME NEW a \in Agents, Die(a) PROVE PaidInv'
  BY <1>21 DEF Die, Fault, TypeOK, PaidInv, Outstanding, NoRoute, clientVars,
     poolVars, agentVars, recVars, history
<1>22. ASSUME NEW a \in Agents, RecHear(a) PROVE PaidInv'
  BY <1>22 DEF RecHear, TypeOK, PaidInv, Outstanding, NoRoute, clientVars,
     poolVars, agentVars, recVars, history
<1>23. ASSUME NEW a \in Agents, RecFind(a) PROVE PaidInv'
  BY <1>23 DEF RecFind, TypeOK, PaidInv, Outstanding, NoRoute, clientVars,
     poolVars, agentVars, recVars, history
<1>24. ASSUME NEW a \in Agents, NEW t \in Tasks, Claim(a, t) PROVE PaidInv'
  BY <1>24 DEF Claim, SetStatus, TypeOK, PaidInv, Outstanding, NoRoute,
     clientVars, poolVars, agentVars, recVars, history
<1>25. ASSUME NEW D \in SUBSET Agents, RecReap(D) PROVE PaidInv'
  BY <1>25 DEF RecReap, Fault, TypeOK, PaidInv, Outstanding, NoRoute,
     clientVars, poolVars, agentVars, recVars, history
<1>26. CASE RecLookup
  BY <1>26 DEF RecLookup, TypeOK, PaidInv, Outstanding, NoRoute, clientVars,
     poolVars, agentVars, recVars, history
<1>27. CASE RecRequeue
  BY <1>27 DEF RecRequeue, SetStatus, TypeOK, PaidInv, Outstanding, NoRoute,
     clientVars, poolVars, agentVars, recVars, history
<1>28. CASE RecPublish
  BY <1>28 DEF RecPublish, Post, TypeOK, PaidInv, Outstanding, NoRoute,
     clientVars, poolVars, agentVars, recVars, history
<1>29. CASE RecFail
  BY <1>29 DEF RecFail, Fault, TypeOK, PaidInv, Outstanding, NoRoute,
     clientVars, poolVars, agentVars, recVars, history
<1>30. CASE RecRestart
  BY <1>30 DEF RecRestart, Fault, TypeOK, PaidInv, Outstanding, NoRoute,
     clientVars, poolVars, agentVars, recVars, history
<1>31. CASE UNCHANGED vars
  BY <1>31 DEF vars, TypeOK, PaidInv, Outstanding, NoRoute, clientVars,
     poolVars, agentVars, recVars, history
<1> QED
  BY <1>1, <1>2, <1>3, <1>4, <1>5, <1>6, <1>7, <1>8, <1>9, <1>10, <1>11,
     <1>12, <1>13, <1>14, <1>15, <1>16, <1>17, <1>18, <1>19, <1>20, <1>21,
     <1>22, <1>23, <1>24, <1>25, <1>26, <1>27, <1>28, <1>29, <1>30, <1>31
     DEF Next, User, Cli, PoolReceives, AgentRuns, RecoveryRuns

\* Every step keeps what tracks a PENDING task.
LEMMA PendingStep ==
  TypeOK /\ PendingIsTracked /\ [Next]_vars => PendingIsTracked'
<1> SUFFICES ASSUME TypeOK, PendingIsTracked, [Next]_vars
             PROVE  PendingIsTracked'
  OBVIOUS
<1>1. ASSUME NEW t \in Tasks, Submit(t) PROVE PendingIsTracked'
  BY <1>1 DEF Submit, SetStatus, TypeOK, PendingIsTracked, NoRoute, NoRescue,
     clientVars, poolVars, agentVars, recVars, history
<1>2. ASSUME NEW t \in Tasks, SubmitAssign(t) PROVE PendingIsTracked'
  BY <1>2 DEF SubmitAssign, SetStatus, TypeOK, PendingIsTracked, NoRoute,
     NoRescue, clientVars, poolVars, agentVars, recVars, history
<1>3. ASSUME NEW t \in Tasks, Publish(t) PROVE PendingIsTracked'
  BY <1>3 DEF Publish, Post, TypeOK, PendingIsTracked, NoRoute, NoRescue,
     clientVars, poolVars, agentVars, recVars, history
<1>4. ASSUME NEW t \in Tasks, RetryCheck(t) PROVE PendingIsTracked'
  BY <1>4 DEF RetryCheck, TypeOK, PendingIsTracked, NoRoute, NoRescue,
     clientVars, poolVars, agentVars, recVars, history
<1>5. ASSUME NEW t \in Tasks, RetryReset(t) PROVE PendingIsTracked'
  BY <1>5 DEF RetryReset, SetStatus, TypeOK, PendingIsTracked, NoRoute,
     NoRescue, clientVars, poolVars, agentVars, recVars, history
<1>6. ASSUME NEW t \in Tasks, CliCrash(t) PROVE PendingIsTracked'
  BY <1>6 DEF CliCrash, Fault, TypeOK, PendingIsTracked, NoRoute, NoRescue,
     clientVars, poolVars, agentVars, recVars, history
<1>7. ASSUME NEW t \in Tasks, Cancel(t) PROVE PendingIsTracked'
  BY <1>7 DEF Cancel, SetStatus, TypeOK, PendingIsTracked, NoRoute, NoRescue,
     clientVars, poolVars, agentVars, recVars, history
<1>8. ASSUME NEW t \in Tasks, LoseMail(t) PROVE PendingIsTracked'
  BY <1>8 DEF LoseMail, Fault, TypeOK, PendingIsTracked, NoRoute, NoRescue,
     clientVars, poolVars, agentVars, recVars, history
<1>9. ASSUME NEW t \in Tasks, Take(t) PROVE PendingIsTracked'
  <2>1. ASSUME NEW a \in known, route' = [task |-> t, agent |-> a],
               UNCHANGED <<spawns, dropped>>
        PROVE  PendingIsTracked'
    <3>1. route' \in [task : Tasks, agent : Agents] /\ route' # NoRoute
      BY <1>9, <2>1 DEF TypeOK, NoRoute, Tasks
    <3>2. route'.task = t
      BY <2>1
    <3> QED
      BY <1>9, <2>1, <3>1, <3>2 DEF Take, TypeOK, PendingIsTracked, NoRoute,
         Tasks,
         clientVars, poolVars, agentVars, recVars, history
  <2>2. ASSUME dropped' = [dropped EXCEPT ![t] = TRUE], UNCHANGED route,
               spawns' \in {spawns, spawns + 1}
        PROVE  PendingIsTracked'
    BY <1>9, <2>2 DEF Take, TypeOK, PendingIsTracked, NoRoute, Tasks,
       clientVars, poolVars, agentVars, recVars, history
  <2> QED
    BY <1>9, <2>1, <2>2 DEF Take
<1>10. CASE Assign
  BY <1>10 DEF Assign, SetStatus, TypeOK, PendingIsTracked, NoRoute, NoRescue,
     clientVars, poolVars, agentVars, recVars, history
<1>11. CASE FailAssign
  BY <1>11 DEF FailAssign, Fault, TypeOK, PendingIsTracked, NoRoute, NoRescue,
     clientVars, poolVars, agentVars, recVars, history
<1>12. CASE PoolRestart
  BY <1>12 DEF PoolRestart, Fault, TypeOK, PendingIsTracked, NoRoute,
     NoRescue, clientVars, poolVars, agentVars, recVars, history
<1>13. ASSUME NEW a \in Agents, PoolHear(a) PROVE PendingIsTracked'
  BY <1>13 DEF PoolHear, TypeOK, PendingIsTracked, NoRoute, NoRescue,
     clientVars, poolVars, agentVars, recVars, history
<1>14. ASSUME NEW a \in Agents, PoolReap(a) PROVE PendingIsTracked'
  BY <1>14 DEF PoolReap, Fault, TypeOK, PendingIsTracked, NoRoute, NoRescue,
     clientVars, poolVars, agentVars, recVars, history
<1>15. ASSUME NEW a \in Agents, Start(a) PROVE PendingIsTracked'
  BY <1>15 DEF Start, TypeOK, PendingIsTracked, NoRoute, NoRescue, clientVars,
     poolVars, agentVars, recVars, history
<1>16. ASSUME NEW a \in Agents, Finish(a) PROVE PendingIsTracked'
  BY <1>16 DEF Finish, SetStatus, TypeOK, PendingIsTracked, NoRoute, NoRescue,
     clientVars, poolVars, agentVars, recVars, history
<1>17. ASSUME NEW a \in Agents, Wrapup(a) PROVE PendingIsTracked'
  BY <1>17 DEF Wrapup, TypeOK, PendingIsTracked, NoRoute, NoRescue,
     clientVars, poolVars, agentVars, recVars, history
<1>18. ASSUME NEW a \in Agents, SaveCheckpoint(a) PROVE PendingIsTracked'
  BY <1>18 DEF SaveCheckpoint, TypeOK, PendingIsTracked, NoRoute, NoRescue,
     clientVars, poolVars, agentVars, recVars, history
<1>19. ASSUME NEW a \in Agents, LeaveCheckpoint(a) PROVE PendingIsTracked'
  BY <1>19 DEF LeaveCheckpoint, Fault, TypeOK, PendingIsTracked, NoRoute,
     NoRescue, clientVars, poolVars, agentVars, recVars, history
<1>20. ASSUME NEW a \in Agents, Abort(a) PROVE PendingIsTracked'
  BY <1>20 DEF Abort, Fault, TypeOK, PendingIsTracked, NoRoute, NoRescue,
     clientVars, poolVars, agentVars, recVars, history
<1>21. ASSUME NEW a \in Agents, Die(a) PROVE PendingIsTracked'
  BY <1>21 DEF Die, Fault, TypeOK, PendingIsTracked, NoRoute, NoRescue,
     clientVars, poolVars, agentVars, recVars, history
<1>22. ASSUME NEW a \in Agents, RecHear(a) PROVE PendingIsTracked'
  BY <1>22 DEF RecHear, TypeOK, PendingIsTracked, NoRoute, NoRescue,
     clientVars, poolVars, agentVars, recVars, history
<1>23. ASSUME NEW a \in Agents, RecFind(a) PROVE PendingIsTracked'
  BY <1>23 DEF RecFind, TypeOK, PendingIsTracked, NoRoute, NoRescue,
     clientVars, poolVars, agentVars, recVars, history
<1>24. ASSUME NEW a \in Agents, NEW t \in Tasks, Claim(a, t) PROVE PendingIsTracked'
  BY <1>24 DEF Claim, SetStatus, TypeOK, PendingIsTracked, NoRoute, NoRescue,
     clientVars, poolVars, agentVars, recVars, history
<1>25. ASSUME NEW D \in SUBSET Agents, RecReap(D) PROVE PendingIsTracked'
  BY <1>25 DEF RecReap, Fault, TypeOK, PendingIsTracked, NoRoute, NoRescue,
     clientVars, poolVars, agentVars, recVars, history
<1>26. CASE RecLookup
  BY <1>26 DEF RecLookup, TypeOK, PendingIsTracked, NoRoute, NoRescue,
     clientVars, poolVars, agentVars, recVars, history
<1>27. CASE RecRequeue
  BY <1>27 DEF RecRequeue, SetStatus, TypeOK, PendingIsTracked, NoRoute,
     NoRescue, clientVars, poolVars, agentVars, recVars, history
<1>28. CASE RecPublish
  BY <1>28 DEF RecPublish, Post, TypeOK, PendingIsTracked, NoRoute, NoRescue,
     clientVars, poolVars, agentVars, recVars, history
<1>29. CASE RecFail
  <2>1. rescue' = NoRescue
    BY <1>29 DEF RecFail
  <2>2. ASSUME NEW t \in Tasks, rescue = [task |-> t, step |-> "publish"]
        PROVE  dropped'[t]
    BY <1>29, <2>2 DEF RecFail, TypeOK
  <2>3. ASSUME NEW t \in Tasks, dropped[t] PROVE dropped'[t]
    BY <1>29, <2>3 DEF RecFail, TypeOK
  <2> QED
    BY <1>29, <2>1, <2>2, <2>3 DEF RecFail, PendingIsTracked,
       clientVars, poolVars, agentVars, recVars, history
<1>30. CASE RecRestart
  <2>1. rescue' = NoRescue
    BY <1>30 DEF RecRestart
  <2>2. ASSUME NEW t \in Tasks, rescue = [task |-> t, step |-> "publish"]
        PROVE  dropped'[t]
    BY <1>30, <2>2 DEF RecRestart, TypeOK
  <2>3. ASSUME NEW t \in Tasks, dropped[t] PROVE dropped'[t]
    BY <1>30, <2>3 DEF RecRestart, TypeOK
  <2> QED
    BY <1>30, <2>1, <2>2, <2>3 DEF RecRestart, PendingIsTracked,
       clientVars, poolVars, agentVars, recVars, history
<1>31. CASE UNCHANGED vars
  BY <1>31 DEF vars, TypeOK, PendingIsTracked, NoRoute, NoRescue, clientVars,
     poolVars, agentVars, recVars, history
<1> QED
  BY <1>1, <1>2, <1>3, <1>4, <1>5, <1>6, <1>7, <1>8, <1>9, <1>10, <1>11,
     <1>12, <1>13, <1>14, <1>15, <1>16, <1>17, <1>18, <1>19, <1>20, <1>21,
     <1>22, <1>23, <1>24, <1>25, <1>26, <1>27, <1>28, <1>29, <1>30, <1>31
     DEF Next, User, Cli, PoolReceives, AgentRuns, RecoveryRuns

\* Every step keeps what tracks a RUNNING task.
LEMMA RunningStep ==
  TypeOK /\ RunningIsTracked /\ [Next]_vars => RunningIsTracked'
<1> SUFFICES ASSUME TypeOK, RunningIsTracked, [Next]_vars
             PROVE  RunningIsTracked'
  OBVIOUS
<1>1. ASSUME NEW t \in Tasks, Submit(t) PROVE RunningIsTracked'
  BY <1>1 DEF Submit, SetStatus, TypeOK, RunningIsTracked, clientVars,
     poolVars, agentVars, recVars, history
<1>2. ASSUME NEW t \in Tasks, SubmitAssign(t) PROVE RunningIsTracked'
  BY <1>2 DEF SubmitAssign, SetStatus, TypeOK, RunningIsTracked, clientVars,
     poolVars, agentVars, recVars, history
<1>3. ASSUME NEW t \in Tasks, Publish(t) PROVE RunningIsTracked'
  BY <1>3 DEF Publish, Post, TypeOK, RunningIsTracked, clientVars, poolVars,
     agentVars, recVars, history
<1>4. ASSUME NEW t \in Tasks, RetryCheck(t) PROVE RunningIsTracked'
  BY <1>4 DEF RetryCheck, TypeOK, RunningIsTracked, clientVars, poolVars,
     agentVars, recVars, history
<1>5. ASSUME NEW t \in Tasks, RetryReset(t) PROVE RunningIsTracked'
  BY <1>5 DEF RetryReset, SetStatus, TypeOK, RunningIsTracked, clientVars,
     poolVars, agentVars, recVars, history
<1>6. ASSUME NEW t \in Tasks, CliCrash(t) PROVE RunningIsTracked'
  BY <1>6 DEF CliCrash, Fault, TypeOK, RunningIsTracked, clientVars, poolVars,
     agentVars, recVars, history
<1>7. ASSUME NEW t \in Tasks, Cancel(t) PROVE RunningIsTracked'
  BY <1>7 DEF Cancel, SetStatus, TypeOK, RunningIsTracked, clientVars,
     poolVars, agentVars, recVars, history
<1>8. ASSUME NEW t \in Tasks, LoseMail(t) PROVE RunningIsTracked'
  BY <1>8 DEF LoseMail, Fault, TypeOK, RunningIsTracked, clientVars, poolVars,
     agentVars, recVars, history
<1>9. ASSUME NEW t \in Tasks, Take(t) PROVE RunningIsTracked'
  BY <1>9 DEF Take, TypeOK, RunningIsTracked, clientVars, poolVars, agentVars,
     recVars, history
<1>10. CASE Assign
  BY <1>10 DEF Assign, SetStatus, TypeOK, RunningIsTracked, clientVars,
     poolVars, agentVars, recVars, history
<1>11. CASE FailAssign
  BY <1>11 DEF FailAssign, Fault, TypeOK, RunningIsTracked, clientVars,
     poolVars, agentVars, recVars, history
<1>12. CASE PoolRestart
  BY <1>12 DEF PoolRestart, Fault, TypeOK, RunningIsTracked, clientVars,
     poolVars, agentVars, recVars, history
<1>13. ASSUME NEW a \in Agents, PoolHear(a) PROVE RunningIsTracked'
  BY <1>13 DEF PoolHear, TypeOK, RunningIsTracked, clientVars, poolVars,
     agentVars, recVars, history
<1>14. ASSUME NEW a \in Agents, PoolReap(a) PROVE RunningIsTracked'
  BY <1>14 DEF PoolReap, Fault, TypeOK, RunningIsTracked, clientVars,
     poolVars, agentVars, recVars, history
<1>15. ASSUME NEW a \in Agents, Start(a) PROVE RunningIsTracked'
  BY <1>15 DEF Start, TypeOK, RunningIsTracked, clientVars, poolVars,
     agentVars, recVars, history
<1>16. ASSUME NEW a \in Agents, Finish(a) PROVE RunningIsTracked'
  BY <1>16 DEF Finish, SetStatus, TypeOK, RunningIsTracked, clientVars,
     poolVars, agentVars, recVars, history
<1>17. ASSUME NEW a \in Agents, Wrapup(a) PROVE RunningIsTracked'
  BY <1>17 DEF Wrapup, TypeOK, RunningIsTracked, clientVars, poolVars,
     agentVars, recVars, history
<1>18. ASSUME NEW a \in Agents, SaveCheckpoint(a) PROVE RunningIsTracked'
  BY <1>18 DEF SaveCheckpoint, TypeOK, RunningIsTracked, clientVars, poolVars,
     agentVars, recVars, history
<1>19. ASSUME NEW a \in Agents, LeaveCheckpoint(a) PROVE RunningIsTracked'
  BY <1>19 DEF LeaveCheckpoint, Fault, TypeOK, RunningIsTracked, clientVars,
     poolVars, agentVars, recVars, history
<1>20. ASSUME NEW a \in Agents, Abort(a) PROVE RunningIsTracked'
  BY <1>20 DEF Abort, Fault, TypeOK, RunningIsTracked, clientVars, poolVars,
     agentVars, recVars, history
<1>21. ASSUME NEW a \in Agents, Die(a) PROVE RunningIsTracked'
  BY <1>21 DEF Die, Fault, TypeOK, RunningIsTracked, clientVars, poolVars,
     agentVars, recVars, history
<1>22. ASSUME NEW a \in Agents, RecHear(a) PROVE RunningIsTracked'
  BY <1>22 DEF RecHear, TypeOK, RunningIsTracked, clientVars, poolVars,
     agentVars, recVars, history
<1>23. ASSUME NEW a \in Agents, RecFind(a) PROVE RunningIsTracked'
  BY <1>23 DEF RecFind, TypeOK, RunningIsTracked, clientVars, poolVars,
     agentVars, recVars, history
<1>24. ASSUME NEW a \in Agents, NEW t \in Tasks, Claim(a, t) PROVE RunningIsTracked'
  BY <1>24 DEF Claim, SetStatus, TypeOK, RunningIsTracked, clientVars,
     poolVars, agentVars, recVars, history
<1>25. ASSUME NEW D \in SUBSET Agents, RecReap(D) PROVE RunningIsTracked'
  BY <1>25 DEF RecReap, Fault, TypeOK, RunningIsTracked, clientVars, poolVars,
     agentVars, recVars, history
<1>26. CASE RecLookup
  BY <1>26 DEF RecLookup, TypeOK, RunningIsTracked, clientVars, poolVars,
     agentVars, recVars, history
<1>27. CASE RecRequeue
  BY <1>27 DEF RecRequeue, SetStatus, TypeOK, RunningIsTracked, clientVars,
     poolVars, agentVars, recVars, history
<1>28. CASE RecPublish
  BY <1>28 DEF RecPublish, Post, TypeOK, RunningIsTracked, clientVars,
     poolVars, agentVars, recVars, history
<1>29. CASE RecFail
  BY <1>29 DEF RecFail, Fault, TypeOK, RunningIsTracked, clientVars, poolVars,
     agentVars, recVars, history
<1>30. CASE RecRestart
  BY <1>30 DEF RecRestart, Fault, TypeOK, RunningIsTracked, clientVars,
     poolVars, agentVars, recVars, history
<1>31. CASE UNCHANGED vars
  BY <1>31 DEF vars, TypeOK, RunningIsTracked, clientVars, poolVars,
     agentVars, recVars, history
<1> QED
  BY <1>1, <1>2, <1>3, <1>4, <1>5, <1>6, <1>7, <1>8, <1>9, <1>10, <1>11,
     <1>12, <1>13, <1>14, <1>15, <1>16, <1>17, <1>18, <1>19, <1>20, <1>21,
     <1>22, <1>23, <1>24, <1>25, <1>26, <1>27, <1>28, <1>29, <1>30, <1>31
     DEF Next, User, Cli, PoolReceives, AgentRuns, RecoveryRuns

\* The variables of the task lifecycle stay in their types.
THEOREM LifecycleTypes == Spec => []TypeOK
<1>1. Init => TypeOK
  BY LifecycleAssumption DEF Init, TypeOK, Statuses, CliStates, PcStates,
     NoRoute, NoRescue
<1> QED
  BY <1>1, TypeStep, PTL DEF Spec

\* However the CLI, the pool controller and the recovery controller overwrite
\* each other's status, a task is claimed at most once for its submission and
\* once for each message published for it.
THEOREM LifecycleRunsArePaidFor == Spec => []RunsArePaidFor
<1>1. Init => PaidInv
  BY DEF Init, PaidInv, Outstanding, NoRoute, Tasks
<1>2. TypeOK /\ PaidInv => RunsArePaidFor
  BY DEF TypeOK, PaidInv, Outstanding, RunsArePaidFor
<1> QED
  BY <1>1, <1>2, LifecycleTypes, PaidStep, PTL DEF Spec

\* A PENDING task, for which nobody polls, always has a writer about to send a
\* message or a message under way, unless one came to nothing.
THEOREM LifecyclePendingIsTracked == Spec => []PendingIsTracked
<1>1. Init => PendingIsTracked
  BY DEF Init, PendingIsTracked
<1> QED
  BY <1>1, LifecycleTypes, PendingStep, PTL DEF Spec

\* Behind a RUNNING task there is an agent that runs it, unless one gave it up.
THEOREM LifecycleRunningIsTracked == Spec => []RunningIsTracked
<1>1. Init => RunningIsTracked
  BY DEF Init, RunningIsTracked
<1> QED
  BY <1>1, LifecycleTypes, RunningStep, PTL DEF Spec
=============================================================================
