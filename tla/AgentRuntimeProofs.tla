------------------------- MODULE AgentRuntimeProofs -------------------------
(***************************************************************************)
(* Theorems about the agents and their checkpoints, for any number of      *)
(* agents, tasks, rounds, commands and faults.                             *)
(*                                                                         *)
(* RowsAreWorked and CheckpointsAreDeleted are inductive with the types    *)
(* and the shape of an agent.  ReportsItsWork becomes so as ReportInv.     *)
(* LoadIsNewest speaks of moments when nobody writes: CleanInv follows the *)
(* stores through a save or a deletion nothing disturbs, and QuietInv is   *)
(* what it leaves behind.  RuntimeInv is all of them.                      *)
(***************************************************************************)
EXTENDS AgentRuntime, TLAPS

\* A dead agent does nothing, an agent that does not poll has a task, and one
\* that will call has a round left.
Shape ==
  \A a \in Agents :
    /\ ~live[a] => pc[a] = "poll"
    /\ pc[a] = "poll" <=> job[a] = None
    /\ pc[a] \in {"warm", "call"} => rounds[a] < MaxRounds

\* Every step keeps the shape.
LEMMA ShapeStep ==
  TypeOK /\ Shape /\ [Next]_vars => Shape'
<1> SUFFICES ASSUME TypeOK, Shape, [Next]_vars
             PROVE  Shape'
  OBVIOUS
<1> USE RuntimeAssumption DEF Shape, TypeOK, Running, Working, stores, fields,
        runner, control, bounds, ofStores, ofTasks
<1>1. ASSUME NEW t \in Tasks, Assign(t) PROVE Shape'
  BY <1>1 DEF Assign
<1>2. ASSUME NEW t \in Tasks, ExpireHot(t) PROVE Shape'
  BY <1>2 DEF ExpireHot
<1>3. ASSUME NEW a \in Agents, NEW t \in Tasks, Claim(a, t) PROVE Shape'
  BY <1>3 DEF Claim, At
<1>4. ASSUME NEW a \in Agents, Restore(a) PROVE Shape'
  BY <1>4 DEF Restore, At
<1>5. ASSUME NEW a \in Agents, Answer(a) PROVE Shape'
  BY <1>5 DEF Answer, At
<1>6. ASSUME NEW a \in Agents, Round(a) PROVE Shape'
  <2>1. /\ live[a] /\ pc[a] = "call" /\ rounds[a] < MaxRounds
        /\ UNCHANGED <<live, job>>
        /\ pc' = [pc EXCEPT ![a] = pc'[a]]
        /\ pc'[a] \in {"saveHot", Onward(a, rounds'[a])}
        /\ rounds' = [rounds EXCEPT ![a] = rounds[a] + 1]
    BY <1>6 DEF Round, At
  <2>2. rounds[a] \in Nat /\ rounds'[a] = rounds[a] + 1
    BY <2>1 DEF Conversations
  <2>3. pc'[a] = "call" => rounds'[a] < MaxRounds
    <3>1. pc'[a] = "call" => rounds'[a] # MaxRounds
      BY <2>1 DEF Onward
    <3>2. MaxRounds \in Nat /\ rounds[a] < MaxRounds
      BY <2>1
    <3> HIDE DEF Shape, TypeOK
    <3> QED
      BY <2>2, <3>1, <3>2
  <2>4. pc'[a] \notin {"poll", "warm"}
    BY <2>1 DEF Onward
  <2>5. \A b \in Agents : b # a => pc'[b] = pc[b] /\ rounds'[b] = rounds[b]
    BY <2>1
  <2>6. job[a] # None
    BY <2>1
  <2> QED
    BY <2>1, <2>3, <2>4, <2>5, <2>6
<1>7. ASSUME NEW a \in Agents, GiveUp(a) PROVE Shape'
  BY <1>7 DEF GiveUp, Settle, Leave
<1>8. ASSUME NEW a \in Agents, Raise(a) PROVE Shape'
  BY <1>8 DEF Raise, Leave
<1>9. ASSUME NEW a \in Agents, Write(a) PROVE Shape'
  BY <1>9 DEF Write, At
<1>10. ASSUME NEW a \in Agents, SaveHot(a) PROVE Shape'
  BY <1>10 DEF SaveHot, At
<1>11. ASSUME NEW a \in Agents, SaveOpen(a) PROVE Shape'
  BY <1>11 DEF SaveOpen, At
<1>12. ASSUME NEW a \in Agents, SaveFile(a) PROVE Shape'
  BY <1>12 DEF SaveFile, At
<1>13. ASSUME NEW a \in Agents, SaveRef(a) PROVE Shape'
  BY <1>13 DEF SaveRef, At, Onward, Conversations
<1>14. ASSUME NEW a \in Agents, DelHot(a) PROVE Shape'
  BY <1>14 DEF DelHot, At
<1>15. ASSUME NEW a \in Agents, DelFile(a) PROVE Shape'
  BY <1>15 DEF DelFile, At
<1>16. ASSUME NEW a \in Agents, DelRef(a) PROVE Shape'
  BY <1>16 DEF DelRef, Settle, Leave
<1>17. ASSUME NEW a \in Agents, Pause(a) PROVE Shape'
  BY <1>17 DEF Pause
<1>18. ASSUME NEW a \in Agents, Resume(a) PROVE Shape'
  BY <1>18 DEF Resume
<1>19. ASSUME NEW a \in Agents, Recover(a) PROVE Shape'
  BY <1>19 DEF Recover
<1>20. ASSUME NEW a \in Agents, ResumeLoad(a) PROVE Shape'
  BY <1>20 DEF ResumeLoad
<1>21. ASSUME NEW a \in Agents, ReadTask(a) PROVE Shape'
  BY <1>21 DEF ReadTask
<1>22. ASSUME NEW a \in Agents, WriteTask(a) PROVE Shape'
  BY <1>22 DEF WriteTask
<1>23. ASSUME NEW a \in Agents, Obeyed(a) PROVE Shape'
  BY <1>23 DEF Obeyed
<1>24. ASSUME NEW a \in Agents, RecoverLoad(a) PROVE Shape'
  BY <1>24 DEF RecoverLoad
<1>25. ASSUME NEW a \in Agents, ExpirePaused(a) PROVE Shape'
  BY <1>25 DEF ExpirePaused
<1>26. ASSUME NEW a \in Agents, Crash(a) PROVE Shape'
  BY <1>26 DEF Crash
<1>27. CASE UNCHANGED vars
  BY <1>27 DEF vars
<1> QED
  BY <1>1, <1>2, <1>3, <1>4, <1>5, <1>6, <1>7, <1>8, <1>9, <1>10, <1>11,
     <1>12, <1>13, <1>14, <1>15, <1>16, <1>17, <1>18, <1>19, <1>20, <1>21,
     <1>22, <1>23, <1>24, <1>25, <1>26, <1>27 DEF Next, Execute, Listen

\* Every step keeps the variables in their types.
LEMMA TypeStep ==
  TypeOK /\ Shape /\ [Next]_vars => TypeOK'
<1> SUFFICES ASSUME TypeOK, Shape, [Next]_vars
             PROVE  TypeOK'
  OBVIOUS
<1> USE RuntimeAssumption DEF TypeOK, Running, Working, stores, fields,
        runner, control, bounds, ofStores, ofTasks
<1>1. ASSUME NEW t \in Tasks, Assign(t) PROVE TypeOK'
  BY <1>1 DEF Assign, TaskStatus
<1>2. ASSUME NEW t \in Tasks, ExpireHot(t) PROVE TypeOK'
  BY <1>2 DEF ExpireHot
<1>3. ASSUME NEW a \in Agents, NEW t \in Tasks, Claim(a, t) PROVE TypeOK'
  BY <1>3 DEF Claim, TaskStatus, AgentStates, Conversations
<1>4. ASSUME NEW a \in Agents, Restore(a) PROVE TypeOK'
  BY <1>4 DEF Restore, At, CouldLoad, Loaded, InFile, AgentStates, Snapshots,
     Shape
<1>5. ASSUME NEW a \in Agents, Answer(a) PROVE TypeOK'
  BY <1>5 DEF Answer
<1>6. ASSUME NEW a \in Agents, Round(a) PROVE TypeOK'
  BY <1>6 DEF Round, At, Onward, Conversations, Shape
<1>7. ASSUME NEW a \in Agents, GiveUp(a) PROVE TypeOK'
  BY <1>7 DEF GiveUp, At, Settle, Leave, Happens, AgentStates, Conversations,
     Shape
<1>8. ASSUME NEW a \in Agents, Raise(a) PROVE TypeOK'
  BY <1>8 DEF Raise, Leave, Happens, Conversations, Shape
<1>9. ASSUME NEW a \in Agents, Write(a) PROVE TypeOK'
  BY <1>9 DEF Write, At, TaskStatus
<1>10. ASSUME NEW a \in Agents, SaveHot(a) PROVE TypeOK'
  <2>1. Snapshot(a) \in Snapshots
    BY DEF Snapshot, Snapshots
  <2>2. events' \in Nat
    BY <1>10 DEF SaveHot, Begins, Happens
  <2>3. dirty' \in [Agents -> BOOLEAN]
    BY <1>10 DEF SaveHot, Begins
  <2>4. hot' \in [Tasks -> Snapshots \cup {NoSnapshot}]
    BY <1>10, <2>1 DEF SaveHot
  <2>5. newest' \in [Tasks -> Snapshots \cup {NoSnapshot}]
    BY <1>10, <2>1 DEF SaveHot
  <2> QED
    BY <1>10, <2>2, <2>3, <2>4, <2>5 DEF SaveHot
<1>11. ASSUME NEW a \in Agents, SaveOpen(a) PROVE TypeOK'
  BY <1>11 DEF SaveOpen
<1>12. ASSUME NEW a \in Agents, SaveFile(a) PROVE TypeOK'
  BY <1>12 DEF SaveFile, Snapshot, Snapshots
<1>13. ASSUME NEW a \in Agents, SaveRef(a) PROVE TypeOK'
  <2>1. events' \in Nat
    BY <1>13 DEF SaveRef, Happens
  <2>2. refs' \in [Tasks -> BOOLEAN]
    BY <1>13 DEF SaveRef
  <2>3. mixed' \in [Tasks -> BOOLEAN] /\ dirty' \in [Agents -> BOOLEAN]
    BY <1>13 DEF SaveRef, Ends
  <2>4. pc' \in [Agents -> Running \cup {"poll"}]
    BY <1>13 DEF SaveRef, Onward
  <2> QED
    BY <1>13, <2>1, <2>2, <2>3, <2>4 DEF SaveRef
<1>14. ASSUME NEW a \in Agents, DelHot(a) PROVE TypeOK'
  <2>1. events' \in Nat
    BY <1>14 DEF DelHot, Begins, Happens
  <2>2. dirty' \in [Agents -> BOOLEAN]
    BY <1>14 DEF DelHot, Begins
  <2>3. hot' \in [Tasks -> Snapshots \cup {NoSnapshot}]
    BY <1>14 DEF DelHot
  <2>4. newest' \in [Tasks -> Snapshots \cup {NoSnapshot}]
    BY <1>14 DEF DelHot
  <2> QED
    BY <1>14, <2>1, <2>2, <2>3, <2>4 DEF DelHot
<1>15. ASSUME NEW a \in Agents, DelFile(a) PROVE TypeOK'
  BY <1>15 DEF DelFile
<1>16. ASSUME NEW a \in Agents, DelRef(a) PROVE TypeOK'
  <2>1. events' \in Nat
    BY <1>16 DEF DelRef, Happens
  <2>2. refs' \in [Tasks -> BOOLEAN] /\ left' \in [Tasks -> BOOLEAN]
    BY <1>16 DEF DelRef
  <2>3. mixed' \in [Tasks -> BOOLEAN] /\ dirty' \in [Agents -> BOOLEAN]
    BY <1>16 DEF DelRef, Ends
  <2>4. /\ pc' \in [Agents -> Running \cup {"poll"}]
        /\ job' \in [Agents -> Tasks \cup {None}]
        /\ rounds' \in [Agents -> Conversations]
        /\ state' \in [Agents -> AgentStates]
        /\ cur' \in [Agents -> Tasks \cup {None}]
    BY <1>16 DEF DelRef, Settle, Leave, AgentStates, Conversations
  <2> QED
    BY <1>16, <2>1, <2>2, <2>3, <2>4 DEF DelRef
<1>17. ASSUME NEW a \in Agents, Pause(a) PROVE TypeOK'
  BY <1>17 DEF Pause, Told, Happens, Commands, PausedSnapshots
<1>18. ASSUME NEW a \in Agents, Resume(a) PROVE TypeOK'
  BY <1>18 DEF Resume, Told, Happens, AgentStates, Commands
<1>19. ASSUME NEW a \in Agents, Recover(a) PROVE TypeOK'
  BY <1>19 DEF Recover, Told, Happens, AgentStates, Commands
<1>20. ASSUME NEW a \in Agents, ResumeLoad(a) PROVE TypeOK'
  <2>1. events' \in Nat
    BY <1>20 DEF ResumeLoad, Happens
  <2>2. ctl[a] \in Commands
    BY <1>20 DEF ResumeLoad, Obeys
  <2>3. ctl' \in [Agents -> Commands \cup {Listening}]
    BY <1>20, <2>2 DEF ResumeLoad, Commands
  <2>4. paused' \in [Agents -> PausedSnapshots \cup {NotPaused}]
    BY <1>20 DEF ResumeLoad
  <2>5. cur' \in [Agents -> Tasks \cup {None}] /\ conv' \in [Agents -> Conversations]
    BY <1>20 DEF ResumeLoad, PausedSnapshots
  <2> QED
    BY <1>20, <2>1, <2>3, <2>4, <2>5 DEF ResumeLoad
<1>21. ASSUME NEW a \in Agents, ReadTask(a) PROVE TypeOK'
  BY <1>21 DEF ReadTask, Obeys, Commands
<1>22. ASSUME NEW a \in Agents, WriteTask(a) PROVE TypeOK'
  <2>1. events' \in Nat
    BY <1>22 DEF WriteTask, Happens
  <2>2. ctl[a] \in Commands
    BY <1>22 DEF WriteTask, Obeys
  <2>3. ctl' \in [Agents -> Commands \cup {Listening}]
    BY <1>22, <2>2 DEF WriteTask, Commands
  <2>4. status' \in [Tasks -> TaskStatus]
    BY <1>22 DEF WriteTask, TaskStatus
  <2>5. late' \in [Tasks -> BOOLEAN]
    BY <1>22 DEF WriteTask, Worked, Held
  <2> QED
    BY <1>22, <2>1, <2>3, <2>4, <2>5 DEF WriteTask
<1>23. ASSUME NEW a \in Agents, Obeyed(a) PROVE TypeOK'
  BY <1>23 DEF Obeyed, AgentStates
<1>24. ASSUME NEW a \in Agents, RecoverLoad(a) PROVE TypeOK'
  <2>1. events' \in Nat
    BY <1>24 DEF RecoverLoad, Happens
  <2>2. ctl' \in [Agents -> Commands \cup {Listening}]
    BY <1>24 DEF RecoverLoad
  <2>3. \A t \in Tasks : CouldLoad(t) \subseteq Snapshots \cup {NoSnapshot}
    BY DEF CouldLoad, Loaded, InFile
  <2>4. ASSUME paused[a] # NotPaused,
               cur' = [cur EXCEPT ![a] = paused[a].task],
               conv' = [conv EXCEPT ![a] = paused[a].conv],
               state' = [state EXCEPT ![a] = "ACTIVE"]
        PROVE  TypeOK'
    <3>1. paused[a] \in PausedSnapshots
      BY <2>4
    <3>2. paused[a].task \in Tasks \cup {None} /\ paused[a].conv \in Conversations
      BY <3>1 DEF PausedSnapshots
    <3> QED
      BY <1>24, <2>1, <2>2, <2>4, <3>2 DEF RecoverLoad, AgentStates
  <2>5. ASSUME NEW s \in IF cur[a] = None THEN {NoSnapshot} ELSE CouldLoad(cur[a]),
               conv' = [conv EXCEPT ![a] = IF s = NoSnapshot THEN @ ELSE s.rounds],
               state' = [state EXCEPT ![a] = IF s = NoSnapshot THEN "IDLE"
                                             ELSE "ACTIVE"],
               UNCHANGED cur
        PROVE  TypeOK'
    <3>1. s \in Snapshots \cup {NoSnapshot}
      BY <2>3
    <3>2. conv' \in [Agents -> Conversations]
      BY <2>5, <3>1 DEF Snapshots
    <3>3. state' \in [Agents -> AgentStates]
      BY <2>5 DEF AgentStates
    <3> QED
      BY <1>24, <2>1, <2>2, <2>5, <3>2, <3>3 DEF RecoverLoad
  <2> QED
    BY <1>24, <2>4, <2>5 DEF RecoverLoad

<1>25. ASSUME NEW a \in Agents, ExpirePaused(a) PROVE TypeOK'
  BY <1>25 DEF ExpirePaused
<1>26. ASSUME NEW a \in Agents, Crash(a) PROVE TypeOK'
  <2>1. events' \in Nat
    BY <1>26 DEF Crash, Happens
  <2>2. /\ left' \in [Tasks -> BOOLEAN]
        /\ lost' \in [Tasks -> BOOLEAN]
        /\ mixed' \in [Tasks -> BOOLEAN]
    <3>1. CASE pc[a] = "poll"
      BY <1>26, <3>1 DEF Crash
    <3>2. CASE pc[a] # "poll"
      <4>1. /\ left' = [left EXCEPT ![job[a]] = TRUE]
            /\ lost' = [lost EXCEPT ![job[a]] = @ \/ pc[a] \in Working]
            /\ mixed' = [mixed EXCEPT ![job[a]] = @ \/ pc[a] \in InStores]
        BY <1>26, <3>2 DEF Crash
      <4> QED
        BY <4>1
    <3> QED
      BY <3>1, <3>2
  <2>3. /\ pc' \in [Agents -> Running \cup {"poll"}]
        /\ job' \in [Agents -> Tasks \cup {None}]
        /\ rounds' \in [Agents -> Conversations]
        /\ state' \in [Agents -> AgentStates]
        /\ cur' \in [Agents -> Tasks \cup {None}]
        /\ conv' \in [Agents -> Conversations]
    BY <1>26 DEF Crash, AgentStates, Conversations
  <2>4. /\ live' \in [Agents -> BOOLEAN]
        /\ ctl' \in [Agents -> Commands \cup {Listening}]
        /\ paused' \in [Agents -> PausedSnapshots \cup {NotPaused}]
        /\ meddled' \in [Agents -> BOOLEAN]
        /\ dirty' \in [Agents -> BOOLEAN]
    BY <1>26 DEF Crash
  <2> QED
    BY <1>26, <2>1, <2>2, <2>3, <2>4 DEF Crash
<1>27. CASE UNCHANGED vars
  BY <1>27 DEF vars
<1> QED
  BY <1>1, <1>2, <1>3, <1>4, <1>5, <1>6, <1>7, <1>8, <1>9, <1>10, <1>11,
     <1>12, <1>13, <1>14, <1>15, <1>16, <1>17, <1>18, <1>19, <1>20, <1>21,
     <1>22, <1>23, <1>24, <1>25, <1>26, <1>27 DEF Next, Execute, Listen

-----------------------------------------------------------------------------
(***************************************************************************)
(* What an agent reports, and who works on a row: inductive with the types *)
(* and the shape.                                                          *)
(***************************************************************************)
\* Whoever was not meddled with obeys no command either.
ReportInv ==
  \A a \in Agents :
    live[a] /\ ~meddled[a]
      => /\ ctl[a] = Listening
         /\ IF pc[a] = "poll" THEN state[a] = "IDLE"
            ELSE state[a] \in {"WARMING", "ACTIVE"}
         /\ cur[a] = job[a]

\* Every step keeps what a busy agent reports.
LEMMA ReportStep ==
  TypeOK /\ Shape /\ ReportInv /\ [Next]_vars => ReportInv'
<1> SUFFICES ASSUME TypeOK, Shape, ReportInv, [Next]_vars
             PROVE  ReportInv'
  OBVIOUS
<1> USE RuntimeAssumption DEF ReportInv, TypeOK, Running, Working, stores,
        fields, runner, control, bounds, ofStores, ofTasks
<1>1. ASSUME NEW t \in Tasks, Assign(t) PROVE ReportInv'
  BY <1>1 DEF Assign
<1>2. ASSUME NEW t \in Tasks, ExpireHot(t) PROVE ReportInv'
  BY <1>2 DEF ExpireHot
<1>3. ASSUME NEW a \in Agents, NEW t \in Tasks, Claim(a, t) PROVE ReportInv'
  BY <1>3 DEF Claim
<1>4. ASSUME NEW a \in Agents, Restore(a) PROVE ReportInv'
  BY <1>4 DEF Restore
<1>5. ASSUME NEW a \in Agents, Answer(a) PROVE ReportInv'
  BY <1>5 DEF Answer, At
<1>6. ASSUME NEW a \in Agents, Round(a) PROVE ReportInv'
  BY <1>6 DEF Round, At, Onward
<1>7. ASSUME NEW a \in Agents, GiveUp(a) PROVE ReportInv'
  BY <1>7 DEF GiveUp, Settle, Leave
<1>8. ASSUME NEW a \in Agents, Raise(a) PROVE ReportInv'
  BY <1>8 DEF Raise, Leave
<1>9. ASSUME NEW a \in Agents, Write(a) PROVE ReportInv'
  BY <1>9 DEF Write, At
<1>10. ASSUME NEW a \in Agents, SaveHot(a) PROVE ReportInv'
  BY <1>10 DEF SaveHot, At
<1>11. ASSUME NEW a \in Agents, SaveOpen(a) PROVE ReportInv'
  BY <1>11 DEF SaveOpen, At
<1>12. ASSUME NEW a \in Agents, SaveFile(a) PROVE ReportInv'
  BY <1>12 DEF SaveFile, At
<1>13. ASSUME NEW a \in Agents, SaveRef(a) PROVE ReportInv'
  BY <1>13 DEF SaveRef, At, Onward
<1>14. ASSUME NEW a \in Agents, DelHot(a) PROVE ReportInv'
  BY <1>14 DEF DelHot, At
<1>15. ASSUME NEW a \in Agents, DelFile(a) PROVE ReportInv'
  BY <1>15 DEF DelFile, At
<1>16. ASSUME NEW a \in Agents, DelRef(a) PROVE ReportInv'
  BY <1>16 DEF DelRef, Settle, Leave
<1>17. ASSUME NEW a \in Agents, Pause(a) PROVE ReportInv'
  BY <1>17 DEF Pause, Told
<1>18. ASSUME NEW a \in Agents, Resume(a) PROVE ReportInv'
  BY <1>18 DEF Resume, Told
<1>19. ASSUME NEW a \in Agents, Recover(a) PROVE ReportInv'
  BY <1>19 DEF Recover, Told
<1>20. ASSUME NEW a \in Agents, ResumeLoad(a) PROVE ReportInv'
  BY <1>20 DEF ResumeLoad, Obeys
<1>21. ASSUME NEW a \in Agents, ReadTask(a) PROVE ReportInv'
  BY <1>21 DEF ReadTask, Obeys
<1>22. ASSUME NEW a \in Agents, WriteTask(a) PROVE ReportInv'
  BY <1>22 DEF WriteTask, Obeys
<1>23. ASSUME NEW a \in Agents, Obeyed(a) PROVE ReportInv'
  BY <1>23 DEF Obeyed, Obeys
<1>24. ASSUME NEW a \in Agents, RecoverLoad(a) PROVE ReportInv'
  BY <1>24 DEF RecoverLoad, Obeys
<1>25. ASSUME NEW a \in Agents, ExpirePaused(a) PROVE ReportInv'
  BY <1>25 DEF ExpirePaused
<1>26. ASSUME NEW a \in Agents, Crash(a) PROVE ReportInv'
  BY <1>26 DEF Crash
<1>27. CASE UNCHANGED vars
  BY <1>27 DEF vars
<1> QED
  BY <1>1, <1>2, <1>3, <1>4, <1>5, <1>6, <1>7, <1>8, <1>9, <1>10, <1>11,
     <1>12, <1>13, <1>14, <1>15, <1>16, <1>17, <1>18, <1>19, <1>20, <1>21,
     <1>22, <1>23, <1>24, <1>25, <1>26, <1>27 DEF Next, Execute, Listen

\* Every step keeps a RUNNING or PAUSED row with somebody at work on it, or a record.
LEMMA RowsStep ==
  TypeOK /\ Shape /\ RowsAreWorked /\ [Next]_vars => RowsAreWorked'
<1> SUFFICES ASSUME TypeOK, Shape, RowsAreWorked, [Next]_vars
             PROVE  RowsAreWorked'
  OBVIOUS
<1> USE RuntimeAssumption DEF RowsAreWorked, Worked, Held, TypeOK, Running,
        Working, stores, fields, runner, control, bounds, ofStores, ofTasks
<1>1. ASSUME NEW t \in Tasks, Assign(t) PROVE RowsAreWorked'
  BY <1>1 DEF Assign
<1>2. ASSUME NEW t \in Tasks, ExpireHot(t) PROVE RowsAreWorked'
  BY <1>2 DEF ExpireHot
<1>3. ASSUME NEW a \in Agents, NEW t \in Tasks, Claim(a, t) PROVE RowsAreWorked'
  BY <1>3 DEF Claim, At
<1>4. ASSUME NEW a \in Agents, Restore(a) PROVE RowsAreWorked'
  BY <1>4 DEF Restore
<1>5. ASSUME NEW a \in Agents, Answer(a) PROVE RowsAreWorked'
  BY <1>5 DEF Answer
<1>6. ASSUME NEW a \in Agents, Round(a) PROVE RowsAreWorked'
  BY <1>6 DEF Round, Onward
<1>7. ASSUME NEW a \in Agents, GiveUp(a) PROVE RowsAreWorked'
  BY <1>7 DEF GiveUp, Settle, Leave
<1>8. ASSUME NEW a \in Agents, Raise(a) PROVE RowsAreWorked'
  BY <1>8 DEF Raise, Leave
<1>9. ASSUME NEW a \in Agents, Write(a) PROVE RowsAreWorked'
  BY <1>9 DEF Write
<1>10. ASSUME NEW a \in Agents, SaveHot(a) PROVE RowsAreWorked'
  BY <1>10 DEF SaveHot
<1>11. ASSUME NEW a \in Agents, SaveOpen(a) PROVE RowsAreWorked'
  BY <1>11 DEF SaveOpen
<1>12. ASSUME NEW a \in Agents, SaveFile(a) PROVE RowsAreWorked'
  BY <1>12 DEF SaveFile
<1>13. ASSUME NEW a \in Agents, SaveRef(a) PROVE RowsAreWorked'
  BY <1>13 DEF SaveRef, Onward
<1>14. ASSUME NEW a \in Agents, DelHot(a) PROVE RowsAreWorked'
  BY <1>14 DEF DelHot, At
<1>15. ASSUME NEW a \in Agents, DelFile(a) PROVE RowsAreWorked'
  BY <1>15 DEF DelFile, At
<1>16. ASSUME NEW a \in Agents, DelRef(a) PROVE RowsAreWorked'
  BY <1>16 DEF DelRef, At, Settle, Leave
<1>17. ASSUME NEW a \in Agents, Pause(a) PROVE RowsAreWorked'
  BY <1>17 DEF Pause
<1>18. ASSUME NEW a \in Agents, Resume(a) PROVE RowsAreWorked'
  BY <1>18 DEF Resume
<1>19. ASSUME NEW a \in Agents, Recover(a) PROVE RowsAreWorked'
  BY <1>19 DEF Recover
<1>20. ASSUME NEW a \in Agents, ResumeLoad(a) PROVE RowsAreWorked'
  BY <1>20 DEF ResumeLoad
<1>21. ASSUME NEW a \in Agents, ReadTask(a) PROVE RowsAreWorked'
  BY <1>21 DEF ReadTask
<1>22. ASSUME NEW a \in Agents, WriteTask(a) PROVE RowsAreWorked'
  BY <1>22 DEF WriteTask, Obeys, Awake
<1>23. ASSUME NEW a \in Agents, Obeyed(a) PROVE RowsAreWorked'
  BY <1>23 DEF Obeyed
<1>24. ASSUME NEW a \in Agents, RecoverLoad(a) PROVE RowsAreWorked'
  BY <1>24 DEF RecoverLoad
<1>25. ASSUME NEW a \in Agents, ExpirePaused(a) PROVE RowsAreWorked'
  BY <1>25 DEF ExpirePaused
<1>26. ASSUME NEW a \in Agents, Crash(a) PROVE RowsAreWorked'
  BY <1>26 DEF Crash
<1>27. CASE UNCHANGED vars
  BY <1>27 DEF vars
<1> QED
  BY <1>1, <1>2, <1>3, <1>4, <1>5, <1>6, <1>7, <1>8, <1>9, <1>10, <1>11,
     <1>12, <1>13, <1>14, <1>15, <1>16, <1>17, <1>18, <1>19, <1>20, <1>21,
     <1>22, <1>23, <1>24, <1>25, <1>26, <1>27 DEF Next, Execute, Listen

\* Every step keeps a checkpoint with somebody who will delete it, or a record.
LEMMA DeletedStep ==
  TypeOK /\ Shape /\ CheckpointsAreDeleted /\ [Next]_vars => CheckpointsAreDeleted'
<1> SUFFICES ASSUME TypeOK, Shape, CheckpointsAreDeleted, [Next]_vars
             PROVE  CheckpointsAreDeleted'
  OBVIOUS
<1> USE RuntimeAssumption DEF CheckpointsAreDeleted, Held, TypeOK, Running,
        Working, stores, fields, runner, control, bounds, ofStores, ofTasks
<1>1. ASSUME NEW t \in Tasks, Assign(t) PROVE CheckpointsAreDeleted'
  BY <1>1 DEF Assign
<1>2. ASSUME NEW t \in Tasks, ExpireHot(t) PROVE CheckpointsAreDeleted'
  BY <1>2 DEF ExpireHot
<1>3. ASSUME NEW a \in Agents, NEW t \in Tasks, Claim(a, t)
      PROVE  CheckpointsAreDeleted'
  BY <1>3 DEF Claim, At
<1>4. ASSUME NEW a \in Agents, Restore(a) PROVE CheckpointsAreDeleted'
  BY <1>4 DEF Restore
<1>5. ASSUME NEW a \in Agents, Answer(a) PROVE CheckpointsAreDeleted'
  BY <1>5 DEF Answer
<1>6. ASSUME NEW a \in Agents, Round(a) PROVE CheckpointsAreDeleted'
  BY <1>6 DEF Round, Onward
<1>7. ASSUME NEW a \in Agents, GiveUp(a) PROVE CheckpointsAreDeleted'
  BY <1>7 DEF GiveUp, Settle, Leave
<1>8. ASSUME NEW a \in Agents, Raise(a) PROVE CheckpointsAreDeleted'
  BY <1>8 DEF Raise, Leave
<1>9. ASSUME NEW a \in Agents, Write(a) PROVE CheckpointsAreDeleted'
  BY <1>9 DEF Write
<1>10. ASSUME NEW a \in Agents, SaveHot(a) PROVE CheckpointsAreDeleted'
  BY <1>10 DEF SaveHot
<1>11. ASSUME NEW a \in Agents, SaveOpen(a) PROVE CheckpointsAreDeleted'
  BY <1>11 DEF SaveOpen, At
<1>12. ASSUME NEW a \in Agents, SaveFile(a) PROVE CheckpointsAreDeleted'
  BY <1>12 DEF SaveFile, At
<1>13. ASSUME NEW a \in Agents, SaveRef(a) PROVE CheckpointsAreDeleted'
  BY <1>13 DEF SaveRef, At, Onward
<1>14. ASSUME NEW a \in Agents, DelHot(a) PROVE CheckpointsAreDeleted'
  BY <1>14 DEF DelHot
<1>15. ASSUME NEW a \in Agents, DelFile(a) PROVE CheckpointsAreDeleted'
  BY <1>15 DEF DelFile
<1>16. ASSUME NEW a \in Agents, DelRef(a) PROVE CheckpointsAreDeleted'
  BY <1>16 DEF DelRef, At, Settle, Leave
<1>17. ASSUME NEW a \in Agents, Pause(a) PROVE CheckpointsAreDeleted'
  BY <1>17 DEF Pause
<1>18. ASSUME NEW a \in Agents, Resume(a) PROVE CheckpointsAreDeleted'
  BY <1>18 DEF Resume
<1>19. ASSUME NEW a \in Agents, Recover(a) PROVE CheckpointsAreDeleted'
  BY <1>19 DEF Recover
<1>20. ASSUME NEW a \in Agents, ResumeLoad(a) PROVE CheckpointsAreDeleted'
  BY <1>20 DEF ResumeLoad
<1>21. ASSUME NEW a \in Agents, ReadTask(a) PROVE CheckpointsAreDeleted'
  BY <1>21 DEF ReadTask
<1>22. ASSUME NEW a \in Agents, WriteTask(a) PROVE CheckpointsAreDeleted'
  BY <1>22 DEF WriteTask
<1>23. ASSUME NEW a \in Agents, Obeyed(a) PROVE CheckpointsAreDeleted'
  BY <1>23 DEF Obeyed
<1>24. ASSUME NEW a \in Agents, RecoverLoad(a) PROVE CheckpointsAreDeleted'
  BY <1>24 DEF RecoverLoad
<1>25. ASSUME NEW a \in Agents, ExpirePaused(a) PROVE CheckpointsAreDeleted'
  BY <1>25 DEF ExpirePaused
<1>26. ASSUME NEW a \in Agents, Crash(a) PROVE CheckpointsAreDeleted'
  BY <1>26 DEF Crash
<1>27. CASE UNCHANGED vars
  BY <1>27 DEF vars
<1> QED
  BY <1>1, <1>2, <1>3, <1>4, <1>5, <1>6, <1>7, <1>8, <1>9, <1>10, <1>11,
     <1>12, <1>13, <1>14, <1>15, <1>16, <1>17, <1>18, <1>19, <1>20, <1>21,
     <1>22, <1>23, <1>24, <1>25, <1>26, <1>27 DEF Next, Execute, Listen

-----------------------------------------------------------------------------
(***************************************************************************)
(* What load_checkpoint returns.                                           *)
(***************************************************************************)
\* Who is inside of a save or a deletion that is clean is the only one to be in
\* one of the task, and the stores it passed hold what newest says; the key does
\* wherever it is, since it comes first.  When the last one to leave was clean
\* the file agrees, too.
CleanInv ==
  \A a \in Agents :
    live[a] /\ pc[a] \in InStores /\ ~dirty[a]
      => /\ \A b \in Agents : live[b] /\ job[b] = job[a] /\ pc[b] \in InStores => b = a
         /\ hot[job[a]] \in {NoSnapshot, newest[job[a]]}
         /\ pc[a] \in {"saveOpen", "saveFile", "saveRef"}
              => newest[job[a]] = Snapshot(a)
         /\ pc[a] = "saveRef" => file[job[a]] = Snapshot(a)
         /\ pc[a] \in {"delFile", "delRef"} => newest[job[a]] = NoSnapshot
         /\ pc[a] = "delRef" => file[job[a]] = NoSnapshot

QuietInv ==
  \A t \in Tasks :
    ~mixed[t] /\ (\A b \in Agents : ~(live[b] /\ job[b] = t /\ pc[b] \in InStores))
      => hot[t] \in {NoSnapshot, newest[t]} /\ InFile(t) = newest[t]

\* A snapshot is neither of the two marks.
LEMMA MarksAreNoSnapshots ==
  /\ \A s \in Snapshots : s # Torn /\ s # NoSnapshot
  /\ Torn # NoSnapshot
<1>1. ASSUME NEW s \in Snapshots PROVE DOMAIN s = {"by", "rounds", "state"}
  BY DEF Snapshots
<1>2. DOMAIN Torn = {"by"} /\ DOMAIN NoSnapshot = {"by"}
  BY DEF Torn, NoSnapshot
<1>3. {"by", "rounds", "state"} # {"by"}
  OBVIOUS
<1>4. Torn # NoSnapshot
  BY DEF Torn, NoSnapshot, None
<1> QED
  BY <1>1, <1>2, <1>3, <1>4

\* Every step keeps the stores in agreement with the newest save.
LEMMA StoresStep ==
  TypeOK /\ Shape /\ CleanInv /\ QuietInv /\ [Next]_vars => CleanInv' /\ QuietInv'
<1> SUFFICES ASSUME TypeOK, Shape, CleanInv, QuietInv, [Next]_vars
             PROVE  CleanInv' /\ QuietInv'
  OBVIOUS
<1> USE RuntimeAssumption, MarksAreNoSnapshots DEF TypeOK, Running, Working,
        stores, fields, runner, control, bounds, ofStores, ofTasks
<1>1. ASSUME NEW t \in Tasks, Assign(t) PROVE CleanInv' /\ QuietInv'
  <2>1. CleanInv'
    BY <1>1 DEF Assign, CleanInv, Snapshot
  <2>2. QuietInv'
    BY <1>1 DEF Assign, QuietInv, InFile
  <2> QED
    BY <2>1, <2>2
<1>2. ASSUME NEW t \in Tasks, ExpireHot(t) PROVE CleanInv' /\ QuietInv'
  <2>1. CleanInv'
    BY <1>2 DEF ExpireHot, CleanInv, Snapshot
  <2>2. QuietInv'
    BY <1>2 DEF ExpireHot, QuietInv, InFile
  <2> QED
    BY <2>1, <2>2
<1>3. ASSUME NEW a \in Agents, NEW t \in Tasks, Claim(a, t)
      PROVE  CleanInv' /\ QuietInv'
  <2>1. CleanInv'
    BY <1>3 DEF Claim, CleanInv, Snapshot, InStores
  <2>2. QuietInv'
    BY <1>3 DEF Claim, At, QuietInv, InFile, InStores
  <2> QED
    BY <2>1, <2>2
<1>4. ASSUME NEW a \in Agents, Restore(a) PROVE CleanInv' /\ QuietInv'
  <2>1. CleanInv'
    BY <1>4 DEF Restore, CleanInv, Snapshot, InStores
  <2>2. QuietInv'
    BY <1>4 DEF Restore, At, InFile, QuietInv, InStores
  <2> QED
    BY <2>1, <2>2
<1>5. ASSUME NEW a \in Agents, Answer(a) PROVE CleanInv' /\ QuietInv'
  <2>1. CleanInv'
    BY <1>5 DEF Answer, CleanInv, Snapshot, InStores
  <2>2. QuietInv'
    BY <1>5 DEF Answer, At, QuietInv, InFile, InStores
  <2> QED
    BY <2>1, <2>2
<1>6. ASSUME NEW a \in Agents, Round(a) PROVE CleanInv' /\ QuietInv'
  <2>1. CleanInv'
    BY <1>6 DEF Round, Onward, CleanInv, Snapshot, InStores
  <2>2. QuietInv'
    BY <1>6 DEF Round, At, QuietInv, InFile, InStores
  <2> QED
    BY <2>1, <2>2
<1>7. ASSUME NEW a \in Agents, GiveUp(a) PROVE CleanInv' /\ QuietInv'
  <2>1. CleanInv'
    BY <1>7 DEF GiveUp, Settle, Leave, CleanInv, Snapshot, InStores
  <2>2. QuietInv'
    BY <1>7 DEF GiveUp, At, Settle, Leave, QuietInv, InFile, InStores
  <2> QED
    BY <2>1, <2>2
<1>8. ASSUME NEW a \in Agents, Raise(a) PROVE CleanInv' /\ QuietInv'
  <2>1. CleanInv'
    BY <1>8 DEF Raise, Leave, CleanInv, Snapshot, InStores
  <2>2. QuietInv'
    BY <1>8 DEF Raise, Leave, QuietInv, InFile
  <2> QED
    BY <2>1, <2>2
<1>9. ASSUME NEW a \in Agents, Write(a) PROVE CleanInv' /\ QuietInv'
  <2>1. CleanInv'
    BY <1>9 DEF Write, CleanInv, Snapshot, InStores
  <2>2. QuietInv'
    BY <1>9 DEF Write, At, QuietInv, InFile, InStores
  <2> QED
    BY <2>1, <2>2
<1>10. ASSUME NEW a \in Agents, SaveHot(a) PROVE CleanInv' /\ QuietInv'
  <2>1. CleanInv'
    BY <1>10 DEF SaveHot, At, Begins, Snapshot, CleanInv, Shape, InStores,
       Writers
  <2>2. ASSUME NEW t \in Tasks, ~mixed'[t],
               \A b \in Agents : ~(live'[b] /\ job'[b] = t /\ pc'[b] \in InStores)
        PROVE  hot'[t] \in {NoSnapshot, newest'[t]} /\ InFile(t)' = newest'[t]
    <3>1. /\ live[a] /\ pc[a] = "saveHot" /\ pc' = [pc EXCEPT ![a] = "saveOpen"]
          /\ UNCHANGED <<live, job, file, mixed>>
      BY <1>10 DEF SaveHot, At
    <3>2. t # job[a]
      BY <2>2, <3>1 DEF InStores
    <3>3. hot'[t] = hot[t] /\ newest'[t] = newest[t]
      BY <1>10, <3>2 DEF SaveHot
    <3>4. \A b \in Agents : ~(live[b] /\ job[b] = t /\ pc[b] \in InStores)
      BY <2>2, <3>1, <3>2 DEF InStores
    <3> QED
      BY <2>2, <3>1, <3>3, <3>4 DEF QuietInv, InFile
  <2> QED
    BY <2>1, <2>2 DEF QuietInv
<1>11. ASSUME NEW a \in Agents, SaveOpen(a) PROVE CleanInv' /\ QuietInv'
  <2>1. CleanInv'
    BY <1>11 DEF SaveOpen, At, CleanInv, Snapshot, InStores
  <2>2. QuietInv'
    BY <1>11 DEF SaveOpen, At, QuietInv, InFile, InStores
  <2> QED
    BY <2>1, <2>2
<1>12. ASSUME NEW a \in Agents, SaveFile(a) PROVE CleanInv' /\ QuietInv'
  <2>1. CleanInv'
    BY <1>12 DEF SaveFile, At, Snapshot, CleanInv, Shape, InStores
  <2>2. QuietInv'
    BY <1>12 DEF SaveFile, At, QuietInv, InFile, InStores
  <2> QED
    BY <2>1, <2>2
<1>13. ASSUME NEW a \in Agents, SaveRef(a) PROVE CleanInv' /\ QuietInv'
  <2>1. CleanInv'
    BY <1>13 DEF SaveRef, Ends, Onward, CleanInv, Snapshot, InStores
  <2>2. ASSUME NEW t \in Tasks, ~mixed'[t],
               \A b \in Agents : ~(live'[b] /\ job'[b] = t /\ pc'[b] \in InStores)
        PROVE  hot'[t] \in {NoSnapshot, newest'[t]} /\ InFile(t)' = newest'[t]
    <3>1. /\ live[a] /\ pc[a] \in InStores /\ job[a] \in Tasks
          /\ UNCHANGED <<live, hot, file, newest>>
          /\ mixed' = [mixed EXCEPT ![job[a]] = dirty[a]]
          /\ \A b \in Agents : b # a => pc'[b] = pc[b] /\ job'[b] = job[b]
      BY <1>13 DEF SaveRef, At, Ends, Shape, InStores
    <3>2. CASE t = job[a]
      <4>1. ~dirty[a]
        BY <2>2, <3>1, <3>2
      <4>2. /\ hot[t] \in {NoSnapshot, newest[t]}
            /\ file[job[a]] = Snapshot(a) /\ newest[job[a]] = Snapshot(a)
        BY <1>13, <3>1, <3>2, <4>1 DEF CleanInv, SaveRef, At
      <4>3. Snapshot(a) \in Snapshots
        BY DEF Snapshot, Snapshots
      <4> QED
        BY <3>1, <3>2, <4>2, <4>3 DEF InFile
    <3>3. CASE t # job[a]
      <4>1. ~mixed[t]
        BY <2>2, <3>1, <3>3
      <4>2. \A b \in Agents : ~(live[b] /\ job[b] = t /\ pc[b] \in InStores)
        BY <2>2, <3>1, <3>3
      <4> QED
        BY <3>1, <4>1, <4>2 DEF QuietInv, InFile
    <3> QED
      BY <3>2, <3>3
  <2> QED
    BY <2>1, <2>2 DEF QuietInv
<1>14. ASSUME NEW a \in Agents, DelHot(a) PROVE CleanInv' /\ QuietInv'
  <2>1. CleanInv'
    BY <1>14 DEF DelHot, At, Begins, CleanInv, Snapshot, Shape, InStores,
       Writers
  <2>2. ASSUME NEW t \in Tasks, ~mixed'[t],
               \A b \in Agents : ~(live'[b] /\ job'[b] = t /\ pc'[b] \in InStores)
        PROVE  hot'[t] \in {NoSnapshot, newest'[t]} /\ InFile(t)' = newest'[t]
    <3>1. /\ live[a] /\ pc[a] = "delHot" /\ pc' = [pc EXCEPT ![a] = "delFile"]
          /\ UNCHANGED <<live, job, file, mixed>>
      BY <1>14 DEF DelHot, At
    <3>2. t # job[a]
      BY <2>2, <3>1 DEF InStores
    <3>3. hot'[t] = hot[t] /\ newest'[t] = newest[t]
      BY <1>14, <3>2 DEF DelHot
    <3>4. \A b \in Agents : ~(live[b] /\ job[b] = t /\ pc[b] \in InStores)
      BY <2>2, <3>1, <3>2 DEF InStores
    <3> QED
      BY <2>2, <3>1, <3>3, <3>4 DEF QuietInv, InFile
  <2> QED
    BY <2>1, <2>2 DEF QuietInv
<1>15. ASSUME NEW a \in Agents, DelFile(a) PROVE CleanInv' /\ QuietInv'
  <2>1. CleanInv'
    BY <1>15 DEF DelFile, At, CleanInv, Snapshot, Shape, InStores
  <2>2. QuietInv'
    BY <1>15 DEF DelFile, At, QuietInv, InFile, InStores
  <2> QED
    BY <2>1, <2>2
<1>16. ASSUME NEW a \in Agents, DelRef(a) PROVE CleanInv' /\ QuietInv'
  <2>1. CleanInv'
    BY <1>16 DEF DelRef, Settle, Leave, Ends, CleanInv, Snapshot, InStores
  <2>2. ASSUME NEW t \in Tasks, ~mixed'[t],
               \A b \in Agents : ~(live'[b] /\ job'[b] = t /\ pc'[b] \in InStores)
        PROVE  hot'[t] \in {NoSnapshot, newest'[t]} /\ InFile(t)' = newest'[t]
    <3>1. /\ live[a] /\ pc[a] \in InStores /\ job[a] \in Tasks
          /\ UNCHANGED <<live, hot, file, newest>>
          /\ mixed' = [mixed EXCEPT ![job[a]] = dirty[a]]
          /\ \A b \in Agents : b # a => pc'[b] = pc[b] /\ job'[b] = job[b]
      BY <1>16 DEF DelRef, At, Ends, Settle, Leave, Shape, InStores
    <3>2. CASE t = job[a]
      <4>1. ~dirty[a]
        BY <2>2, <3>1, <3>2
      <4>2. /\ hot[t] \in {NoSnapshot, newest[t]}
            /\ file[job[a]] = NoSnapshot /\ newest[job[a]] = NoSnapshot
        BY <1>16, <3>1, <3>2, <4>1 DEF CleanInv, DelRef, At
      <4> QED
        BY <3>1, <3>2, <4>2 DEF InFile
    <3>3. CASE t # job[a]
      <4>1. ~mixed[t]
        BY <2>2, <3>1, <3>3
      <4>2. \A b \in Agents : ~(live[b] /\ job[b] = t /\ pc[b] \in InStores)
        BY <2>2, <3>1, <3>3
      <4> QED
        BY <3>1, <4>1, <4>2 DEF QuietInv, InFile
    <3> QED
      BY <3>2, <3>3
  <2> QED
    BY <2>1, <2>2 DEF QuietInv
<1>17. ASSUME NEW a \in Agents, Pause(a) PROVE CleanInv' /\ QuietInv'
  <2>1. CleanInv'
    BY <1>17 DEF Pause, CleanInv, Snapshot
  <2>2. QuietInv'
    BY <1>17 DEF Pause, QuietInv, InFile
  <2> QED
    BY <2>1, <2>2
<1>18. ASSUME NEW a \in Agents, Resume(a) PROVE CleanInv' /\ QuietInv'
  <2>1. CleanInv'
    BY <1>18 DEF Resume, Told, Awake, CleanInv, Snapshot
  <2>2. QuietInv'
    BY <1>18 DEF Resume, QuietInv, InFile
  <2> QED
    BY <2>1, <2>2
<1>19. ASSUME NEW a \in Agents, Recover(a) PROVE CleanInv' /\ QuietInv'
  <2>1. CleanInv'
    BY <1>19 DEF Recover, Told, Awake, CleanInv, Snapshot
  <2>2. QuietInv'
    BY <1>19 DEF Recover, QuietInv, InFile
  <2> QED
    BY <2>1, <2>2
<1>20. ASSUME NEW a \in Agents, ResumeLoad(a) PROVE CleanInv' /\ QuietInv'
  <2>1. CleanInv'
    BY <1>20 DEF ResumeLoad, CleanInv, Snapshot
  <2>2. QuietInv'
    BY <1>20 DEF ResumeLoad, QuietInv, InFile
  <2> QED
    BY <2>1, <2>2
<1>21. ASSUME NEW a \in Agents, ReadTask(a) PROVE CleanInv' /\ QuietInv'
  <2>1. CleanInv'
    BY <1>21 DEF ReadTask, CleanInv, Snapshot
  <2>2. QuietInv'
    BY <1>21 DEF ReadTask, QuietInv, InFile
  <2> QED
    BY <2>1, <2>2
<1>22. ASSUME NEW a \in Agents, WriteTask(a) PROVE CleanInv' /\ QuietInv'
  <2>1. CleanInv'
    BY <1>22 DEF WriteTask, CleanInv, Snapshot
  <2>2. QuietInv'
    BY <1>22 DEF WriteTask, QuietInv, InFile
  <2> QED
    BY <2>1, <2>2
<1>23. ASSUME NEW a \in Agents, Obeyed(a) PROVE CleanInv' /\ QuietInv'
  <2>1. CleanInv'
    BY <1>23 DEF Obeyed, Obeys, Awake, CleanInv, Snapshot
  <2>2. QuietInv'
    BY <1>23 DEF Obeyed, QuietInv, InFile
  <2> QED
    BY <2>1, <2>2
<1>24. ASSUME NEW a \in Agents, RecoverLoad(a) PROVE CleanInv' /\ QuietInv'
  <2>1. CleanInv'
    BY <1>24 DEF RecoverLoad, Obeys, Awake, CleanInv, Snapshot
  <2>2. QuietInv'
    BY <1>24 DEF RecoverLoad, InFile, QuietInv
  <2> QED
    BY <2>1, <2>2
<1>25. ASSUME NEW a \in Agents, ExpirePaused(a) PROVE CleanInv' /\ QuietInv'
  <2>1. CleanInv'
    BY <1>25 DEF ExpirePaused, CleanInv, Snapshot
  <2>2. QuietInv'
    BY <1>25 DEF ExpirePaused, QuietInv, InFile
  <2> QED
    BY <2>1, <2>2
<1>26. ASSUME NEW a \in Agents, Crash(a) PROVE CleanInv' /\ QuietInv'
  <2>1. CleanInv'
    BY <1>26 DEF Crash, CleanInv, Snapshot
  <2>2. QuietInv'
    BY <1>26 DEF Crash, QuietInv, InFile, InStores
  <2> QED
    BY <2>1, <2>2
<1>27. CASE UNCHANGED vars
  BY <1>27 DEF vars, CleanInv, QuietInv, InFile, Snapshot
<1> QED
  BY <1>1, <1>2, <1>3, <1>4, <1>5, <1>6, <1>7, <1>8, <1>9, <1>10, <1>11,
     <1>12, <1>13, <1>14, <1>15, <1>16, <1>17, <1>18, <1>19, <1>20, <1>21,
     <1>22, <1>23, <1>24, <1>25, <1>26, <1>27 DEF Next, Execute, Listen

-----------------------------------------------------------------------------
(***************************************************************************)
(* The theorems.                                                           *)
(***************************************************************************)
RuntimeInv ==
  /\ TypeOK /\ Shape
  /\ ReportInv /\ RowsAreWorked /\ CheckpointsAreDeleted
  /\ CleanInv /\ QuietInv

\* The conjunction is an invariant: the theorems below follow from it.
THEOREM RuntimeInvariant == Spec => []RuntimeInv
<1>1. Init => RuntimeInv
  <2> SUFFICES ASSUME Init PROVE RuntimeInv
    OBVIOUS
  <2> USE RuntimeAssumption, MarksAreNoSnapshots DEF Init
  <2>1. TypeOK
    BY DEF TypeOK, TaskStatus, AgentStates, Conversations
  <2>2. Shape
    BY DEF Shape
  <2>3. ReportInv
    BY DEF ReportInv
  <2>4. RowsAreWorked
    BY DEF RowsAreWorked
  <2>5. CheckpointsAreDeleted
    BY DEF CheckpointsAreDeleted
  <2>6. CleanInv /\ QuietInv
    BY DEF CleanInv, QuietInv, InFile, InStores
  <2> QED
    BY <2>1, <2>2, <2>3, <2>4, <2>5, <2>6 DEF RuntimeInv
<1>2. RuntimeInv /\ [Next]_vars => RuntimeInv'
  BY TypeStep, ShapeStep, ReportStep, RowsStep, DeletedStep, StoresStep DEF
     RuntimeInv
<1> QED
  BY <1>1, <1>2, PTL DEF Spec

\* The variables keep their types.
THEOREM RuntimeTypes == Spec => []TypeOK
<1>1. RuntimeInv => TypeOK
  BY DEF RuntimeInv
<1> QED
  BY <1>1, RuntimeInvariant, PTL

\* load_checkpoint returns the last checkpoint saved, or nothing after its
\* deletion, unless a save or a deletion was disturbed.
THEOREM RuntimeLoadIsNewest == Spec => []LoadIsNewest
<1>1. RuntimeInv => LoadIsNewest
  BY DEF RuntimeInv, QuietInv, LoadIsNewest, Loaded, Writers
<1> QED
  BY <1>1, RuntimeInvariant, PTL

\* No run ends with its checkpoint left behind, unless by a crash or exception.
THEOREM RuntimeCheckpointsAreDeleted == Spec => []CheckpointsAreDeleted
<1>1. RuntimeInv => CheckpointsAreDeleted
  BY DEF RuntimeInv
<1> QED
  BY <1>1, RuntimeInvariant, PTL

\* Rows that read RUNNING or PAUSED are worked on, whatever commands come in
\* between, unless for a crash, an exception or a command that came late.
THEOREM RuntimeRowsAreWorked == Spec => []RowsAreWorked
<1>1. RuntimeInv => RowsAreWorked
  BY DEF RuntimeInv
<1> QED
  BY <1>1, RuntimeInvariant, PTL

\* An agent no command was sent to reports what it does.
THEOREM RuntimeReportsItsWork == Spec => []ReportsItsWork
<1>1. RuntimeInv => ReportsItsWork
  BY DEF RuntimeInv, ReportInv, ReportsItsWork
<1> QED
  BY <1>1, RuntimeInvariant, PTL
=============================================================================
